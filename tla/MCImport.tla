----------------------------- MODULE MCImport -----------------------------
(***************************************************************************)
(* A small instance of Import: a file that repeats a row, groups it, and   *)
(* has a row without a title.                                              *)
(***************************************************************************)
EXTENDS Import

CONSTANTS mail, untitled, placeholder, work

Untitled == [e \in Ids |-> IF e = untitled THEN placeholder ELSE e]

Row(e, g) == [id |-> e, group |-> g]

TheFile == <<Row(mail, work), Row(mail, None), Row(untitled, work)>>

OneFile == {TheFile}
=============================================================================
