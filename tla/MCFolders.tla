----------------------------- MODULE MCFolders -----------------------------
(***************************************************************************)
(* Instances of Folders: a tree "s" with "s/t" under it, renamed and moved *)
(* to "t".                                                                 *)
(***************************************************************************)
EXTENDS Folders

CONSTANTS f1, f2, f3, c1, c2

Symmetry == Permutations(Calls)

AllPaths == {<<"s">>, <<"t">>, <<"s", "t">>, <<"t", "t">>}

TypedPaths == {<<"t">>}

\* Two folders, one under the other, and an id not yet given out.
Tree == [f \in Folders |->
    CASE f = f1 -> <<"s">> [] f = f2 -> <<"s", "t">> [] OTHER -> None]
=============================================================================
