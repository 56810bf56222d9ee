----------------------------- MODULE MCCiphers -----------------------------
(***************************************************************************)
(* Instances of Ciphers: an item or two on the server, personal and of an  *)
(* organisation, with a key of their own and without, with a past          *)
(* password and an attachment.                                             *)
(***************************************************************************)
EXTENDS Ciphers, TLC

CONSTANTS i1, i2, o1, o2, own1, own2, f1, f2, c1, c2, coll1, coll2

Symmetry == Permutations(Calls)

Collections == (coll1 :> o1) @@ (coll2 :> o2)

\* "a" and "b" have the same prefix.
Prefixes == ("" :> "0") @@ ("a" :> "1") @@ ("b" :> "1")

Only(password, secret) == [p \in Parts |->
    CASE p = "name" -> "a" [] p = "password" -> password
      [] p = "secret" -> secret [] OTHER -> None]

Login(password, org, coll) ==
    [kind |-> "login", org |-> org, coll |-> coll,
     fields |-> Only(password, None), reprompt |-> FALSE, whole |-> TRUE]
Typed == {Login("b", None, None), Login("a", o1, coll1)}

Stored(kind, org, coll, own, password, secret, past, files) ==
    LET owner == IF org = None THEN UserKey ELSE org
        key == IF own = None THEN owner ELSE own
    IN  [kind |-> kind, org |-> org, coll |-> coll,
         wrap |-> IF own = None THEN None ELSE [under |-> owner, key |-> own],
         fields |-> [p \in Parts |-> SealOpt(Only(password, secret)[p], key)],
         past |-> [n \in DOMAIN past |-> Seal(past[n], key)],
         files |-> {[id |-> f, cover |-> key] : f \in files},
         reprompt |-> TRUE, whole |-> TRUE, trashed |-> FALSE]

\* A folder as a sync brings it and one created since; a collection of an
\* organisation whose key is held, and one of another.
InFolders == {<<Seal("a", UserKey), Seal("b", UserKey)>>,
              <<Seal("a", UserKey), Seal("b", None)>>}
InCollections == {<<[org |-> o1, name |-> Seal("a", o1)],
                    [org |-> o2, name |-> Seal("b", o2)]>>}

Two(a, b) == (i1 :> a) @@ (i2 :> b)
StartItems == {
    Two(Stored("login", None, None, None, "a", None, <<>>, {f1}), None),
    Two(Stored("login", None, None, own1, "a", "b", <<"b">>, {f1}),
        Stored("login", o1, coll1, None, "a", None, <<>>, {})),
    Two(Stored("sshKey", None, None, None, None, "a", <<>>, {}),
        [Stored("sshKey", o2, coll2, own1, None, "b", <<>>, {}) EXCEPT
            !.trashed = TRUE])}
=============================================================================
