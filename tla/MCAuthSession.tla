--------------------------- MODULE MCAuthSession ---------------------------
(***************************************************************************)
(* Small instances of AuthSession.  Both accounts live on one server, so   *)
(* that signing in to one while the other is open is allowed.              *)
(***************************************************************************)
EXTENDS AuthSession, FiniteSets, TLC

OneServer == [a \in Accounts |-> "vault.example.com"]

Symmetry == Permutations(Accounts) \cup Permutations(Calls)

\* The accounts a state speaks of.
Present ==
    LET held(call) == {call.acct, call.key,
                       IF call.snap = None THEN None ELSE call.snap.email}
    IN (UNION {held(calls[c]) : c \in Calls}
          \cup (IF session = None THEN {} ELSE {session.client, session.key})
          \cup (IF pending = None THEN {} ELSE {pending.acct})
          \cup (IF file = None THEN {} ELSE {file.email})
          \cup {a \in Accounts : issued[a] > 0}) \cap Accounts

\* A bound: the Yubikey commands and what they leave on disk meet one account
\* only, and two accounts meet every other command.
YubikeyMeetsOneAccount ==
    \/ Cardinality(Present) <= 1
    \/ /\ file # None => file.wrap = None
       /\ \A c \in Calls :
            /\ calls[c].at \notin {"enroll.touch", "enroll.save", "disenroll.save"}
            /\ calls[c].snap # None => calls[c].snap.wrap = None
=============================================================================
