----------------------------- MODULE WriteGate -----------------------------
(***************************************************************************)
(* What the session slot promises the server: a vault is closed, open read-*)
(* only or open writable; opening and closing may happen at any time, but  *)
(* a request goes out only while the slot holds a writable vault.          *)
(***************************************************************************)
CONSTANT Requesters   \* what may have a request in flight

VARIABLES
    slot,   \* "closed", "readOnly" or "writable"
    sent    \* the requesters whose request has gone out

vars == <<slot, sent>>

Slots == {"closed", "readOnly", "writable"}

Init == slot = "closed" /\ sent = {}

\* The slot is replaced as a whole; what is in flight stays in flight.
Replace ==
    /\ slot' \in Slots
    /\ UNCHANGED sent

Send(r) ==
    /\ slot = "writable"
    /\ r \notin sent
    /\ sent' = sent \cup {r}
    /\ UNCHANGED slot

Answer(r) ==
    /\ r \in sent
    /\ sent' = sent \ {r}
    /\ UNCHANGED slot

\* The process dies with everything in flight.
Crash ==
    /\ slot' = "closed"
    /\ sent' = {}

Next == Replace \/ Crash \/ \E r \in Requesters : Send(r) \/ Answer(r)

Spec == Init /\ [][Next]_vars
=============================================================================
