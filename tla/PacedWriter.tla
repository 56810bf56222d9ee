---------------------------- MODULE PacedWriter ----------------------------
(***************************************************************************)
(* What a bulk writer promises a server that pushes back                   *)
(* (src/lib/ImportDialog.svelte: "space the writes out, back off when told *)
(* to, and stop rather than hammer a server that is refusing us").  Only   *)
(* the requests that create items are meant.                               *)
(***************************************************************************)
EXTENDS Naturals

CONSTANTS
    MaxRetries,  \* how often one item is sent again
    FirstPace,   \* the spacing a run starts with
    MaxPace      \* and the widest it learns

VARIABLES
    stand,  \* where the writer stands with the server
    slow,   \* how many "slow down" answers in a row
    pace    \* the spacing between its requests

pacedVars == <<stand, slow, pace>>

Wider(p) == IF 2 * p < MaxPace THEN 2 * p ELSE MaxPace

PacedInit == stand = "idle" /\ slow = 0 /\ pace = FirstPace

Begin == /\ stand = "idle"
         /\ stand' = "clear"
         /\ slow' = 0
         /\ pace' = FirstPace

Send == /\ stand \in {"clear", "heeded"}
        /\ stand' = "asked"
        /\ UNCHANGED <<slow, pace>>

\* The item is done with, made or not; or, after a pause, not sent again.
Settle == /\ stand \in {"asked", "heeded"}
          /\ stand' = "clear"
          /\ slow' = 0
          /\ UNCHANGED pace

ToldToSlowDown == /\ stand = "asked"
                  /\ stand' = "slow"
                  /\ slow' = slow + 1
                  /\ UNCHANGED pace

\* No further request before the spacing is wider, and none at all once the
\* retries of an item are used up.
Heed == /\ stand = "slow"
        /\ slow <= MaxRetries
        /\ stand' = "heeded"
        /\ pace' = Wider(pace)
        /\ UNCHANGED slow

Refused == /\ stand = "asked"
           /\ stand' = "refused"
           /\ UNCHANGED <<slow, pace>>

End == /\ stand # "idle"
       /\ stand' = "idle"
       /\ slow' = 0
       /\ pace' = FirstPace

PacedNext == \/ Begin \/ Send \/ Settle \/ ToldToSlowDown
             \/ Heed \/ Refused \/ End

PacedSpec == PacedInit /\ [][PacedNext]_pacedVars
=============================================================================
