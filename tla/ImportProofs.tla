---------------------------- MODULE ImportProofs ----------------------------
(***************************************************************************)
(* Proofs about Import, for any files, any number of retries and any       *)
(* spacing: its types, that nothing is made twice, and that it implements  *)
(* PacedWriter.                                                            *)
(***************************************************************************)
EXTENDS Import, TLAPS

(***************************************************************************)
(* Rows of the dialog, and what a run may be changed to.                   *)
(***************************************************************************)

LEMMA DialogHasRows ==
    ASSUME TypeOK, dialog # None
    PROVE  dialog \in Seq(Rows)
<1>1. dialog \in Files \/ dialog = <<>>
    BY DEF TypeOK
<1>2. Files \subseteq Seq(Rows)
    BY ImportAssumption
<1>3. <<>> \in Seq(Rows)
    OBVIOUS
<1> QED BY <1>1, <1>2, <1>3

LEMMA RowsOfTheDialog ==
    ASSUME TypeOK, dialog # None, NEW n \in DOMAIN dialog
    PROVE  n \in Nat /\ dialog[n] \in Rows
<1>1. dialog \in Seq(Rows)
    BY DialogHasRows
<1> QED BY <1>1

\* A command fails at once or is on its way; nothing else of a run changes.
LEMMA AskedIs ==
    ASSUME NEW r \in Runs
    PROVE  /\ Asked(r) \in Runs
           /\ Asked(r).answer \in {"sent", "error"}
           /\ \A a \in Answers : [r EXCEPT !.answer = a] \in Runs
           /\ Asked(r).at = r.at /\ Asked(r).left = r.left
           /\ Asked(r).row = r.row /\ Asked(r).known = r.known
           /\ Asked(r).tries = r.tries /\ Asked(r).pace = r.pace
BY DEF Asked, Runs, Answers

LEMMA ForItemIs ==
    ASSUME NEW r \in Runs
    PROVE  /\ ForItem(r) \in Runs
           /\ ForItem(r).answer \in {"sent", "error"}
           /\ ForItem(r).at = "item" /\ ForItem(r).left = r.left
           /\ ForItem(r).row = r.row /\ ForItem(r).known = r.known
           /\ ForItem(r).tries = r.tries /\ ForItem(r).pace = r.pace
<1> DEFINE q == [r EXCEPT !.at = "item"]
<1>1. /\ q \in Runs /\ q.at = "item" /\ q.left = r.left /\ q.row = r.row
      /\ q.known = r.known /\ q.tries = r.tries /\ q.pace = r.pace
    BY DEF Runs
<1>2. ForItem(r) = Asked(q)
    BY DEF ForItem
<1> HIDE DEF q
<1> QED BY <1>1, <1>2, AskedIs

LEMMA BoundsAre == /\ MaxRetries \in Nat /\ FirstPace \in Nat /\ MaxPace \in Nat
                   /\ MaxCopies \in Nat
BY ImportAssumption

LEMMA WiderIsNat == ASSUME NEW p \in Nat PROVE Wider(p) \in Nat
BY ImportAssumption DEF Wider

(***************************************************************************)
(* Types.                                                                  *)
(***************************************************************************)

ListOK == /\ unlocked \in BOOLEAN
          /\ cached \in Listings \cup {None}
          /\ list \in Listings \cup {None}
          /\ syncs \in [Syncs -> SyncStates]
          /\ syncing \in BOOLEAN

ServerOK == /\ items \in [Ids -> 0..MaxCopies]
            /\ folders \in [Groups -> 0..MaxCopies]
            /\ blind \subseteq Ids \cup Groups

RunOK == /\ dialog \in Files \cup {<<>>, None}
         /\ run \in Runs \cup {None}
         /\ run # None => /\ dialog # None
                          /\ run.left \subseteq DOMAIN dialog
                          /\ run.at \in {"folder", "item", "pause"} =>
                               run.row \in run.left
                          /\ run.at = "folder" =>
                               dialog[run.row].group \in Groups \ run.known
                          /\ run.tries <= MaxRetries

LEMMA TypeParts == TypeOK <=> ListOK /\ ServerOK /\ RunOK
BY DEF TypeOK, ListOK, ServerOK, RunOK

LEMMA ServerIsListing == ServerOK => Server \in Listings
BY DEF Server, Listings

LEMMA AskSyncType == ListOK /\ AskSync =>
    syncs' \in [Syncs -> SyncStates] /\ syncing' \in BOOLEAN
<1> SUFFICES ASSUME ListOK, AskSync
             PROVE  syncs' \in [Syncs -> SyncStates] /\ syncing' \in BOOLEAN
    OBVIOUS
<1>1. CASE \E s \in Syncs : /\ syncs[s].at = "none"
                            /\ syncs' = [syncs EXCEPT ![s].at = "asked"]
                            /\ syncing' = TRUE
  <2>1. PICK s \in Syncs : /\ syncs[s].at = "none"
                           /\ syncs' = [syncs EXCEPT ![s].at = "asked"]
                           /\ syncing' = TRUE
      BY <1>1
  <2>2. syncs[s] \in SyncStates
      BY DEF ListOK
  <2>3. [syncs[s] EXCEPT !.at = "asked"] \in SyncStates
      BY <2>1, <2>2 DEF SyncStates
  <2> QED BY <2>1, <2>3 DEF ListOK
<1> QED BY <1>1 DEF AskSync, ListOK

LEMMA InitType == Init => TypeOK
<1> SUFFICES ASSUME Init PROVE TypeOK
    OBVIOUS
<1>1. NoSync \in SyncStates
    BY DEF NoSync, SyncStates
<1>2. 0 \in 0..MaxCopies
    BY ImportAssumption
<1>3. dialog \in Files \cup {<<>>, None} /\ run = None
    BY DEF Init
<1>4. /\ items \in [Ids -> 0..MaxCopies] /\ folders \in [Groups -> 0..MaxCopies]
      /\ syncs \in [Syncs -> SyncStates]
    BY <1>1, <1>2 DEF Init
<1> QED BY <1>3, <1>4 DEF Init, TypeOK

\* Sign-ins, locks, syncs and the dialog.
ListSteps ==
    \/ Unlock \/ Lock \/ SyncStart
    \/ \E s \in Syncs : SyncServed(s) \/ SyncLands(s) \/ SyncFails(s)
DialogSteps == OpenDialog \/ CancelDialog \/ PickFile
ServerSteps == ServerMakesFolder \/ ServerMakesItem \/ ServerDeclines

LEMMA NextIs == Next <=> \/ ListSteps \/ DialogSteps \/ Start \/ RunStep
                         \/ ServerSteps \/ Crash
BY DEF Next, ListSteps, DialogSteps, ServerSteps

LEMMA ListStepsType == TypeOK /\ ListSteps => TypeOK'
<1> SUFFICES ASSUME ListOK, ServerOK, RunOK, ListSteps
             PROVE  ListOK' /\ ServerOK' /\ RunOK'
    BY TypeParts DEF TypeOK, ListOK, ServerOK, RunOK
<1>1. UNCHANGED <<items, folders, dialog, run, blind>>
    BY DEF ListSteps, Unlock, Lock, SyncStart, SyncServed, SyncLands, SyncFails
<1>2. ServerOK' /\ RunOK'
    BY <1>1 DEF ServerOK, RunOK
<1>3. ASSUME Unlock PROVE ListOK'
    BY <1>3, AskSyncType DEF Unlock, ListOK
<1>4. ASSUME Lock PROVE ListOK'
    BY <1>4 DEF Lock, ListOK
<1>5. ASSUME SyncStart PROVE ListOK'
    BY <1>5, AskSyncType DEF SyncStart, ListOK
<1>6. ASSUME NEW s \in Syncs, SyncServed(s) PROVE ListOK'
  <2>1. [at |-> "answered", got |-> Server] \in SyncStates
      BY ServerIsListing DEF SyncStates
  <2> QED BY <1>6, <2>1, ServerIsListing DEF SyncServed, ListOK
<1>7. ASSUME NEW s \in Syncs, SyncLands(s) \/ SyncFails(s) PROVE ListOK'
  <2>1. NoSync \in SyncStates
      BY DEF NoSync, SyncStates
  <2>2. syncs[s] \in SyncStates
      BY DEF ListOK
  <2>3. syncs[s].at = "answered" => syncs[s].got \in Listings
      BY <2>2 DEF SyncStates
  <2> QED BY <1>7, <2>1, <2>3 DEF SyncLands, SyncFails, ListOK
<1> QED BY <1>2, <1>3, <1>4, <1>5, <1>6, <1>7 DEF ListSteps

LEMMA DialogStepsType == TypeOK /\ DialogSteps => TypeOK'
<1> SUFFICES ASSUME ListOK, ServerOK, RunOK, DialogSteps
             PROVE  ListOK' /\ ServerOK' /\ RunOK'
    BY TypeParts DEF TypeOK, ListOK, ServerOK, RunOK
<1>1. /\ UNCHANGED <<unlocked, items, folders, cached, list, syncs, syncing,
                     run, blind>>
      /\ dialog' \in Files \cup {<<>>, None}
    BY DEF DialogSteps, OpenDialog, CancelDialog, PickFile
<1>2. run = None
    BY DEF DialogSteps, OpenDialog, CancelDialog, PickFile, AtRest, RunOK
<1> QED BY <1>1, <1>2 DEF ListOK, ServerOK, RunOK

LEMMA StartType == TypeOK /\ Start => TypeOK'
<1> SUFFICES ASSUME TypeOK, Start PROVE TypeOK'
    OBVIOUS
<1>1. PICK selected \in SUBSET NewEntries(dialog, Shown.ids) \ {{}},
           grouped \in BOOLEAN :
        run' = [at |-> "row", left |-> selected, row |-> 0,
                grouped |-> grouped, known |-> Shown.groups, tries |-> 0,
                pace |-> FirstPace, answer |-> "ok"]
    BY DEF Start
<1>2. selected \subseteq DOMAIN dialog /\ dialog # None
    BY <1>1 DEF NewEntries, Start, AtRest
<1>3. selected \subseteq Nat
    BY <1>2, RowsOfTheDialog
<1>4. Shown.groups \in SUBSET Groups
    BY DEF Shown, TypeOK, Listings
<1>5. run' \in Runs
    BY <1>1, <1>3, <1>4, ImportAssumption DEF Runs, Answers
<1>6. blind' \subseteq Ids \cup Groups
    BY DEF Start, Server, TypeOK
<1> QED BY <1>1, <1>2, <1>5, <1>6, ImportAssumption DEF Start, TypeOK

\* What a step of the loop may do to the run.
LoopKeeps ==
    /\ run # None /\ dialog # None /\ run \in Runs /\ run' \in Runs
    /\ run'.left \subseteq run.left
    /\ run'.at \in {"folder", "item", "pause"} => run'.row \in run'.left
    /\ run'.at = "folder" => dialog[run'.row].group \in Groups \ run'.known
    /\ run'.tries <= MaxRetries
    /\ UNCHANGED <<unlocked, items, folders, cached, list, syncs, syncing,
                   dialog>>

LEMMA NextRowKeeps == TypeOK /\ NextRow => LoopKeeps /\ blind' = blind
<1> SUFFICES ASSUME TypeOK, NextRow PROVE LoopKeeps /\ blind' = blind
    OBVIOUS
<1>1. PICK n \in run.left :
        run' = IF NeedsFolder(n)
               THEN Asked([run EXCEPT !.at = "folder", !.row = n])
               ELSE ForItem([run EXCEPT !.row = n])
    BY DEF NextRow
<1>2. run \in Runs /\ run # None /\ dialog # None /\ run.tries <= MaxRetries
    BY DEF NextRow, TypeOK
<1> DEFINE p == [run EXCEPT !.at = "folder", !.row = n]
           q == [run EXCEPT !.row = n]
<1>3. n \in Nat /\ n \in DOMAIN dialog
    BY <1>2 DEF Runs, TypeOK
<1>4. /\ p \in Runs /\ p.left = run.left /\ p.row = n /\ p.tries = run.tries
      /\ p.known = run.known
      /\ q \in Runs /\ q.left = run.left /\ q.row = n /\ q.tries = run.tries
    BY <1>2, <1>3 DEF Runs
<1>5. \/ NeedsFolder(n) /\ run' = Asked(p)
      \/ run' = ForItem(q)
    BY <1>1
<1>6. NeedsFolder(n) => dialog[n].group \in Groups \ run.known
    BY <1>2, <1>3, RowsOfTheDialog DEF NeedsFolder, Rows
<1> HIDE DEF p, q
<1>7. /\ run' \in Runs /\ run'.left = run.left /\ run'.row = n
      /\ run'.tries = run.tries
    BY <1>4, <1>5, AskedIs, ForItemIs
<1>8. run'.at = "folder" => dialog[n].group \in Groups \ run'.known
    BY <1>4, <1>5, <1>6, AskedIs, ForItemIs
<1> QED BY <1>2, <1>7, <1>8 DEF NextRow, LoopKeeps

LEMMA FolderDoneKeeps ==
    TypeOK /\ FolderDone => LoopKeeps /\ blind' \subseteq Ids \cup Groups
<1> SUFFICES ASSUME TypeOK, FolderDone
             PROVE  LoopKeeps /\ blind' \subseteq Ids \cup Groups
    OBVIOUS
<1>1. /\ run \in Runs /\ run # None /\ run.tries <= MaxRetries
      /\ run.row \in run.left /\ dialog # None
      /\ RowOf(run).group \in Groups
    BY DEF FolderDone, TypeOK, RowOf
<1> DEFINE k == IF run.answer = "ok" THEN run.known \cup {RowOf(run).group}
                                     ELSE run.known
           q == [run EXCEPT !.known = k]
<1>2. /\ q \in Runs /\ q.left = run.left /\ q.row = run.row
      /\ q.tries = run.tries
    BY <1>1 DEF Runs
<1>3. run' = ForItem(q)
    BY DEF FolderDone
<1> HIDE DEF q
<1>4. /\ run' \in Runs /\ run'.left = run.left /\ run'.row = run.row
      /\ run'.tries = run.tries /\ run'.at = "item"
    BY <1>2, <1>3, ForItemIs
<1>5. blind' \subseteq Ids \cup Groups
    BY <1>1 DEF FolderDone, TypeOK
<1> QED BY <1>1, <1>4, <1>5 DEF FolderDone, LoopKeeps

LEMMA RestKeeps ==
    TypeOK /\ (BackOff \/ Retry \/ RowDone) => LoopKeeps /\ blind' = blind
<1> SUFFICES ASSUME TypeOK, BackOff \/ Retry \/ RowDone
             PROVE  LoopKeeps /\ blind' = blind
    OBVIOUS
<1>1. /\ run \in Runs /\ run # None /\ run.tries \in Nat
      /\ run.tries <= MaxRetries /\ run.pace \in Nat /\ dialog # None
    BY DEF BackOff, Retry, RowDone, ItemAnswered, TypeOK, Runs
<1>2. CASE BackOff
  <2>1. run.row \in run.left /\ run.tries < MaxRetries
      BY <1>2 DEF BackOff, ItemAnswered, Retries, TypeOK
  <2>2. run.tries + 1 <= MaxRetries /\ run.tries + 1 \in Nat
      BY <1>1, <2>1, BoundsAre
  <2>3. PICK w \in Nat : w = Wider(run.pace)
      BY <1>1, WiderIsNat
  <2>4. PICK t \in Nat : t = run.tries + 1
      BY <2>2
  <2>5. run' = [run EXCEPT !.at = "pause", !.tries = t, !.pace = w]
      BY <1>2, <2>3, <2>4 DEF BackOff, BackedOff
  <2>6. /\ run' \in Runs /\ run'.left = run.left /\ run'.row = run.row
        /\ run'.tries = t /\ run'.at = "pause"
      BY <1>1, <2>5 DEF Runs
  <2> QED BY <1>1, <1>2, <2>1, <2>2, <2>4, <2>6 DEF BackOff, LoopKeeps
<1>3. CASE Retry
  <2>1. run' = ForItem(run) /\ run.row \in run.left
      BY <1>3 DEF Retry, TypeOK
  <2>2. /\ run' \in Runs /\ run'.left = run.left /\ run'.row = run.row
        /\ run'.tries = run.tries /\ run'.at = "item"
      BY <1>1, <2>1, ForItemIs
  <2> QED BY <1>1, <1>3, <2>1, <2>2 DEF Retry, LoopKeeps
<1>4. CASE RowDone
  <2>1. \/ run' = [run EXCEPT !.at = "over"]
        \/ run' = [run EXCEPT !.at = "row", !.left = @ \ {run.row},
                              !.row = 0, !.tries = 0]
      BY <1>4 DEF RowDone
  <2>2. 0 <= MaxRetries
      BY BoundsAre
  <2>3. /\ run' \in Runs /\ run'.left \subseteq run.left
        /\ run'.at \in {"over", "row"} /\ run'.tries \in {0, run.tries}
    <3>1. CASE run' = [run EXCEPT !.at = "over"]
        BY <1>1, <3>1 DEF Runs
    <3>2. CASE run' = [run EXCEPT !.at = "row", !.left = @ \ {run.row},
                                  !.row = 0, !.tries = 0]
      <4> DEFINE less == run.left \ {run.row}
      <4>1. less \in SUBSET Nat /\ less \subseteq run.left
          BY <1>1 DEF Runs
      <4>2. run' = [run EXCEPT !.at = "row", !.left = less, !.row = 0, !.tries = 0]
          BY <3>2
      <4> HIDE DEF less
      <4> QED BY <1>1, <4>1, <4>2 DEF Runs
    <3> QED BY <2>1, <3>1, <3>2
  <2> QED BY <1>1, <1>4, <2>2, <2>3 DEF RowDone, LoopKeeps
<1> QED BY <1>2, <1>3, <1>4

LEMMA RunStepType == TypeOK /\ RunStep => TypeOK'
<1> SUFFICES ASSUME TypeOK, RunStep PROVE TypeOK'
    OBVIOUS
<1>1. CASE RunDone
  <2>1. ListOK' /\ ServerOK'
      BY <1>1, AskSyncType, TypeParts DEF RunDone, ListOK, ServerOK
  <2>2. RunOK'
      BY <1>1 DEF RunDone, RunOK
  <2> QED BY <2>1, <2>2 DEF TypeOK, ListOK, ServerOK, RunOK
<1>2. CASE ~ RunDone
  <2>1. LoopKeeps /\ blind' \subseteq Ids \cup Groups
      BY <1>2, NextRowKeeps, FolderDoneKeeps, RestKeeps DEF RunStep, TypeOK
  <2>2. run'.left \subseteq DOMAIN dialog
      BY <2>1 DEF LoopKeeps, TypeOK
  <2> QED BY <2>1, <2>2 DEF LoopKeeps, TypeOK
<1> QED BY <1>1, <1>2

\* An answer changes nothing else of the run.
LEMMA AnswerIs ==
    ASSUME NEW r \in Runs, NEW a \in Answers, NEW q, q = [r EXCEPT !.answer = a]
    PROVE  /\ q \in Runs /\ q.answer = a /\ q.at = r.at /\ q.left = r.left
           /\ q.row = r.row /\ q.known = r.known /\ q.tries = r.tries
           /\ q.pace = r.pace
BY DEF Runs

\* What a step of the server does.
ServerDoes(a) ==
    /\ run # None /\ run \in Runs /\ run.answer = "sent"
    /\ run.at \in {"folder", "item"}
    /\ run' = [run EXCEPT !.answer = a]
    /\ UNCHANGED <<unlocked, cached, list, syncs, syncing, dialog, blind>>
    /\ \/ /\ a \in {"ok", "error"} /\ run.at = "folder"
          /\ folders[RowOf(run).group] < MaxCopies
          /\ folders' = [folders EXCEPT ![RowOf(run).group] = @ + 1]
          /\ items' = items
       \/ /\ a \in {"ok", "error"} /\ run.at = "item"
          /\ items[Named[RowOf(run).id]] < MaxCopies
          /\ items' = [items EXCEPT ![Named[RowOf(run).id]] = @ + 1]
          /\ folders' = folders
       \/ a \in {"error", "slow", "refused"} /\ UNCHANGED <<items, folders>>

LEMMA ServerStepIs ==
    TypeOK /\ ServerSteps => \E a \in Answers \ {"sent"} : ServerDoes(a)
<1> SUFFICES ASSUME TypeOK, ServerSteps
             PROVE  \E a \in Answers \ {"sent"} : ServerDoes(a)
    OBVIOUS
<1>1. run # None /\ run \in Runs /\ run.answer = "sent"
      /\ run.at \in {"folder", "item"}
    BY DEF ServerSteps, ServerMakesFolder, ServerMakesItem, ServerDeclines,
           Waiting, TypeOK
<1>2. CASE ServerMakesFolder
  <2>1. PICK a \in {"ok", "error"} : run' = [run EXCEPT !.answer = a]
      BY <1>2 DEF ServerMakesFolder
  <2>2. ServerDoes(a)
      BY <1>1, <1>2, <2>1 DEF ServerMakesFolder, ServerDoes, Waiting
  <2> QED BY <2>2 DEF Answers
<1>3. CASE ServerMakesItem
  <2>1. PICK a \in {"ok", "error"} : run' = [run EXCEPT !.answer = a]
      BY <1>3 DEF ServerMakesItem
  <2>2. ServerDoes(a)
      BY <1>1, <1>3, <2>1 DEF ServerMakesItem, ServerDoes, Waiting
  <2> QED BY <2>2 DEF Answers
<1>4. CASE ServerDeclines
  <2>1. PICK a \in {"error", "slow", "refused"} : run' = [run EXCEPT !.answer = a]
      BY <1>4 DEF ServerDeclines
  <2>2. ServerDoes(a)
      BY <1>1, <1>4, <2>1 DEF ServerDeclines, ServerDoes
  <2> QED BY <2>2 DEF Answers
<1> QED BY <1>2, <1>3, <1>4 DEF ServerSteps

LEMMA OneMore ==
    ASSUME NEW S, NEW f \in [S -> 0..MaxCopies], NEW x \in S, f[x] < MaxCopies
    PROVE  [f EXCEPT ![x] = @ + 1] \in [S -> 0..MaxCopies]
<1>1. f[x] \in 0..MaxCopies
    OBVIOUS
<1>2. f[x] + 1 \in 0..MaxCopies
    BY <1>1, ImportAssumption
<1> QED BY <1>2

LEMMA ServerStepsType == TypeOK /\ ServerSteps => TypeOK'
<1> SUFFICES ASSUME TypeOK, ServerSteps PROVE TypeOK'
    OBVIOUS
<1>1. PICK a \in Answers \ {"sent"} : ServerDoes(a)
    BY ServerStepIs
<1>2. /\ run' \in Runs /\ run'.at = run.at /\ run'.left = run.left
      /\ run'.row = run.row /\ run'.known = run.known /\ run'.tries = run.tries
    BY <1>1, AnswerIs DEF ServerDoes
<1>3. run.row \in run.left /\ dialog # None /\ run.row \in DOMAIN dialog
    BY <1>1 DEF ServerDoes, TypeOK
<1>4. run.at = "folder" => RowOf(run).group \in Groups
    BY <1>1 DEF ServerDoes, TypeOK, RowOf
<1>5. Named[RowOf(run).id] \in Ids
    BY <1>3, RowsOfTheDialog, ImportAssumption DEF RowOf, Rows
<1>6. folders' \in [Groups -> 0..MaxCopies]
    BY <1>1, <1>4, OneMore DEF ServerDoes, TypeOK
<1>7. items' \in [Ids -> 0..MaxCopies]
    BY <1>1, <1>5, OneMore DEF ServerDoes, TypeOK
<1> QED BY <1>1, <1>2, <1>3, <1>6, <1>7 DEF ServerDoes, TypeOK

LEMMA CrashType == TypeOK /\ Crash => TypeOK'
<1>1. NoSync \in SyncStates
    BY DEF NoSync, SyncStates
<1> QED BY <1>1 DEF TypeOK, Crash

LEMMA NextType == TypeOK /\ [Next]_vars => TypeOK'
<1> SUFFICES ASSUME TypeOK, [Next]_vars PROVE TypeOK'
    OBVIOUS
<1>1. CASE UNCHANGED vars
    BY <1>1 DEF vars, TypeOK
<1> QED BY <1>1, NextIs, ListStepsType, DialogStepsType, StartType, RunStepType,
           ServerStepsType, CrashType

\* Every variable keeps its type, a run has the rows of its dialog, and a folder
\* is made only for a group that has none that the run knows of.
THEOREM TypeCorrect == Spec => []TypeOK
<1> QED BY InitType, NextType, PTL DEF Spec

(***************************************************************************)
(* Nothing is made twice.                                                  *)
(***************************************************************************)

\* What NothingTwice excepts.
Excused(e) == e \in blind \/ \E u \in Ids \ {e} : Named[u] = e

Fresh(e) == items[e] = 0 \/ Excused(e)

FreshFolder(g) == folders[g] = 0 \/ g \in blind

Made(at) == run.at = at /\ run.answer \in {"ok", "error"}

\* The rows a run has left are of different items, which are not on the server
\* yet but for the one that has just been made; so are the folders it does not
\* know of.
RowsAreFresh ==
    run # None =>
      /\ \A m, n \in run.left : m # n => dialog[m].id # dialog[n].id
      /\ \A n \in run.left :
           Fresh(dialog[n].id) \/ (n = run.row /\ Made("item"))
      /\ \A g \in Groups \ run.known :
           FreshFolder(g) \/ (dialog[run.row].group = g /\ Made("folder"))

Twice == NothingTwice /\ RowsAreFresh

LEMMA InitTwice == Init => Twice
BY DEF Init, Twice, NothingTwice, RowsAreFresh

\* Steps that touch neither the run nor the server.
LEMMA AsideTwice ==
    Twice /\ UNCHANGED <<items, folders, blind>>
      /\ (run' = None \/ UNCHANGED <<run, dialog>>)
    => Twice'
BY DEF Twice, NothingTwice, RowsAreFresh, Fresh, FreshFolder, Excused, Made

LEMMA StartTwice == TypeOK /\ Twice /\ Start => Twice'
<1> SUFFICES ASSUME TypeOK, Twice, Start PROVE Twice'
    OBVIOUS
<1>1. PICK selected \in SUBSET NewEntries(dialog, Shown.ids) \ {{}},
           grouped \in BOOLEAN :
        run' = [at |-> "row", left |-> selected, row |-> 0,
                grouped |-> grouped, known |-> Shown.groups, tries |-> 0,
                pace |-> FirstPace, answer |-> "ok"]
    BY DEF Start
<1>2. run'.left = selected /\ run'.known = Shown.groups
    BY <1>1
<1>3. /\ UNCHANGED <<items, folders, dialog>>
      /\ blind' = blind \cup (Server.ids \ Shown.ids)
                        \cup (Server.groups \ Shown.groups)
    BY DEF Start
<1>4. dialog # None
    BY DEF Start, AtRest
<1>5. \A n \in selected : /\ n \in DOMAIN dialog
                          /\ n \in Nat
                          /\ dialog[n].id \in Ids
                          /\ dialog[n].id \notin Shown.ids
                          /\ \A m \in 1..(n - 1) : dialog[m].id # dialog[n].id
    BY <1>4, RowsOfTheDialog DEF NewEntries, Rows
<1>6. ASSUME NEW m \in selected, NEW n \in selected, m # n
      PROVE  dialog[m].id # dialog[n].id
  <2>1. dialog \in Seq(Rows)
      BY <1>4, DialogHasRows
  <2>2. m \in 1..Len(dialog) /\ n \in 1..Len(dialog) /\ Len(dialog) \in Nat
      BY <1>5, <2>1
  <2>3. m \in 1..(n - 1) \/ n \in 1..(m - 1)
      BY <1>6, <2>2
  <2> QED BY <1>5, <2>3
<1>7. ASSUME NEW n \in selected PROVE Fresh(dialog[n].id)'
  <2>1. items[dialog[n].id] = 0 \/ dialog[n].id \in Server.ids
      BY <1>5 DEF Server, TypeOK
  <2> QED BY <1>3, <1>5, <2>1 DEF Fresh, Excused
<1>8. ASSUME NEW g \in Groups \ Shown.groups PROVE FreshFolder(g)'
  <2>1. folders[g] = 0 \/ g \in Server.groups
      BY DEF Server, TypeOK
  <2> QED BY <1>3, <2>1 DEF FreshFolder
<1>9. NothingTwice'
    BY <1>3 DEF Twice, NothingTwice
<1> QED BY <1>2, <1>3, <1>6, <1>7, <1>8, <1>9 DEF Twice, RowsAreFresh

LEMMA NextRowTwice == TypeOK /\ Twice /\ NextRow => Twice'
<1> SUFFICES ASSUME TypeOK, Twice, NextRow PROVE Twice'
    OBVIOUS
<1>1. PICK n \in run.left :
        run' = IF NeedsFolder(n)
               THEN Asked([run EXCEPT !.at = "folder", !.row = n])
               ELSE ForItem([run EXCEPT !.row = n])
    BY DEF NextRow
<1>2. /\ run \in Runs /\ run # None /\ run.at = "row"
      /\ UNCHANGED <<items, folders, dialog, blind>>
    BY DEF NextRow, TypeOK
<1> DEFINE p == [run EXCEPT !.at = "folder", !.row = n]
           q == [run EXCEPT !.row = n]
<1>3. n \in Nat
    BY <1>2 DEF Runs
<1>4. /\ p \in Runs /\ p.left = run.left /\ p.known = run.known
      /\ q \in Runs /\ q.left = run.left /\ q.known = run.known
    BY <1>2, <1>3 DEF Runs
<1>5. run' = Asked(p) \/ run' = ForItem(q)
    BY <1>1
<1> HIDE DEF p, q
<1>6. run'.left = run.left /\ run'.known = run.known
    BY <1>4, <1>5, AskedIs, ForItemIs
<1>7. /\ \A m \in run.left : Fresh(dialog[m].id)
      /\ \A g \in Groups \ run.known : FreshFolder(g)
    BY <1>2 DEF Twice, RowsAreFresh, Made
<1>8. NothingTwice'
    BY <1>2 DEF Twice, NothingTwice
<1> QED BY <1>2, <1>6, <1>7, <1>8
        DEF Twice, RowsAreFresh, Fresh, FreshFolder, Excused

LEMMA FolderDoneTwice == TypeOK /\ Twice /\ FolderDone => Twice'
<1> SUFFICES ASSUME TypeOK, Twice, FolderDone PROVE Twice'
    OBVIOUS
<1>1. /\ run \in Runs /\ run # None /\ run.at = "folder"
      /\ UNCHANGED <<items, folders, dialog>>
      /\ RowOf(run).group = dialog[run.row].group
    BY DEF FolderDone, TypeOK, RowOf
<1> DEFINE k == IF run.answer = "ok" THEN run.known \cup {RowOf(run).group}
                                     ELSE run.known
           q == [run EXCEPT !.known = k]
<1>2. /\ q \in Runs /\ q.left = run.left /\ q.known = k
  <2>1. RowOf(run).group \in Groups
      BY <1>1 DEF TypeOK
  <2> QED BY <1>1, <2>1 DEF Runs
<1>3. run' = ForItem(q)
    BY DEF FolderDone
<1> HIDE DEF q
<1>4. run'.left = run.left /\ run'.known = k
    BY <1>2, <1>3, ForItemIs
<1>5. blind \subseteq blind'
    BY DEF FolderDone
<1>6. ASSUME NEW g \in Groups \ k PROVE FreshFolder(g)'
  <2>1. CASE FreshFolder(g)
      BY <1>1, <1>5, <2>1 DEF FreshFolder
  <2>2. CASE dialog[run.row].group = g /\ run.answer = "error"
    <3>1. folders[g] = 0 \/ g \in Server.groups
        BY DEF Server, TypeOK
    <3> QED BY <1>1, <2>2, <3>1 DEF FolderDone, FreshFolder
  <2>3. g \in Groups \ run.known
      BY DEF k
  <2>4. FreshFolder(g) \/ (dialog[run.row].group = g /\ Made("folder"))
      BY <1>1, <2>3 DEF Twice, RowsAreFresh
  <2>5. dialog[run.row].group = g => run.answer # "ok"
      BY <1>1
  <2> QED BY <2>1, <2>2, <2>4, <2>5 DEF Made
<1>7. \A n \in run.left : Fresh(dialog[n].id)'
    BY <1>1, <1>5 DEF Twice, RowsAreFresh, Made, Fresh, Excused
<1>8. NothingTwice'
    BY <1>1, <1>5 DEF Twice, NothingTwice
<1>9. \A m, n \in run.left : m # n => dialog[m].id # dialog[n].id
    BY <1>1 DEF Twice, RowsAreFresh
<1> HIDE DEF k
<1> QED BY <1>1, <1>4, <1>6, <1>7, <1>8, <1>9 DEF Twice, RowsAreFresh

LEMMA RestTwice ==
    TypeOK /\ Twice /\ (BackOff \/ Retry \/ RowDone) => Twice'
<1> SUFFICES ASSUME TypeOK, Twice, BackOff \/ Retry \/ RowDone PROVE Twice'
    OBVIOUS
<1>1. /\ run \in Runs /\ run # None /\ run.at \in {"item", "pause"}
      /\ UNCHANGED <<items, folders, dialog, blind>>
    BY DEF BackOff, Retry, RowDone, ItemAnswered, TypeOK
<1>2. run'.known = run.known /\ run'.left \subseteq run.left
  <2>1. CASE Retry
      BY <1>1, <2>1, ForItemIs DEF Retry
  <2>2. CASE BackOff
    <3>1. run' = BackedOff(run)
        BY <2>2 DEF BackOff
    <3> QED BY <1>1, <3>1 DEF BackedOff, Runs
  <2>3. CASE RowDone
    <3>1. \/ run' = [run EXCEPT !.at = "over"]
          \/ run' = [run EXCEPT !.at = "row", !.left = @ \ {run.row},
                                !.row = 0, !.tries = 0]
        BY <2>3 DEF RowDone
    <3>2. CASE run' = [run EXCEPT !.at = "over"]
        BY <1>1, <3>2 DEF Runs
    <3>3. CASE run' = [run EXCEPT !.at = "row", !.left = @ \ {run.row},
                                  !.row = 0, !.tries = 0]
        BY <1>1, <3>3 DEF Runs
    <3> QED BY <3>1, <3>2, <3>3
  <2> QED BY <2>1, <2>2, <2>3
<1>3. ASSUME NEW n \in run'.left PROVE Fresh(dialog[n].id)
  <2>1. Fresh(dialog[n].id) \/ (n = run.row /\ Made("item"))
      BY <1>1, <1>2 DEF Twice, RowsAreFresh
  <2>2. Made("item") => RowDone /\ ~ Stops(run)
      BY DEF Made, BackOff, Retry, Retries, Stops
  <2>3. RowDone /\ ~ Stops(run) => run'.left = run.left \ {run.row}
      BY <1>1 DEF RowDone, Runs
  <2> QED BY <2>1, <2>2, <2>3
<1>4. \A g \in Groups \ run.known : FreshFolder(g)
    BY <1>1 DEF Twice, RowsAreFresh, Made
<1>5. NothingTwice'
    BY <1>1 DEF Twice, NothingTwice
<1>6. \A m, n \in run'.left : m # n => dialog[m].id # dialog[n].id
    BY <1>1, <1>2 DEF Twice, RowsAreFresh
<1> QED BY <1>1, <1>2, <1>3, <1>4, <1>5, <1>6
        DEF Twice, RowsAreFresh, Fresh, FreshFolder, Excused

LEMMA ServerStepsTwice == TypeOK /\ Twice /\ ServerSteps => Twice'
<1> SUFFICES ASSUME TypeOK, Twice, ServerSteps PROVE Twice'
    OBVIOUS
<1>1. PICK a \in Answers \ {"sent"} : ServerDoes(a)
    BY ServerStepIs
<1>2. /\ run'.at = run.at /\ run'.left = run.left /\ run'.row = run.row
      /\ run'.known = run.known /\ run'.answer = a
    BY <1>1, AnswerIs DEF ServerDoes
<1>3. /\ run # None /\ run.answer = "sent" /\ run.at \in {"folder", "item"}
      /\ UNCHANGED <<dialog, blind>> /\ run.row \in run.left /\ dialog # None
      /\ run.row \in DOMAIN dialog
    BY <1>1 DEF ServerDoes, TypeOK
<1>4. /\ \A m, n \in run.left : m # n => dialog[m].id # dialog[n].id
      /\ \A n \in run.left : Fresh(dialog[n].id)
      /\ \A g \in Groups \ run.known : FreshFolder(g)
    BY <1>3 DEF Twice, RowsAreFresh, Made
<1>5. \A n \in run.left : n \in DOMAIN dialog /\ dialog[n].id \in Ids
    BY <1>3, RowsOfTheDialog DEF TypeOK, Rows
<1>6. CASE UNCHANGED <<items, folders>>
    BY <1>2, <1>3, <1>4, <1>6
       DEF Twice, NothingTwice, RowsAreFresh, Fresh, FreshFolder, Excused
<1>7. CASE /\ a \in {"ok", "error"} /\ run.at = "folder"
           /\ folders[RowOf(run).group] < MaxCopies
           /\ folders' = [folders EXCEPT ![RowOf(run).group] = @ + 1]
           /\ items' = items
  <2> DEFINE h == dialog[run.row].group
  <2>1. h \in Groups \ run.known /\ RowOf(run).group = h
      BY <1>3, <1>7 DEF TypeOK, RowOf
  <2>2. folders[h] = 0 \/ h \in blind
      BY <1>4, <2>1 DEF FreshFolder
  <2>3. \A g \in Groups : folders'[g] = IF g = h THEN folders[h] + 1 ELSE folders[g]
      BY <1>7, <2>1 DEF TypeOK
  <2>4. \A g \in Groups : folders'[g] > 1 => g \in blind
      BY <2>2, <2>3 DEF Twice, NothingTwice
  <2>5. \A g \in Groups \ run.known : g # h => FreshFolder(g)'
      BY <1>3, <1>4, <2>3 DEF FreshFolder
  <2>6. NothingTwice'
      BY <1>3, <1>7, <2>4 DEF Twice, NothingTwice
  <2>7. \A n \in run.left : Fresh(dialog[n].id)'
      BY <1>3, <1>4, <1>7 DEF Fresh, Excused
  <2>8. Made("folder")'
      BY <1>2, <1>7 DEF Made
  <2> QED BY <1>2, <1>3, <1>4, <2>5, <2>6, <2>7, <2>8 DEF Twice, RowsAreFresh
<1>8. CASE /\ a \in {"ok", "error"} /\ run.at = "item"
           /\ items[Named[RowOf(run).id]] < MaxCopies
           /\ items' = [items EXCEPT ![Named[RowOf(run).id]] = @ + 1]
           /\ folders' = folders
  <2>1. PICK e \in Ids : e = dialog[run.row].id
      BY <1>3, <1>5
  <2>2. PICK x \in Ids : x = Named[e]
      BY ImportAssumption
  <2>3. \A i \in Ids : items'[i] = IF i = x THEN items[x] + 1 ELSE items[i]
      BY <1>8, <2>1, <2>2 DEF TypeOK, RowOf
  <2>4. items[x] = 0 \/ Excused(x)
    <3>1. CASE x = e
        BY <1>3, <1>4, <2>1, <3>1 DEF Fresh
    <3>2. CASE x # e
        BY <2>2, <3>2 DEF Excused
    <3> QED BY <3>1, <3>2
  <2>5. NothingTwice'
    <3>1. \A i \in Ids : items'[i] > 1 => Excused(i)
        BY <2>3, <2>4 DEF Twice, NothingTwice, Excused
    <3> QED BY <1>3, <1>8, <3>1 DEF Twice, NothingTwice, Excused
  <2>6. ASSUME NEW n \in run.left, n # run.row PROVE Fresh(dialog[n].id)'
    <3>1. dialog[n].id # e /\ dialog[n].id \in Ids
        BY <1>3, <1>4, <1>5, <2>1, <2>6
    <3>2. dialog[n].id = x => Excused(x)
        BY <2>2, <3>1 DEF Excused
    <3>3. Fresh(dialog[n].id)
        BY <1>4
    <3> QED BY <1>3, <2>3, <3>1, <3>2, <3>3 DEF Fresh, Excused
  <2>7. \A g \in Groups \ run.known : FreshFolder(g)'
      BY <1>3, <1>4, <1>8 DEF FreshFolder
  <2>8. Made("item")'
      BY <1>2, <1>8 DEF Made
  <2> QED BY <1>2, <1>3, <1>4, <2>5, <2>6, <2>7, <2>8 DEF Twice, RowsAreFresh
<1> QED BY <1>1, <1>6, <1>7, <1>8 DEF ServerDoes

LEMMA NextTwice == TypeOK /\ Twice /\ [Next]_vars => Twice'
<1> SUFFICES ASSUME TypeOK, Twice, [Next]_vars PROVE Twice'
    OBVIOUS
<1>1. CASE UNCHANGED vars
    BY <1>1, AsideTwice DEF vars
<1>2. CASE ListSteps
    BY <1>2, AsideTwice
       DEF ListSteps, Unlock, Lock, SyncStart, SyncServed, SyncLands, SyncFails
<1>3. CASE DialogSteps
    BY <1>3, AsideTwice
       DEF DialogSteps, OpenDialog, CancelDialog, PickFile, AtRest, TypeOK
<1>4. CASE RunDone \/ Crash
    BY <1>4, AsideTwice DEF RunDone, Crash
<1> QED BY <1>1, <1>2, <1>3, <1>4, NextIs, StartTwice, NextRowTwice,
           FolderDoneTwice, RestTwice, ServerStepsTwice DEF RunStep

\* No import, and no sequence of imports, locks, syncs and restarts, makes a
\* second item or folder but where the dialog could not know of the first.
THEOREM NothingIsMadeTwice == Spec => []NothingTwice
<1>1. Init => TypeOK /\ Twice
    BY InitType, InitTwice
<1>2. TypeOK /\ Twice /\ [Next]_vars => TypeOK' /\ Twice'
    BY NextType, NextTwice
<1>3. Twice => NothingTwice
    BY DEF Twice
<1> QED BY <1>1, <1>2, <1>3, PTL DEF Spec

(***************************************************************************)
(* The import implements PacedWriter.                                      *)
(***************************************************************************)

\* The tries counted are those of the item of the current row, and only a slow
\* answer or a refusal stops a run.
TriesAreTheItems ==
    run # None =>
      /\ run.at \in {"row", "folder"} => run.tries = 0
      /\ run.at = "over" => run.answer \in {"slow", "refused"}

PaceOf == IF run = None THEN FirstPace ELSE run.pace

\* A step of the writer.
WriterStep == Paced!PacedNext \/ UNCHANGED <<Stand, SlowInARow, PaceOf>>

LEMMA WriterStepIs == WriterStep => [Paced!PacedNext]_(Paced!pacedVars)
BY DEF WriterStep, PaceOf, Paced!pacedVars

LEMMA InitWriter == Init => TriesAreTheItems /\ Paced!PacedInit
BY DEF Init, TriesAreTheItems, Paced!PacedInit, Stand, SlowInARow

LEMMA AsideWriter ==
    ASSUME TriesAreTheItems, run' = run
    PROVE  TriesAreTheItems' /\ WriterStep
BY DEF TriesAreTheItems, WriterStep, Stand, SlowInARow, PaceOf

LEMMA StartWriter ==
    ASSUME TypeOK, TypeOK', Start PROVE TriesAreTheItems' /\ WriterStep
<1>1. /\ run' # None /\ run'.at = "row" /\ run'.tries = 0
      /\ run'.pace = FirstPace
  <2>1. PICK selected \in SUBSET NewEntries(dialog, Shown.ids) \ {{}},
             grouped \in BOOLEAN :
          run' = [at |-> "row", left |-> selected, row |-> 0,
                  grouped |-> grouped, known |-> Shown.groups, tries |-> 0,
                  pace |-> FirstPace, answer |-> "ok"]
      BY DEF Start
  <2>2. run' \in Runs
    <3>1. dialog # None
        BY DEF Start, AtRest
    <3>2. selected \subseteq Nat
        BY <2>1, <3>1, RowsOfTheDialog DEF NewEntries
    <3>3. Shown.groups \in SUBSET Groups
        BY DEF Shown, TypeOK, Listings
    <3> QED BY <2>1, <3>2, <3>3, BoundsAre DEF Runs, Answers
  <2> QED BY <2>1, <2>2, NoneAssumption
<1>2. run = None
    BY DEF Start, AtRest
<1>3. Paced!Begin
    BY <1>1, <1>2 DEF Paced!Begin, Stand, SlowInARow
<1> QED BY <1>1, <1>3 DEF TriesAreTheItems, WriterStep, Paced!PacedNext

\* An item is asked for: of a new row, or again.
LEMMA AskingIs ==
    ASSUME NEW r \in Runs, run' = ForItem(r), run \in Runs,
           run.at \in {"row", "folder", "pause"},
           r.tries = run.tries, r.pace = run.pace,
           run.at # "pause" => run.tries = 0
    PROVE  TriesAreTheItems' /\ WriterStep
<1>1. /\ run # None /\ run' # None /\ run'.at = "item"
      /\ run'.answer \in {"sent", "error"}
      /\ run'.tries = run.tries /\ run'.pace = run.pace
    BY ForItemIs, NoneAssumption
<1>2. CASE run'.answer = "sent"
  <2>1. Paced!Send
      BY <1>1, <1>2 DEF Paced!Send, Stand, SlowInARow
  <2> QED BY <1>1, <2>1 DEF WriterStep, Paced!PacedNext, TriesAreTheItems
<1>3. CASE run'.answer = "error" /\ run.at = "pause"
  <2>1. Paced!Settle
      BY <1>1, <1>3 DEF Paced!Settle, Stand, SlowInARow
  <2> QED BY <1>1, <2>1 DEF WriterStep, Paced!PacedNext, TriesAreTheItems
<1>4. CASE run'.answer = "error" /\ run.at # "pause"
  <2>1. UNCHANGED <<Stand, SlowInARow, PaceOf>>
      BY <1>1, <1>4 DEF Stand, SlowInARow, PaceOf
  <2> QED BY <1>1, <2>1 DEF WriterStep, TriesAreTheItems
<1> QED BY <1>1, <1>2, <1>3, <1>4

LEMMA NextRowWriter ==
    ASSUME TypeOK, TriesAreTheItems, NextRow
    PROVE  TriesAreTheItems' /\ WriterStep
<1>1. PICK n \in run.left :
        run' = IF NeedsFolder(n)
               THEN Asked([run EXCEPT !.at = "folder", !.row = n])
               ELSE ForItem([run EXCEPT !.row = n])
    BY DEF NextRow
<1>2. run \in Runs /\ run # None /\ run.at = "row" /\ run.tries = 0
    BY DEF NextRow, TypeOK, TriesAreTheItems
<1> DEFINE p == [run EXCEPT !.at = "folder", !.row = n]
           q == [run EXCEPT !.row = n]
<1>3. n \in Nat
    BY <1>2 DEF Runs
<1>4. /\ p \in Runs /\ p.at = "folder" /\ p.tries = 0 /\ p.pace = run.pace
      /\ q \in Runs /\ q.tries = 0 /\ q.pace = run.pace
    BY <1>2, <1>3 DEF Runs
<1>5. run' = Asked(p) \/ run' = ForItem(q)
    BY <1>1
<1> HIDE DEF p, q
<1>6. CASE run' = Asked(p)
  <2>1. /\ run' # None /\ run'.at = "folder" /\ run'.tries = 0
        /\ run'.pace = run.pace
      BY <1>4, <1>6, AskedIs, NoneAssumption
  <2> QED BY <1>2, <2>1
          DEF TriesAreTheItems, WriterStep, Stand, SlowInARow, PaceOf
<1>7. CASE run' = ForItem(q)
    BY <1>2, <1>4, <1>7, AskingIs
<1> QED BY <1>5, <1>6, <1>7

LEMMA FolderDoneWriter ==
    ASSUME TypeOK, TriesAreTheItems, FolderDone
    PROVE  TriesAreTheItems' /\ WriterStep
<1>1. /\ run \in Runs /\ run # None /\ run.at = "folder" /\ run.tries = 0
      /\ RowOf(run).group \in Groups
    BY DEF FolderDone, TypeOK, TriesAreTheItems, RowOf
<1> DEFINE k == IF run.answer = "ok" THEN run.known \cup {RowOf(run).group}
                                     ELSE run.known
           q == [run EXCEPT !.known = k]
<1>2. q \in Runs /\ q.tries = run.tries /\ q.pace = run.pace
    BY <1>1 DEF Runs
<1>3. run' = ForItem(q)
    BY DEF FolderDone
<1> HIDE DEF q
<1> QED BY <1>1, <1>2, <1>3, AskingIs

LEMMA BackOffWriter ==
    ASSUME TypeOK, BackOff PROVE TriesAreTheItems' /\ WriterStep
<1>1. /\ run \in Runs /\ run # None /\ run.at = "item" /\ run.answer = "slow"
      /\ run.tries \in Nat /\ run.tries < MaxRetries /\ run.pace \in Nat
    BY DEF BackOff, ItemAnswered, Retries, TypeOK, Runs
<1>2. PICK w \in Nat : w = Wider(run.pace)
    BY <1>1, WiderIsNat
<1>3. PICK t \in Nat : t = run.tries + 1
    BY <1>1
<1>4. run' = [run EXCEPT !.at = "pause", !.tries = t, !.pace = w]
    BY <1>2, <1>3 DEF BackOff, BackedOff
<1>5. /\ run' \in Runs /\ run'.at = "pause" /\ run'.tries = t
      /\ run'.pace = w
    BY <1>1, <1>4 DEF Runs
<1>6. run' # None
    BY <1>5, NoneAssumption
<1>7. Stand = "slow" /\ Stand' = "heeded"
    BY <1>1, <1>5, <1>6 DEF Stand
<1>8. SlowInARow = t /\ SlowInARow' = t /\ t <= MaxRetries
  <2>1. SlowInARow = t /\ SlowInARow' = t
      BY <1>3, <1>5, <1>7 DEF SlowInARow
  <2>2. t <= MaxRetries
      BY <1>1, <1>3, BoundsAre
  <2> QED BY <2>1, <2>2
<1>9. Paced!Heed
    BY <1>1, <1>2, <1>5, <1>6, <1>7, <1>8 DEF Paced!Heed, Paced!Wider, Wider
<1> QED BY <1>5, <1>6, <1>9 DEF TriesAreTheItems, WriterStep, Paced!PacedNext

LEMMA RowDoneWriter ==
    ASSUME TypeOK, RowDone PROVE TriesAreTheItems' /\ WriterStep
<1>1. /\ run \in Runs /\ run # None /\ run.at = "item"
      /\ run.answer \in Answers \ {"sent"} /\ ~ Retries(run)
      /\ run.tries <= MaxRetries /\ run.tries \in Nat
    BY DEF RowDone, ItemAnswered, TypeOK, Runs
<1>2. run.answer = "slow" => run.tries = MaxRetries
    BY <1>1, BoundsAre DEF Retries
<1>3. CASE Stops(run)
  <2>1. run' = [run EXCEPT !.at = "over"]
      BY <1>3 DEF RowDone
  <2>2. /\ run' \in Runs /\ run'.at = "over" /\ run'.answer = run.answer
        /\ run'.tries = run.tries /\ run'.pace = run.pace
      BY <1>1, <2>1 DEF Runs
  <2>3. run' # None /\ run.answer \in {"slow", "refused"}
      BY <1>3, <2>2, NoneAssumption DEF Stops
  <2> QED BY <1>1, <2>2, <2>3
          DEF TriesAreTheItems, WriterStep, Stand, SlowInARow, PaceOf
<1>4. CASE ~ Stops(run)
  <2> DEFINE less == run.left \ {run.row}
  <2>1. less \in SUBSET Nat
      BY <1>1 DEF Runs
  <2>2. run' = [run EXCEPT !.at = "row", !.left = less, !.row = 0, !.tries = 0]
      BY <1>4 DEF RowDone
  <2> HIDE DEF less
  <2>3. /\ run' \in Runs /\ run'.at = "row" /\ run'.tries = 0
        /\ run'.pace = run.pace
      BY <1>1, <2>1, <2>2 DEF Runs
  <2>4. run' # None /\ run.answer \in {"ok", "error"}
      BY <1>1, <1>2, <1>4, <2>3, NoneAssumption DEF Stops, Answers
  <2> QED BY <1>1, <2>3, <2>4
          DEF TriesAreTheItems, WriterStep, Stand, SlowInARow, PaceOf
<1> QED BY <1>3, <1>4

LEMMA EndWriter ==
    ASSUME run' = None PROVE TriesAreTheItems' /\ WriterStep
<1>1. CASE run = None
    BY <1>1 DEF TriesAreTheItems, WriterStep, Stand, SlowInARow, PaceOf
<1>2. CASE run # None
  <2>1. Paced!End
      BY <1>2 DEF Paced!End, Stand, SlowInARow
  <2> QED BY <2>1 DEF WriterStep, Paced!PacedNext, TriesAreTheItems
<1> QED BY <1>1, <1>2

LEMMA ServerWriter ==
    ASSUME TypeOK, TriesAreTheItems, ServerSteps
    PROVE  TriesAreTheItems' /\ WriterStep
<1>1. PICK a \in Answers \ {"sent"} : ServerDoes(a)
    BY ServerStepIs
<1>2. /\ run # None /\ run \in Runs /\ run.answer = "sent"
      /\ run.at \in {"folder", "item"}
    BY <1>1 DEF ServerDoes
<1>3. /\ run' \in Runs /\ run'.at = run.at /\ run'.answer = a
      /\ run'.tries = run.tries /\ run'.pace = run.pace
    BY <1>1, AnswerIs DEF ServerDoes
<1>4. run' # None
    BY <1>3, NoneAssumption
<1>5. TriesAreTheItems'
    BY <1>2, <1>3 DEF TriesAreTheItems
<1>6. CASE run.at = "folder"
    BY <1>2, <1>3, <1>4, <1>5, <1>6 DEF WriterStep, Stand, SlowInARow, PaceOf
<1>7. CASE run.at = "item"
  <2>1. Stand = "asked" /\ SlowInARow = run.tries
      BY <1>2, <1>7 DEF Stand, SlowInARow
  <2>2. CASE a \in {"ok", "error"}
    <3>1. Paced!Settle
        BY <1>2, <1>3, <1>4, <1>7, <2>1, <2>2
           DEF Paced!Settle, Stand, SlowInARow
    <3> QED BY <1>5, <3>1 DEF WriterStep, Paced!PacedNext
  <2>3. CASE a = "slow"
    <3>1. Paced!ToldToSlowDown
        BY <1>2, <1>3, <1>4, <1>7, <2>1, <2>3
           DEF Paced!ToldToSlowDown, Stand, SlowInARow
    <3> QED BY <1>5, <3>1 DEF WriterStep, Paced!PacedNext
  <2>4. CASE a = "refused"
    <3>1. Paced!Refused
        BY <1>2, <1>3, <1>4, <1>7, <2>1, <2>4
           DEF Paced!Refused, Stand, SlowInARow
    <3> QED BY <1>5, <3>1 DEF WriterStep, Paced!PacedNext
  <2> QED BY <1>1, <2>2, <2>3, <2>4 DEF Answers
<1> QED BY <1>2, <1>6, <1>7

LEMMA NextWriter ==
    ASSUME TypeOK, TypeOK', TriesAreTheItems, [Next]_vars
    PROVE  TriesAreTheItems' /\ WriterStep
<1>1. CASE UNCHANGED vars
    BY <1>1, AsideWriter DEF vars
<1>2. CASE ListSteps
    BY <1>2, AsideWriter
       DEF ListSteps, Unlock, Lock, SyncStart, SyncServed, SyncLands, SyncFails
<1>3. CASE DialogSteps
    BY <1>3, AsideWriter DEF DialogSteps, OpenDialog, CancelDialog, PickFile
<1>4. CASE RunDone \/ Crash
    BY <1>4, EndWriter DEF RunDone, Crash
<1>5. CASE Retry
  <2>1. /\ run \in Runs /\ run.at = "pause" /\ run' = ForItem(run)
      BY <1>5 DEF Retry, TypeOK
  <2> QED BY <2>1, AskingIs
<1> QED BY <1>1, <1>2, <1>3, <1>4, <1>5, NextIs, StartWriter, NextRowWriter,
           FolderDoneWriter, BackOffWriter, RowDoneWriter, ServerWriter
        DEF RunStep

\* Whatever the files and the bounds, every step of an import is a step of the
\* writer that heeds the server, or one the server does not see.
THEOREM WritesArePaced == Spec => ImplementsPacedWriter
<1>1. Init => TypeOK /\ TriesAreTheItems /\ Paced!PacedInit
    BY InitType, InitWriter
<1>2. TypeOK /\ TriesAreTheItems /\ [Next]_vars =>
        TypeOK' /\ TriesAreTheItems' /\ [Paced!PacedNext]_(Paced!pacedVars)
    BY NextType, NextWriter, WriterStepIs
<1> QED BY <1>1, <1>2, PTL DEF Spec, ImplementsPacedWriter, Paced!PacedSpec
=============================================================================
