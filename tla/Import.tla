------------------------------- MODULE Import -------------------------------
(***************************************************************************)
(* Bulk import (src/lib/ImportDialog.svelte): a file is read into rows,    *)
(* rows the vault already shows are dropped, and the rest are created one  *)
(* request at a time, while syncs, locks and restarts change the list the  *)
(* dialog compares with.                                                   *)
(*                                                                         *)
(* One account.  A row or an item is its identity, name and username as    *)
(* importIdentity normalises them.  A row without a title is created under *)
(* a placeholder name, so under another identity: Named.                   *)
(***************************************************************************)
EXTENDS Naturals, Sequences

CONSTANTS
    Ids,         \* identities of rows and items
    Groups,      \* names of folders
    Files,       \* what the parsers make of the files there are
    Named,       \* the identity of the item made of a row
    Syncs,       \* bound: the syncs in flight at once
    MaxRetries, FirstPace, MaxPace,
    MaxCopies,   \* bound: items of one identity, folders of one name
    None

Rows == [id : Ids, group : Groups \cup {None}]

ASSUME ImportAssumption ==
    /\ Files \subseteq Seq(Rows)
    /\ Named \in [Ids -> Ids]
    /\ MaxRetries \in Nat
    /\ FirstPace \in Nat
    /\ MaxPace \in Nat
    /\ FirstPace <= MaxPace
    /\ MaxCopies \in Nat

VARIABLES
    unlocked,  \* the back end has a session
    items,     \* items of each identity on the server
    folders,   \* folders of each name on the server
    cached,    \* the listing in the back end's cache, or None
    list,      \* VaultController.summary, or None
    syncs,     \* the syncs asked for
    syncing,   \* VaultController.syncing
    dialog,    \* the rows in the open dialog, or None
    run,       \* the import in progress, or None
    blind      \* history: what a run could not know was there

vars == <<unlocked, items, folders, cached, list, syncs, syncing, dialog,
          run, blind>>

Listings == [ids : SUBSET Ids, groups : SUBSET Groups]

Answers == {"sent", "ok", "error", "slow", "refused"}

Runs == [at : {"row", "folder", "item", "pause", "over"},
         left : SUBSET Nat, row : Nat,
         grouped : BOOLEAN, known : SUBSET Groups,
         tries : Nat, pace : Nat, answer : Answers]

ASSUME NoneAssumption == None \notin Runs

\* A sync: not asked for, on its way, or answered and not yet shown.
SyncStates == [at : {"none", "asked"}, got : {None}]
                \cup [at : {"answered"}, got : Listings]

NoSync == [at |-> "none", got |-> None]

TypeOK ==
    /\ unlocked \in BOOLEAN
    /\ items \in [Ids -> 0..MaxCopies]
    /\ folders \in [Groups -> 0..MaxCopies]
    /\ cached \in Listings \cup {None}
    /\ list \in Listings \cup {None}
    /\ syncs \in [Syncs -> SyncStates]
    /\ syncing \in BOOLEAN
    /\ dialog \in Files \cup {<<>>, None}
    /\ run \in Runs \cup {None}
    /\ run # None => /\ dialog # None
                     /\ run.left \subseteq DOMAIN dialog
                     /\ run.at \in {"folder", "item", "pause"} =>
                          run.row \in run.left
                     /\ run.at = "folder" =>
                          dialog[run.row].group \in Groups \ run.known
                     /\ run.tries <= MaxRetries
    /\ blind \subseteq Ids \cup Groups

Init ==
    /\ unlocked = FALSE
    /\ items = [e \in Ids |-> 0]
    /\ folders = [g \in Groups |-> 0]
    /\ cached = None
    /\ list = None
    /\ syncs = [s \in Syncs |-> NoSync]
    /\ syncing = FALSE
    /\ dialog = None
    /\ run = None
    /\ blind = {}

Server == [ids |-> {e \in Ids : items[e] > 0},
           groups |-> {g \in Groups : folders[g] > 0}]

\* The list the dialog is given: vault.summary?.ciphers ?? [].
Shown == IF list = None THEN [ids |-> {}, groups |-> {}] ELSE list

-----------------------------------------------------------------------------
(* The list: sign-ins, locks and syncs                                     *)

\* VaultController.sync: one more request.  Past the bound it fails at once.
AskSync ==
    \/ \E s \in Syncs :
         /\ syncs[s].at = "none"
         /\ syncs' = [syncs EXCEPT ![s].at = "asked"]
         /\ syncing' = TRUE
    \/ /\ \A s \in Syncs : syncs[s].at # "none"
       /\ syncing' = FALSE
       /\ UNCHANGED syncs

\* The cached vault is shown at once, if there is one, and a sync asked for.
Unlock ==
    /\ ~unlocked
    /\ unlocked' = TRUE
    /\ list' = IF cached = None THEN list ELSE cached
    /\ AskSync
    /\ UNCHANGED <<items, folders, cached, dialog, run, blind>>

\* The lock command and vault.reset().  The dialog and its loop go on.
Lock ==
    /\ unlocked
    /\ unlocked' = FALSE
    /\ list' = None
    /\ UNCHANGED <<items, folders, cached, syncs, syncing, dialog,
                   run, blind>>

\* The button, and the timer, which skips its turn while a sync is on.
SyncStart ==
    /\ unlocked
    /\ ~syncing
    /\ AskSync
    /\ UNCHANGED <<unlocked, items, folders, cached, list, dialog,
                   run, blind>>

\* The back end has the answer, keeps a copy of it, and hands it over.
SyncServed(s) ==
    /\ syncs[s].at = "asked"
    /\ unlocked
    /\ syncs' = [syncs EXCEPT ![s] = [at |-> "answered", got |-> Server]]
    /\ cached' = Server
    /\ UNCHANGED <<unlocked, items, folders, list, syncing, dialog,
                   run, blind>>

\* The answer reaches the window, which may have been locked meanwhile.
SyncLands(s) ==
    /\ syncs[s].at = "answered"
    /\ list' = syncs[s].got
    /\ syncs' = [syncs EXCEPT ![s] = NoSync]
    /\ syncing' = FALSE
    /\ UNCHANGED <<unlocked, items, folders, cached, dialog, run, blind>>

SyncFails(s) ==
    /\ syncs[s].at = "asked"
    /\ syncs' = [syncs EXCEPT ![s] = NoSync]
    /\ syncing' = FALSE
    /\ UNCHANGED <<unlocked, items, folders, cached, list, dialog,
                   run, blind>>

-----------------------------------------------------------------------------
(* The dialog                                                              *)

OpenDialog ==
    /\ unlocked
    /\ dialog = None
    /\ dialog' = <<>>
    /\ UNCHANGED <<unlocked, items, folders, cached, list, syncs, syncing,
                   run, blind>>

\* Every control but the list itself is disabled while a run is on.
AtRest == dialog # None /\ run = None

CancelDialog ==
    /\ AtRest
    /\ dialog' = None
    /\ UNCHANGED <<unlocked, items, folders, cached, list, syncs, syncing,
                   run, blind>>

\* A CSV file is read in the window, a database or an export is decrypted in the
\* back end; either takes the place of the rows there were.
PickFile ==
    /\ AtRest
    /\ dialog' \in Files
    /\ UNCHANGED <<unlocked, items, folders, cached, list, syncs, syncing,
                   run, blind>>

\* Slip: rows are compared with the vault only.
NewToVault(rows, ids) == {n \in DOMAIN rows : rows[n].id \notin ids}

\* The first row of each identity that the list does not show.
NewEntries(rows, ids) ==
    {n \in DOMAIN rows : /\ rows[n].id \notin ids
                         /\ \A m \in 1..(n - 1) : rows[m].id # rows[n].id}

-----------------------------------------------------------------------------
(* The run                                                                 *)

\* The user has left some of the new entries ticked, and has asked for folders
\* or not (or for an organisation, where there are none).
Start ==
    /\ AtRest
    /\ \E selected \in SUBSET NewEntries(dialog, Shown.ids) \ {{}},
          grouped \in BOOLEAN :
         run' = [at |-> "row", left |-> selected, row |-> 0,
                 grouped |-> grouped, known |-> Shown.groups, tries |-> 0,
                 pace |-> FirstPace, answer |-> "ok"]
    /\ blind' = blind \cup (Server.ids \ Shown.ids)
                      \cup (Server.groups \ Shown.groups)
    /\ UNCHANGED <<unlocked, items, folders, cached, list, syncs, syncing,
                   dialog>>

\* The rows of the dialog stay while the run is on.
RowOf(r) == dialog[r.row]

\* A command without a session fails before anything is sent.
Asked(r) == [r EXCEPT !.answer = IF unlocked THEN "sent" ELSE "error"]

ForItem(r) == Asked([r EXCEPT !.at = "item"])

\* A row of a group for which there is no folder yet.
NeedsFolder(n) == /\ run.grouped
                  /\ dialog[n].group # None
                  /\ dialog[n].group \notin run.known

NextRow ==
    /\ run # None
    /\ run.at = "row"
    /\ \E n \in run.left :
         /\ \A m \in run.left : n <= m
         /\ run' = IF NeedsFolder(n)
                   THEN Asked([run EXCEPT !.at = "folder", !.row = n])
                   ELSE ForItem([run EXCEPT !.row = n])
    /\ UNCHANGED <<unlocked, items, folders, cached, list, syncs, syncing,
                   dialog, blind>>

\* create_folder answers: any failure leaves the item without a folder.
FolderDone ==
    /\ run # None
    /\ run.at = "folder"
    /\ run.answer # "sent"
    /\ run' = ForItem([run EXCEPT !.known =
                IF run.answer = "ok" THEN @ \cup {RowOf(run).group} ELSE @])
    /\ blind' = IF run.answer = "ok" THEN blind
                ELSE blind \cup ({RowOf(run).group} \cap Server.groups)
    /\ UNCHANGED <<unlocked, items, folders, cached, list, syncs, syncing,
                   dialog>>

Wider(p) == IF 2 * p < MaxPace THEN 2 * p ELSE MaxPace

\* Slip: nobody looks at the number of tries.
RetriesForEver(r) == r.answer = "slow"

\* A 429 is worth another try, a limited number of times.
Retries(r) == r.answer = "slow" /\ r.tries < MaxRetries

\* Slip: a refusal is one more failed row.
StopsWhenSlow(r) == r.answer = "slow" /\ r.tries = MaxRetries

\* The retries are used up, or something in front of the server has refused.
Stops(r) == \/ r.answer = "slow" /\ r.tries = MaxRetries
            \/ r.answer = "refused"

ItemAnswered == run # None /\ run.at = "item" /\ run.answer # "sent"

\* Slip: the attempts are not counted.
BackedOffUncounted(r) == [r EXCEPT !.at = "pause", !.pace = Wider(@)]

\* The rest of the run is spaced out too.
BackedOff(r) == [r EXCEPT !.at = "pause", !.tries = @ + 1, !.pace = Wider(@)]

BackOff ==
    /\ ItemAnswered
    /\ Retries(run)
    /\ run' = BackedOff(run)
    /\ UNCHANGED <<unlocked, items, folders, cached, list, syncs, syncing,
                   dialog, blind>>

Retry ==
    /\ run # None
    /\ run.at = "pause"
    /\ run' = ForItem(run)
    /\ UNCHANGED <<unlocked, items, folders, cached, list, syncs, syncing,
                   dialog, blind>>

\* Made or failed, the row is over; the remaining ones are tried unless the
\* server has pushed back.
RowDone ==
    /\ ItemAnswered
    /\ ~ Retries(run)
    /\ run' = IF Stops(run) THEN [run EXCEPT !.at = "over"]
              ELSE [run EXCEPT !.at = "row", !.left = @ \ {run.row},
                               !.row = 0, !.tries = 0]
    /\ UNCHANGED <<unlocked, items, folders, cached, list, syncs, syncing,
                   dialog, blind>>

\* onDone closes the dialog and asks for a sync.
RunDone ==
    /\ run # None
    /\ run.at = "over" \/ (run.at = "row" /\ run.left = {})
    /\ run' = None
    /\ dialog' = None
    /\ AskSync
    /\ UNCHANGED <<unlocked, items, folders, cached, list, blind>>

-----------------------------------------------------------------------------
(* The server, whose answer may be lost, and the end of the process        *)

Waiting(at) == run # None /\ run.at = at /\ run.answer = "sent"

ServerMakesFolder ==
    /\ Waiting("folder")
    /\ folders[RowOf(run).group] < MaxCopies
    /\ folders' = [folders EXCEPT ![RowOf(run).group] = @ + 1]
    /\ \E a \in {"ok", "error"} : run' = [run EXCEPT !.answer = a]
    /\ UNCHANGED <<unlocked, items, cached, list, syncs, syncing,
                   dialog, blind>>

ServerMakesItem ==
    /\ Waiting("item")
    /\ items[Named[RowOf(run).id]] < MaxCopies
    /\ items' = [items EXCEPT ![Named[RowOf(run).id]] = @ + 1]
    /\ \E a \in {"ok", "error"} : run' = [run EXCEPT !.answer = a]
    /\ UNCHANGED <<unlocked, folders, cached, list, syncs, syncing,
                   dialog, blind>>

\* A failure, a 429 or a 403: the request has changed nothing.
ServerDeclines ==
    /\ Waiting("folder") \/ Waiting("item")
    /\ \E a \in {"error", "slow", "refused"} : run' = [run EXCEPT !.answer = a]
    /\ UNCHANGED <<unlocked, items, folders, cached, list, syncs, syncing,
                   dialog, blind>>

\* The process ends.  A request still out is taken to be answered before that
\* or never to have arrived.
Crash ==
    /\ unlocked' = FALSE
    /\ list' = None
    /\ syncs' = [s \in Syncs |-> NoSync]
    /\ syncing' = FALSE
    /\ dialog' = None
    /\ run' = None
    /\ UNCHANGED <<items, folders, cached, blind>>

RunStep == NextRow \/ FolderDone \/ BackOff \/ Retry \/ RowDone \/ RunDone

Next ==
    \/ Unlock \/ Lock \/ SyncStart
    \/ \E s \in Syncs : SyncServed(s) \/ SyncLands(s) \/ SyncFails(s)
    \/ OpenDialog \/ CancelDialog \/ PickFile
    \/ Start
    \/ RunStep
    \/ ServerMakesFolder \/ ServerMakesItem \/ ServerDeclines
    \/ Crash

\* The window's event loop goes on: the loop's timers fire and an answer that
\* has come is handled.  Nothing is assumed of the server.
Fairness == WF_vars(RunStep)

Spec == Init /\ [][Next]_vars /\ Fairness

-----------------------------------------------------------------------------
(* Properties                                                              *)

\* Importing never makes a second item of one name and username, nor a second
\* folder of a name: not from a file that repeats itself, not by a retry, not
\* by importing again after a stop, a lock or a restart.  Excepted is what the
\* dialog could not see: an item the list it compared with lacked, a folder
\* whose creation was answered with an error, and rows without a title, which
\* are created under another name than they are looked for (importIdentity:
\* "Re-running the same KeePassXC file must not duplicate what is already in
\* the vault").
NothingTwice ==
    /\ \A e \in Ids : items[e] > 1 =>
         e \in blind \/ \E u \in Ids \ {e} : Named[u] = e
    /\ \A g \in Groups : folders[g] > 1 => g \in blind

\* How the writer of an import stands with the server.
Stand ==
    IF run = None THEN "idle"
    ELSE IF run.at = "pause" THEN "heeded"
    ELSE IF run.at \notin {"item", "over"} THEN "clear"
    ELSE CASE run.answer = "sent" -> "asked"
           [] run.answer = "slow" -> "slow"
           [] run.answer = "refused" -> "refused"
           [] OTHER -> "clear"

SlowInARow ==
    IF Stand \in {"idle", "clear"} THEN 0
    ELSE IF Stand = "slow" THEN run.tries + 1
    ELSE run.tries

Paced == INSTANCE PacedWriter WITH
    stand <- Stand, slow <- SlowInARow,
    pace <- IF run = None THEN FirstPace ELSE run.pace

\* The import keeps the promise of PacedWriter: nothing is sent after a 403,
\* a 429 widens the spacing before the next request and for the rest of the
\* run, and one item is sent MaxRetries times again at most.
ImplementsPacedWriter == Paced!PacedSpec

\* A run comes to its end whatever the server answers, unless it leaves a
\* request without any answer (the requests have no timeout): startImport's
\* loop does not retry for ever and the dialog does not stay locked.
RunEnds == \/ []<>(run = None)
           \/ <>[](run # None /\ run.answer = "sent")
=============================================================================
