------------------------------ MODULE Folders ------------------------------
(***************************************************************************)
(* Personal folders: the commands that create, delete, rename and fill     *)
(* them, and the cascade rename of a path with its operation log.          *)
(*                                                                         *)
(* A folder's name is a path, "work/projects", and the tree exists only in *)
(* the names: renaming a node is one request for each folder under it.  A  *)
(* command takes the client in a lock window, asks the server, and writes  *)
(* the outcome into the vault that is in memory when the answer comes.     *)
(* Sync answers, locks, a logout and crashes come in between, and any      *)
(* request or answer can be lost.                                          *)
(***************************************************************************)
EXTENDS Naturals, SequencesExt

CONSTANTS
    Segments,     \* what paths are made of
    Paths,        \* the paths of the instance
    Typed,        \* the names that users type
    Folders,      \* ids the server may give out
    Items,
    Calls,        \* command invocations that may be in flight together
    MaxCommands,  \* bound on the commands that change folders
    StartNames,   \* the folders the account has at first
    None

ASSUME PathsAssumption == Paths \subseteq Seq(Segments) \ {<<>>}
ASSUME TypedAssumption == Typed \subseteq Paths
ASSUME BoundAssumption == MaxCommands \in Nat
ASSUME StartAssumption == StartNames \in [Folders -> Paths \cup {None}]

\* An entry of vault.folders, listed by a sync or pushed behind those by
\* create_folder.  Names come encrypted; some commands stamp the clear text.
Entry ==
    [folder : Folders, path : Paths,
     form : {"cipher", "clear"}, from : {"sync", "create"}]
Named(e, path, form) == [e EXCEPT !.path = path, !.form = form]

Home == [Items -> Folders \cup {None}]
Server == [names : [Folders -> Paths \cup {None}], home : Home]
Vault == [folders : SUBSET Entry, home : Home]
Renaming == [was : Entry, new : Paths]
Row ==
    [op : 1..MaxCommands, folder : Folders,
     original : Entry, new : Paths, applied : BOOLEAN]

ASSUME NoneAssumption ==
    None \notin Paths \cup Folders \cup Items \cup Vault \cup Server

VARIABLES
    server,  \* the server's folders and where it has the items
    open,    \* a session with a client is open
    vault,   \* Session.vault
    cache,   \* the vault that the last sync saved
    log,     \* the rows of folder_op_log
    calls,   \* calls[c]: where an invocation stands, what it holds
    begun,   \* commands begun so far, to bound them and to number batches
    had      \* history: had[f], the names the server has had for f

vars == <<server, open, vault, cache, log, calls, begun, had>>

Steps == {"idle",
          "create.sent", "create.splice", "delete.sent", "delete.splice",
          "rename.sent", "rename.splice", "move.sent", "move.splice",
          "path.read", "path.save", "path.next", "path.sent", "path.mark",
          "sync.sent", "sync.apply"}

Call ==
    [at     : Steps,
     folder : Folders \cup {None},
     item   : Items \cup {None},
     path   : Paths \cup {None},
     op     : 0..MaxCommands,
     plan   : SUBSET Renaming,  \* a batch,
     todo   : SUBSET Renaming,  \* what of it is not sent,
     rows   : SUBSET Row,       \* and its rows, until they are saved
     answer : Server \cup {None}]
Idle ==
    [at |-> "idle", folder |-> None, item |-> None, path |-> None, op |-> 0,
     plan |-> {}, todo |-> {}, rows |-> {}, answer |-> None]

Goto(c, step) == calls' = [calls EXCEPT ![c].at = step]
Return(c) == calls' = [calls EXCEPT ![c] = Idle]

Init ==
    /\ server = [names |-> StartNames, home |-> [i \in Items |-> None]]
    /\ open = FALSE
    /\ vault = None
    /\ cache = None
    /\ log = {}
    /\ calls = [c \in Calls |-> Idle]
    /\ begun = 0
    /\ had = [f \in Folders |-> {StartNames[f]} \ {None}]

\* Ids the front end can name.
Known == {f \in Folders : had[f] # {}}

CanStart(c) == open /\ calls[c] = Idle /\ begun < MaxCommands
Starts(c, call) ==
    /\ CanStart(c)
    /\ begun' = begun + 1
    /\ calls' = [calls EXCEPT ![c] = call]
    /\ UNCHANGED <<server, open, vault, cache, log, had>>

\* What a command does to the vault in memory, if there is one.
Splices(c, spliced) ==
    /\ vault' = IF vault = None THEN None ELSE spliced
    /\ Return(c)
    /\ UNCHANGED <<server, open, cache, log, begun, had>>

-----------------------------------------------------------------------------
(* Paths: services/vault.rs.                                               *)

IsUnder(path, base) == IsStrictPrefix(base, path)

\* compute_new_folder_base.
MayMove(source, parent) == parent # source /\ ~IsUnder(parent, source)
MovedBase(source, parent) == parent \o <<Last(source)>>

\* rename_folder_under_move, for a path at or under the source.
Rebased(path, source, base) ==
    base \o SubSeq(path, Len(source) + 1, Len(path))

\* plan_folder_renames, over the decrypted names of the vault.
Plan(folders, source, base) ==
    {[was |-> e, new |-> Rebased(e.path, source, base)] :
        e \in {d \in folders : d.path = source \/ IsUnder(d.path, source)}}

-----------------------------------------------------------------------------
(* create_folder, delete_folder, rename_folder, move_cipher_to_folder.     *)

CreateStart(c, path) ==
    Starts(c, [Idle EXCEPT !.at = "create.sent", !.path = path])

ServerCreates(c) ==
    /\ calls[c].at = "create.sent"
    /\ \E f \in Folders \ Known :
        /\ server' = [server EXCEPT !.names[f] = calls[c].path]
        /\ had' = [had EXCEPT ![f] = {calls[c].path}]
        /\ \/ calls' = [calls EXCEPT ![c].at = "create.splice", ![c].folder = f]
           \/ Return(c)
    /\ UNCHANGED <<open, vault, cache, log, begun>>

CreateSplices(c) ==
    /\ calls[c].at = "create.splice"
    /\ Splices(c,
         [vault EXCEPT !.folders = @ \cup
            {[folder |-> calls[c].folder, path |-> calls[c].path,
              form |-> "clear", from |-> "create"]}])

DeleteStart(c, f) ==
    Starts(c, [Idle EXCEPT !.at = "delete.sent", !.folder = f])

\* The items of a deleted folder are detached.
Detached(home, f) == [i \in Items |-> IF home[i] = f THEN None ELSE home[i]]

ServerDeletes(c) ==
    /\ calls[c].at = "delete.sent"
    /\ server.names[calls[c].folder] # None
    /\ server' = [names |-> [server.names EXCEPT ![calls[c].folder] = None],
                  home |-> Detached(server.home, calls[c].folder)]
    /\ Goto(c, "delete.splice") \/ Return(c)
    /\ UNCHANGED <<open, vault, cache, log, begun, had>>

DeleteSplices(c) ==
    /\ calls[c].at = "delete.splice"
    /\ Splices(c,
         [folders |-> {e \in vault.folders : e.folder # calls[c].folder},
          home |-> Detached(vault.home, calls[c].folder)])

RenameStart(c, f, path) ==
    Starts(c, [Idle EXCEPT !.at = "rename.sent", !.folder = f, !.path = path])

\* update_folder_name, of rename_folder or of a batch.
Renamed(c, next) ==
    LET f == calls[c].folder
        path == calls[c].path IN
    /\ server.names[f] # None
    /\ server' = [server EXCEPT !.names[f] = path]
    /\ had' = [had EXCEPT ![f] = @ \cup {path}]
    /\ Goto(c, next) \/ Return(c)
    /\ UNCHANGED <<open, vault, cache, log, begun>>

ServerRenames(c) ==
    /\ calls[c].at = "rename.sent"
    /\ Renamed(c, "rename.splice")

RenameSplices(c) ==
    /\ calls[c].at = "rename.splice"
    /\ Splices(c, [vault EXCEPT !.folders =
         {IF e.folder = calls[c].folder
            THEN Named(e, calls[c].path, "clear") ELSE e : e \in @}])

\* A folder, or out of every folder.
MoveStart(c, i, f) ==
    /\ vault # None
    /\ Starts(c, [Idle EXCEPT !.at = "move.sent", !.item = i, !.folder = f])

ServerMoves(c) ==
    /\ calls[c].at = "move.sent"
    /\ calls[c].folder # None => server.names[calls[c].folder] # None
    /\ server' = [server EXCEPT !.home[calls[c].item] = calls[c].folder]
    /\ Goto(c, "move.splice") \/ Return(c)
    /\ UNCHANGED <<open, vault, cache, log, begun, had>>

MoveSplices(c) ==
    /\ calls[c].at = "move.splice"
    /\ Splices(c, [vault EXCEPT !.home[calls[c].item] = calls[c].folder])

-----------------------------------------------------------------------------
(* move_folder_path and rename_folder_path.                                *)

\* apply_folder_path_rename, first window: what is to be renamed to what.
BatchStart(c, source, base) ==
    /\ vault # None
    /\ LET plan == Plan(vault.folders, source, base) IN
        /\ plan # {}
        /\ \A r \in plan : r.new \in Paths
        /\ Starts(c, [Idle EXCEPT !.at = "path.read", !.op = begun + 1,
                                  !.plan = plan, !.todo = plan])

MoveFolderPath(c, source, parent) ==
    /\ CanStart(c) /\ MayMove(source, parent)
    /\ BatchStart(c, source, MovedBase(source, parent))

RenameFolderPath(c, source, base) ==
    /\ CanStart(c) /\ base # source /\ ~IsUnder(base, source)
    /\ BatchStart(c, source, base)

\* Slip: the two names swapped.
NewRowSwapped(op, r, e) ==
    [op |-> op, folder |-> r.was.folder, original |-> Named(e, r.new, "cipher"),
     new |-> e.path, applied |-> FALSE]

\* A row starts unapplied.
NewRow(op, r, e) ==
    [op |-> op, folder |-> r.was.folder, original |-> e, new |-> r.new,
     applied |-> FALSE]

\* A folder can be listed twice: pushed after a sync has listed it.
Ahead(e, d) == e.folder = d.folder /\ e.from = "sync" /\ d.from = "create"

\* The entries that a search for their folder finds.
Found(folders) == {e \in folders : \A d \in folders : ~Ahead(d, e)}

\* Second window: for each renaming, the name its folder has now.
BatchReads(c) ==
    /\ calls[c].at = "path.read"
    /\ IF vault = None
         THEN Return(c)
         ELSE calls' = [calls EXCEPT ![c].at = "path.save", ![c].rows =
                {NewRow(calls[c].op, m[1], m[2]) :
                   m \in {n \in calls[c].plan \X Found(vault.folders) :
                            n[1].was.folder = n[2].folder}}]
    /\ UNCHANGED <<server, open, vault, cache, log, begun, had>>

\* The table's key is batch and folder: a folder listed twice is one row too many.
FitsTable(call) ==
    \A r, q \in call.plan : r # q /\ r.was.folder = q.was.folder =>
        \A row \in call.rows : row.folder # r.was.folder

\* One transaction, whose failure is not fatal.
BatchSaves(c) ==
    /\ calls[c].at = "path.save"
    /\ \/ UNCHANGED log
       \/ FitsTable(calls[c]) /\ log' = log \cup calls[c].rows
    /\ calls' = [calls EXCEPT ![c].at = "path.next", ![c].rows = {}]
    /\ UNCHANGED <<server, open, vault, cache, begun, had>>

BatchSends(c) ==
    /\ calls[c].at = "path.next"
    /\ \E r \in calls[c].todo :
         /\ \A q \in calls[c].todo : ~Ahead(q.was, r.was)
         /\ calls' = [calls EXCEPT ![c].at = "path.sent",
                                   ![c].folder = r.was.folder,
                                   ![c].path = r.new, ![c].todo = @ \ {r}]
    /\ UNCHANGED <<server, open, vault, cache, log, begun, had>>

ServerRenamesNext(c) ==
    /\ calls[c].at = "path.sent"
    /\ Renamed(c, "path.mark")

\* Slip: every row of the batch.
AllRowsApplied(call) ==
    {IF row.op = call.op THEN [row EXCEPT !.applied = TRUE] ELSE row :
        row \in log}

RowApplied(call) ==
    {IF row.op = call.op /\ row.folder = call.folder
       THEN [row EXCEPT !.applied = TRUE] ELSE row : row \in log}

BatchMarks(c) ==
    /\ calls[c].at = "path.mark"
    /\ log' \in {log, RowApplied(calls[c])}
    /\ Goto(c, "path.next")
    /\ UNCHANGED <<server, open, vault, cache, begun, had>>

\* What a batch names its folders in the end: a later renaming wins.
Outcome(plan) == {r \in plan : \A q \in plan : ~Ahead(r.was, q.was)}

\* The last renaming of an entry that a search finds: one or none.
RenamingsOf(e, c) ==
    {r \in Outcome(calls[c].plan) :
        e \in Found(vault.folders) /\ r.was.folder = e.folder}

\* Only when every request was answered.
BatchSplices(c) ==
    /\ calls[c].at = "path.next"
    /\ calls[c].todo = {}
    /\ Splices(c, [vault EXCEPT !.folders =
         UNION {LET last == RenamingsOf(e, c) IN
                IF last = {} THEN {e}
                ELSE {Named(e, r.new, "cipher") : r \in last} : e \in @}])

-----------------------------------------------------------------------------
(* sync, the session, and what goes wrong.                                 *)

SyncStart(c) ==
    /\ open
    /\ calls[c] = Idle
    /\ Goto(c, "sync.sent")
    /\ UNCHANGED <<server, open, vault, cache, log, begun, had>>

ServerAnswers(c) ==
    /\ calls[c].at = "sync.sent"
    /\ calls' = [calls EXCEPT ![c].at = "sync.apply", ![c].answer = server]
    /\ UNCHANGED <<server, open, vault, cache, log, begun, had>>

Decoded(answer) ==
    [folders |-> {[folder |-> f, path |-> answer.names[f],
                   form |-> "cipher", from |-> "sync"] :
                    f \in {g \in Folders : answer.names[g] # None}},
     home |-> answer.home]

\* The cache is written first, and may fail to be.
SyncApplies(c) ==
    /\ calls[c].at = "sync.apply"
    /\ IF open
         THEN /\ vault' = Decoded(calls[c].answer)
              /\ cache' \in {cache, vault'}
         ELSE UNCHANGED <<vault, cache>>
    /\ Return(c)
    /\ UNCHANGED <<server, open, log, begun, had>>

\* load_cached_vault.
LoadsCached ==
    /\ open
    /\ cache # None
    /\ vault' = cache
    /\ UNCHANGED <<server, open, cache, log, calls, begun, had>>

\* Slip: a batch goes on with the rest when a request fails.
FailedGoesOn(c) ==
    IF calls[c].at = "path.sent" THEN Goto(c, "path.next") ELSE Return(c)

\* Slip: a creation that failed is spliced all the same.
FailedUnheard(c) ==
    IF calls[c].at = "create.sent" THEN Goto(c, "create.splice") ELSE Return(c)

\* What a failed request leads to: the ? of every call.
Failed(c) == Return(c)

RequestFails(c) ==
    /\ calls[c].at \in {"create.sent", "delete.sent", "rename.sent",
                        "move.sent", "path.sent", "sync.sent"}
    /\ Failed(c)
    /\ UNCHANGED <<server, open, vault, cache, log, begun, had>>

Unlock ==
    /\ open' = TRUE
    /\ vault' = None
    /\ UNCHANGED <<server, cache, log, calls, begun, had>>

Lock ==
    /\ open' = FALSE
    /\ vault' = None
    /\ UNCHANGED <<server, cache, log, calls, begun, had>>

\* clear_all empties the cache, then the log; a failure is not fatal.
Logout ==
    /\ open' = FALSE
    /\ vault' = None
    /\ \/ cache' = None /\ log' \in {log, {}}
       \/ UNCHANGED <<cache, log>>
    /\ UNCHANGED <<server, calls, begun, had>>

Crash ==
    /\ open' = FALSE
    /\ vault' = None
    /\ calls' = [c \in Calls |-> Idle]
    /\ UNCHANGED <<server, cache, log, begun, had>>

FolderStep(c) ==
    \/ \E path \in Typed : CreateStart(c, path)
    \/ \E f \in Known : DeleteStart(c, f)
    \/ \E f \in Known, path \in Typed : RenameStart(c, f, path)
    \/ \E i \in Items, f \in Known \cup {None} : MoveStart(c, i, f)
    \/ ServerCreates(c)
    \/ CreateSplices(c)
    \/ ServerDeletes(c)
    \/ DeleteSplices(c)
    \/ ServerRenames(c)
    \/ RenameSplices(c)
    \/ ServerMoves(c)
    \/ MoveSplices(c)

BatchStep(c) ==
    \/ \E source \in Paths, parent \in Paths \cup {<<>>} :
         MoveFolderPath(c, source, parent)
    \/ \E source \in Paths, base \in Typed : RenameFolderPath(c, source, base)
    \/ BatchReads(c)
    \/ BatchSaves(c)
    \/ BatchSends(c)
    \/ ServerRenamesNext(c)
    \/ BatchMarks(c)
    \/ BatchSplices(c)

Next ==
    \/ \E c \in Calls :
        \/ FolderStep(c)
        \/ BatchStep(c)
        \/ SyncStart(c)
        \/ ServerAnswers(c)
        \/ SyncApplies(c)
        \/ RequestFails(c)
    \/ LoadsCached
    \/ Unlock
    \/ Lock
    \/ Logout
    \/ Crash

Spec == Init /\ [][Next]_vars

-----------------------------------------------------------------------------
(* Properties.                                                             *)

\* What an invocation holds where its next step reads it.
Holds(call) ==
    /\ call.at \in {"create.sent", "rename.sent", "rename.splice",
                    "create.splice", "path.sent"} => call.path \in Paths
    /\ call.at \in {"delete.sent", "delete.splice", "rename.sent",
                    "rename.splice", "create.splice", "path.sent", "path.mark"}
         => call.folder \in Folders
    /\ call.at \in {"move.sent", "move.splice"} => call.item \in Items
    /\ call.at \in {"path.read", "path.save", "path.next", "path.sent",
                    "path.mark"} => call.op # 0
    /\ call.at = "sync.apply" => call.answer \in Server

\* Every variable has its type.
TypeOK ==
    /\ server \in Server
    /\ open \in BOOLEAN
    /\ vault \in Vault \cup {None}
    /\ cache \in Vault \cup {None}
    /\ log \subseteq Row
    /\ calls \in [Calls -> Call]
    /\ \A c \in Calls : Holds(calls[c])
    /\ begun \in 0..MaxCommands
    /\ had \in [Folders -> SUBSET Paths]

\* The vault shows a folder only under names the server has taken for it, though
\* create_folder, rename_folder and the cascade stamp names of their own into it:
\* a batch that fails half-way leaves the vault as it was.
ShowsOnlyServedNames ==
    vault # None => \A e \in vault.folders : e.path \in had[e.folder]

\* After a crash or a failure the log tells what a recovery would need: the name
\* each folder had, and applied only for what the server has taken.
LogIsTrue ==
    \A row \in log :
        /\ row.original.folder = row.folder
        /\ row.original.path \in had[row.folder]
        /\ row.applied => row.new \in had[row.folder]

\* A row that is still to be sent is still to be applied: the rows a crash leaves
\* unapplied are where the rename can be taken up.
UnsentIsUnapplied ==
    \A c \in Calls : \A r \in calls[c].todo : \A row \in log :
        row.op = calls[c].op /\ row.folder = r.was.folder => ~row.applied

-----------------------------------------------------------------------------
(* What the documentation says and the code does not keep.                 *)

\* Violated: the operation log has the name each folder had as it is stored,
\* encrypted ("written to encrypted columns", CRYPTO.md).  apply_folder_path_rename
\* logs what memory has, and create_folder and rename_folder have put clear text
\* there.
LogIsEncrypted == \A row \in log : row.original.form = "cipher"
=============================================================================
