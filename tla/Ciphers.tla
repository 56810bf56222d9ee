------------------------------ MODULE Ciphers ------------------------------
(***************************************************************************)
(* The commands that create, update, copy, share, move, trash and delete   *)
(* items and their attachments, window by window, against a server other   *)
(* clients write to as well: commands/cipher.rs and the share and the      *)
(* collection move of move_share.rs.                                       *)
(*                                                                         *)
(* A command reads the vault under the session lock and builds its request *)
(* there, awaits the server, and splices the answer into whatever vault is *)
(* open then.  One account; VaultSync has what happens between accounts,   *)
(* Folders what happens to folders.                                        *)
(***************************************************************************)
EXTENDS CipherViews

CONSTANTS
    ItemIds,
    Calls,        \* command invocations that may be in flight together
    Inputs,       \* what the editor may send
    Starts,       \* what the server may hold at the start
    Gone,         \* an item the server has deleted; its id is not given again
    MaxCommands,  \* bound on commands started
    MaxOthers     \* bound on changes by other clients

Vaults == [ItemIds -> Item \cup {None}]
\* A row of cipher_snapshots; the blob is under the user key.
Row == [op : 1..MaxCommands, item : ItemIds, blob : Item, done : BOOLEAN]

\* The ids of an item's files, and its own key.
Marks(item) ==
    {f.id : f \in item.files}
      \cup (IF item.wrap = None THEN {} ELSE {item.wrap.key})
Taken(items) == UNION {Marks(items[i]) : i \in Ids(items)}

ASSUME CiphersAssumption ==
    /\ MaxCommands \in Nat /\ MaxOthers \in Nat
    /\ IsFiniteSet(ItemIds)
    /\ Inputs \subseteq Input
    /\ \A input \in Inputs :
         input.org # None /\ input.coll # None => OrgOf[input.coll] = input.org
    /\ Gone \notin Item \cup {None}
    /\ None \notin Vaults /\ None \notin FileIds /\ None \notin ItemIds
    /\ \A ids \in SUBSET ItemIds :
         None \notin [items : [ids -> Item], folders : Seq(Name),
                      collections : Seq(Collection)]
    /\ None \notin File /\ FileIds \cap OwnKeys = {}

\* Items as other clients have left them.
ASSUME StartsAssumption ==
    \A items \in Starts :
        /\ items \in Vaults
        /\ \A i, j \in Ids(items) :
             i # j => Marks(items[i]) \cap Marks(items[j]) = {}
        /\ \A i \in Ids(items) :
             /\ ItemOpens(items[i])
             /\ items[i].coll # None => OrgOf[items[i].coll] = items[i].org
             /\ \A f \in items[i].files : f.cover = RealKey(items[i])

VARIABLES
    server,  \* the item of each id, None before it is given, Gone after
    bytes,   \* the attachments whose bytes the server has
    open,    \* a session is open
    vault,   \* its vault, or None
    cache,   \* the vault on disk, or None
    snaps,   \* cipher_snapshots
    taken,   \* file ids and item keys given out
    lost,    \* items whose key the server kept when a body without one came
    calls,   \* calls[c]: where an invocation stands, what it holds
    begun, others

disk == <<cache, snaps>>
count == <<begun, others>>
vars ==
    <<server, bytes, open, vault, cache, snaps, taken, lost, calls, begun, others>>

Sent == {"create.sent", "update.sent", "login.sent", "share.sent", "flag.sent",
         "move.sent", "slot.sent", "data.sent", "unfile.sent", "delete.sent",
         "sync.sent"}
Answered == {"create.splice", "update.splice", "share.mark", "flag.splice",
             "move.splice", "upload.splice", "unfile.splice", "delete.splice",
             "sync.apply"}
Steps == {"idle", "share.save", "share.splice"} \cup Sent \cup Answered

Call ==
    [at     : Steps,
     op     : 0..MaxCommands,
     item   : ItemIds \cup {None},
     read   : Item \cup {None},    \* the item in memory the request came from
     body   : Body \cup {None},
     file   : File \cup {None},
     flag   : BOOLEAN,
     answer : Item \cup {None},
     listing : Vaults \cup {None}]
Idle ==
    [at |-> "idle", op |-> 0, item |-> None, read |-> None, body |-> None,
     file |-> None, flag |-> FALSE, answer |-> None, listing |-> None]

\* A session that has just synced.
Init ==
    /\ server \in Starts
    /\ bytes = {f.id : f \in UNION {server[i].files : i \in Ids(server)}}
    /\ open = TRUE
    /\ vault = server
    /\ cache = server
    /\ snaps = {}
    /\ taken = Taken(server)
    /\ lost = {}
    /\ calls = [c \in Calls |-> Idle]
    /\ begun = 0
    /\ others = 0

Served(i) == server[i] \notin {None, Gone}
Known(i) == vault # None /\ vault[i] # None

Goto(c, next) == calls' = [calls EXCEPT ![c] = next]
Return(c) == Goto(c, Idle)

CanStart(c) == open /\ begun < MaxCommands /\ calls[c] = Idle

\* A command's first window, with the session it needs open.
Start(c, call) ==
    /\ begun' = begun + 1
    /\ calls' = [calls EXCEPT ![c] = [call EXCEPT !.op = begun + 1]]
    /\ UNCHANGED <<server, bytes, open, vault, disk, taken, lost, others>>

\* The server answers: the call moves on, and only what it serves changes.
Serve(c, next) ==
    /\ Goto(c, next)
    /\ UNCHANGED <<open, vault, disk, count>>

\* The last window: item i of the vault that is open now becomes new, if it is
\* there.
Splice(c, i, new) ==
    /\ vault' = IF Known(i) THEN [vault EXCEPT ![i] = new] ELSE vault
    /\ Return(c)
    /\ UNCHANGED <<server, bytes, open, disk, taken, lost, count>>

\* What a server makes of an item's key when a body has none: it takes the key
\* away, as it does a history, or leaves it in place (update_cipher: writing
\* "under the owning key instead would leave the server's `key` in place").
KeptWraps(item, body) ==
    IF body.wrap = None THEN {None, item.wrap} ELSE {body.wrap}

\* An item of the server as a body makes it: replaced, but for what a body
\* does not carry.
Replaces(item, body, wrap) ==
    [kind |-> body.kind, org |-> body.org, coll |-> item.coll,
     wrap |-> wrap, fields |-> body.fields, past |-> body.past,
     files |-> item.files, reprompt |-> body.reprompt, whole |-> TRUE,
     trashed |-> item.trashed]

Losing(i, body, wrap) == IF wrap = body.wrap THEN lost ELSE lost \cup {i}

\* The server's organisation check: a body names the organisation the item is
\* in, or takes a personal item into one.
Accepts(i, body) == Served(i) /\ server[i].org \in {None, body.org}

-----------------------------------------------------------------------------
(* Creating and copying.                                                   *)

\* A session has the organisations' keys from when it has a vault.
CreateStart(c) == CanStart(c) /\ \E input \in Inputs :
    LET key == IF input.org = None THEN UserKey ELSE input.org
        body == BuildCipherBody(input, key)
    IN  /\ input.org # None => vault # None /\ input.org \in Held
        /\ body # None
        /\ Start(c, [Idle EXCEPT !.at = "create.sent", !.body = body])

\* The older command, which only the user key ever encrypted for.
CreateLoginStart(c) == CanStart(c) /\ \E input \in Inputs :
    LET body == BuildLoginCipherBody(input, UserKey) IN
    /\ input.org = None
    /\ body # None
    /\ Start(c, [Idle EXCEPT !.at = "create.sent", !.body = body])

\* Slip: the copy takes the original's own key along.
CopyWithKey(item) ==
    LET key == CipherKey(item, Session)
        input == CipherToCreateInput(item, key)
    IN  IF input = None \/ BuildCipherBody(input, key) = None THEN None
        ELSE [BuildCipherBody(input, key) EXCEPT !.wrap = item.wrap]

\* Read under the item's key, written under its owner's.
CopyOf(item) ==
    LET owner == OwningKey(item, Session)
        input == CipherToCreateInput(item, CipherKey(item, Session))
    IN  IF input = None THEN None ELSE BuildCipherBody(input, owner)

DuplicateStart(c, i) ==
    /\ CanStart(c)
    /\ Known(i)
    /\ CopyOf(vault[i]) # None
    /\ Start(c, [Idle EXCEPT !.at = "create.sent", !.body = CopyOf(vault[i])])

\* A personal item is sent without collections.
ServerCreates(c, i) ==
    /\ calls[c].at = "create.sent"
    /\ server[i] = None
    /\ LET b == calls[c].body
           item == [kind |-> b.kind, org |-> b.org,
                    coll |-> IF b.org = None THEN None ELSE b.coll,
                    wrap |-> b.wrap, fields |-> b.fields, past |-> b.past,
                    files |-> {}, reprompt |-> b.reprompt, whole |-> TRUE,
                    trashed |-> FALSE]
       IN  /\ server' = [server EXCEPT ![i] = item]
           /\ Serve(c, [calls[c] EXCEPT !.at = "create.splice", !.item = i,
                                        !.answer = item])
    /\ UNCHANGED <<bytes, taken, lost>>

\* vault.ciphers.push.  If a sync has listed the item meanwhile it is there
\* twice and every command finds the first, which is the one kept here.
CreateSplices(c) ==
    /\ calls[c].at = "create.splice"
    /\ vault' = IF vault = None \/ Known(calls[c].item) THEN vault
                ELSE [vault EXCEPT ![calls[c].item] = calls[c].answer]
    /\ Return(c)
    /\ UNCHANGED <<server, bytes, open, disk, taken, lost, count>>

-----------------------------------------------------------------------------
(* Updating.                                                               *)

\* The body of an update of item i, which memory may not have; None is an Err:
\* no key for its organisation, or its own key does not unwrap.
UpdateBody(i, input) ==
    LET known == Known(i)
        org == IF known THEN vault[i].org ELSE None
        wrap == IF known THEN vault[i].wrap ELSE None
        owner == IF org = None THEN UserKey ELSE org
        own == IF wrap = None THEN None ELSE DecryptCipherKey(owner, wrap)
        key == IF own = None THEN owner ELSE own
        bound == [input EXCEPT !.org = org]
        body == IF known THEN BuildUpdateCipherBody(bound, key, vault[i])
                ELSE BuildCipherBody(bound, key)
    IN  IF \/ org \notin Held \cup {None}
           \/ wrap # None /\ own = None
           \/ body = None
        THEN None ELSE [body EXCEPT !.wrap = wrap]

\* The editor has a choice of kinds for a new item only: it keeps the kind of
\* the item it opened, in memory and on the server.
UpdateStart(c, i) == CanStart(c) /\ \E input \in Inputs :
    LET body == UpdateBody(i, input) IN
    /\ server[i] # None
    /\ (Known(i) => input.kind = vault[i].kind)
    /\ (Served(i) => input.kind = server[i].kind)
    /\ body # None
    /\ Start(c, [Idle EXCEPT !.at = "update.sent", !.item = i, !.body = body,
                             !.read = IF Known(i) THEN vault[i] ELSE None])

\* The older command, for personal logins: no history, no key.
UpdateLoginStart(c, i) == CanStart(c) /\ \E input \in Inputs :
    LET body == BuildLoginCipherBody(input, UserKey) IN
    /\ Known(i) /\ vault[i].kind = "login" /\ vault[i].org = None
    /\ input.org = None
    /\ body # None
    /\ Start(c, [Idle EXCEPT !.at = "login.sent", !.item = i, !.body = body])

ServerUpdates(c) ==
    LET i == calls[c].item
        body == calls[c].body
    IN  /\ calls[c].at \in {"update.sent", "login.sent"}
        /\ Accepts(i, body)
        /\ \E wrap \in KeptWraps(server[i], body) :
             LET item == Replaces(server[i], body, wrap) IN
             /\ server' = [server EXCEPT ![i] = item]
             /\ lost' = Losing(i, body, wrap)
             /\ Serve(c, [calls[c] EXCEPT !.at = "update.splice",
                                          !.answer = item])
        /\ UNCHANGED <<bytes, taken>>

\* Slip: the entry in memory keeps its own key.
UpdateKeepsWrap(c) ==
    LET i == calls[c].item IN
    /\ calls[c].at = "update.splice"
    /\ Splice(c, i, IF Known(i) THEN [calls[c].answer EXCEPT !.wrap = vault[i].wrap]
                    ELSE None)

UpdateSplices(c) ==
    /\ calls[c].at = "update.splice"
    /\ Splice(c, calls[c].item, calls[c].answer)

-----------------------------------------------------------------------------
(* Sharing into an organisation, and moving between its collections.       *)

ShareStart(c, i, coll) ==
    /\ CanStart(c)
    /\ Known(i)
    /\ LET item == vault[i]
           source == IF item.org = None THEN UserKey ELSE item.org
           body == BuildShareCipherBody(item, source, OrgOf[coll], coll)
       IN  /\ item.org # OrgOf[coll]
           /\ OrgOf[coll] \in Held
           /\ item.org \in Held \cup {None}
           /\ body # None
           /\ Start(c, [Idle EXCEPT !.at = "share.save", !.item = i,
                                    !.read = item, !.body = body])

\* Slip: the column defaults to 1.
DoneRow(call) ==
    [op |-> call.op, item |-> call.item, blob |-> call.read, done |-> TRUE]

NewRow(call) ==
    [op |-> call.op, item |-> call.item, blob |-> call.read, done |-> FALSE]

\* Outside the lock; a write that fails is not fatal.
ShareSaves(c) ==
    /\ calls[c].at = "share.save"
    /\ snaps' \in {snaps, snaps \cup {NewRow(calls[c])}}
    /\ Goto(c, [calls[c] EXCEPT !.at = "share.sent"])
    /\ UNCHANGED <<server, bytes, open, vault, cache, taken, lost, count>>

ServerShares(c) ==
    LET i == calls[c].item
        body == calls[c].body
    IN  /\ calls[c].at = "share.sent"
        /\ Accepts(i, body)
        /\ \E wrap \in KeptWraps(server[i], body) :
             /\ server' = [server EXCEPT ![i] =
                             [Replaces(@, body, wrap) EXCEPT !.coll = body.coll]]
             /\ lost' = Losing(i, body, wrap)
        /\ Serve(c, [calls[c] EXCEPT !.at = "share.mark"])
        /\ UNCHANGED <<bytes, taken>>

Marked(rows, call) == {[r EXCEPT !.done = @ \/ r.op = call.op] : r \in rows}

ShareMarks(c) ==
    /\ calls[c].at = "share.mark"
    /\ snaps' \in {snaps, Marked(snaps, calls[c])}
    /\ Goto(c, [calls[c] EXCEPT !.at = "share.splice"])
    /\ UNCHANGED <<server, bytes, open, vault, cache, taken, lost, count>>

\* The owner changes; what is under the old key stays until the next sync.
ShareSplices(c) ==
    LET i == calls[c].item IN
    /\ calls[c].at = "share.splice"
    /\ Splice(c, i, IF Known(i)
                    THEN [vault[i] EXCEPT !.org = calls[c].body.org,
                                          !.coll = calls[c].body.coll]
                    ELSE None)

\* The request has no body; the call keeps the collection as the item's.
MoveStart(c, i, coll) ==
    /\ CanStart(c)
    /\ Known(i)
    /\ ValidateMove(vault[i], coll)
    /\ Start(c, [Idle EXCEPT !.at = "move.sent", !.item = i,
                             !.read = [vault[i] EXCEPT !.coll = coll]])

ServerMoves(c) ==
    LET i == calls[c].item IN
    /\ calls[c].at = "move.sent"
    /\ Served(i)
    /\ server' = [server EXCEPT ![i].coll = calls[c].read.coll]
    /\ Serve(c, [calls[c] EXCEPT !.at = "move.splice"])
    /\ UNCHANGED <<bytes, taken, lost>>

MoveSplices(c) ==
    LET i == calls[c].item IN
    /\ calls[c].at = "move.splice"
    /\ Splice(c, i, IF Known(i) THEN [vault[i] EXCEPT !.coll = calls[c].read.coll]
                    ELSE None)

-----------------------------------------------------------------------------
(* The trash, and deleting for good.                                       *)

\* soft_delete_cipher and restore_cipher: no look at the vault.
FlagStart(c, i, flag) ==
    /\ CanStart(c)
    /\ server[i] # None
    /\ Start(c, [Idle EXCEPT !.at = "flag.sent", !.item = i, !.flag = flag])

ServerFlags(c) ==
    LET i == calls[c].item IN
    /\ calls[c].at = "flag.sent"
    /\ Served(i)
    /\ server' = [server EXCEPT ![i].trashed = calls[c].flag]
    /\ Serve(c, [calls[c] EXCEPT !.at = "flag.splice"])
    /\ UNCHANGED <<bytes, taken, lost>>

FlagSplices(c) ==
    LET i == calls[c].item IN
    /\ calls[c].at = "flag.splice"
    /\ Splice(c, i, IF Known(i) THEN [vault[i] EXCEPT !.trashed = calls[c].flag]
                    ELSE None)

DeleteStart(c, i) ==
    /\ CanStart(c)
    /\ server[i] # None
    /\ Start(c, [Idle EXCEPT !.at = "delete.sent", !.item = i])

ServerDeletes(c) ==
    LET i == calls[c].item IN
    /\ calls[c].at = "delete.sent"
    /\ Served(i)
    /\ server' = [server EXCEPT ![i] = Gone]
    /\ bytes' = bytes \ {f.id : f \in server[i].files}
    /\ Serve(c, [calls[c] EXCEPT !.at = "delete.splice"])
    /\ UNCHANGED <<taken, lost>>

DeleteSplices(c) ==
    /\ calls[c].at = "delete.splice"
    /\ Splice(c, calls[c].item, None)

-----------------------------------------------------------------------------
(* Attachments.                                                            *)

\* The key is read, the bytes are encrypted.
UploadStart(c, i, f) ==
    /\ CanStart(c)
    /\ Known(i)
    /\ f \notin taken
    /\ \A d \in Calls : calls[d].file # None => calls[d].file.id # f
    /\ Start(c, [Idle EXCEPT !.at = "slot.sent", !.item = i, !.read = vault[i],
                             !.file = NewFile(f, vault[i], Session)])

\* The slot: the attachment is announced.
ServerMakesSlot(c) ==
    LET i == calls[c].item
        item == [server[i] EXCEPT !.files = @ \cup {calls[c].file}]
    IN  /\ calls[c].at = "slot.sent"
        /\ Served(i)
        /\ server' = [server EXCEPT ![i] = item]
        /\ taken' = taken \cup {calls[c].file.id}
        /\ Serve(c, [calls[c] EXCEPT !.at = "data.sent", !.answer = item])
        /\ UNCHANGED <<bytes, lost>>

\* Slip: the answer to the slot is taken for the upload's.
ServerForgetsData(c) ==
    /\ calls[c].at = "data.sent"
    /\ Serve(c, [calls[c] EXCEPT !.at = "upload.splice"])
    /\ UNCHANGED <<server, taken, lost, bytes>>

\* The second request has the bytes.
ServerStores(c) ==
    LET i == calls[c].item IN
    /\ calls[c].at = "data.sent"
    /\ Served(i)
    /\ \E f \in server[i].files : f.id = calls[c].file.id
    /\ bytes' = bytes \cup {calls[c].file.id}
    /\ Serve(c, [calls[c] EXCEPT !.at = "upload.splice"])
    /\ UNCHANGED <<server, taken, lost>>

\* The item as the slot's answer had it.
UploadSplices(c) ==
    /\ calls[c].at = "upload.splice"
    /\ Splice(c, calls[c].item, calls[c].answer)

UnfileStart(c, i, file) ==
    /\ CanStart(c)
    /\ Known(i)
    /\ file \in vault[i].files
    /\ Start(c, [Idle EXCEPT !.at = "unfile.sent", !.item = i, !.file = file])

Without(item, file) ==
    [item EXCEPT !.files = {f \in @ : f.id # file.id}]

ServerUnfiles(c) ==
    LET i == calls[c].item IN
    /\ calls[c].at = "unfile.sent"
    /\ Served(i)
    /\ server' = [server EXCEPT ![i] = Without(@, calls[c].file)]
    /\ bytes' = bytes \ {calls[c].file.id}
    /\ Serve(c, [calls[c] EXCEPT !.at = "unfile.splice"])
    /\ UNCHANGED <<taken, lost>>

UnfileSplices(c) ==
    LET i == calls[c].item IN
    /\ calls[c].at = "unfile.splice"
    /\ Splice(c, i, IF Known(i) THEN Without(vault[i], calls[c].file) ELSE None)

-----------------------------------------------------------------------------
(* Sync, the session, the other clients.                                   *)

SyncStart(c) == CanStart(c) /\ Start(c, [Idle EXCEPT !.at = "sync.sent"])

Listing == [i \in ItemIds |-> IF Served(i) THEN server[i] ELSE None]

ServerLists(c) ==
    /\ calls[c].at = "sync.sent"
    /\ Serve(c, [calls[c] EXCEPT !.at = "sync.apply", !.listing = Listing])
    /\ UNCHANGED <<server, bytes, taken, lost>>

\* The cache may fail to be written.
SyncApplies(c) ==
    /\ calls[c].at = "sync.apply"
    /\ open
    /\ vault' = calls[c].listing
    /\ cache' \in {cache, calls[c].listing}
    /\ Return(c)
    /\ UNCHANGED <<server, bytes, open, snaps, taken, lost, count>>

LoadsCached ==
    /\ open /\ cache # None
    /\ vault' = cache
    /\ UNCHANGED <<server, bytes, open, disk, taken, lost, calls, count>>

\* A request that is not handled, an answer that is lost, a session closed.
RequestFails(c) ==
    /\ calls[c].at \in Sent \cup Answered
    /\ Return(c)
    /\ UNCHANGED <<server, bytes, open, vault, disk, taken, lost, count>>

Unlock ==
    /\ open' = TRUE
    /\ vault' = None
    /\ UNCHANGED <<server, bytes, disk, taken, lost, calls, count>>

Lock ==
    /\ open' = FALSE
    /\ vault' = None
    /\ UNCHANGED <<server, bytes, disk, taken, lost, calls, count>>

\* clear_all empties the cache, then the snapshots; a failure is not fatal.
Logout ==
    /\ open' = FALSE
    /\ vault' = None
    /\ \/ cache' = None /\ snaps' \in {snaps, {}}
       \/ UNCHANGED disk
    /\ UNCHANGED <<server, bytes, taken, lost, calls, count>>

Crash ==
    /\ open' = FALSE
    /\ vault' = None
    /\ calls' = [c \in Calls |-> Idle]
    /\ UNCHANGED <<server, bytes, disk, taken, lost, count>>

\* What another client makes of an item, and files it finds in it.
Elsewhere(i, item) ==
    /\ others < MaxOthers
    /\ others' = others + 1
    /\ server' = [server EXCEPT ![i] = item]
    /\ UNCHANGED <<bytes, open, vault, disk, lost, calls, begun>>

\* Another client sets the password,
OtherClientEdits(i, text) ==
    LET key == RealKey(server[i])
        old == server[i].fields["password"]
    IN  /\ Served(i) /\ server[i].kind = "login"
        /\ Elsewhere(i, [server[i] EXCEPT
             !.fields = [@ EXCEPT !["password"] = Seal(text, key)],
             !.past = Truncate(IF old = None THEN @ ELSE <<old>> \o @)])
        /\ UNCHANGED taken

\* or gives the item a key of its own.
OtherClientWraps(i, own) ==
    LET key == RealKey(server[i])
        under(s) == IF s # None /\ s.under = key THEN Seal(s.text, own) ELSE s
    IN  /\ Served(i) /\ server[i].wrap = None /\ own \notin taken
        /\ taken' = taken \cup {own}
        /\ Elsewhere(i, [server[i] EXCEPT
             !.wrap = EncryptCipherKey(own, OwningKey(server[i], Everyones)),
             !.fields = [p \in Parts |-> under(@[p])],
             !.past = [n \in DOMAIN @ |-> under(@[n])],
             !.files = {IF f.cover = key THEN [f EXCEPT !.cover = own] ELSE f :
                          f \in @}])

Next ==
    \/ \E c \in Calls :
         \/ CreateStart(c) \/ CreateLoginStart(c) \/ CreateSplices(c)
         \/ ServerUpdates(c) \/ UpdateSplices(c)
         \/ ShareSaves(c) \/ ServerShares(c) \/ ShareMarks(c) \/ ShareSplices(c)
         \/ ServerMoves(c) \/ MoveSplices(c)
         \/ ServerFlags(c) \/ FlagSplices(c)
         \/ ServerDeletes(c) \/ DeleteSplices(c)
         \/ ServerMakesSlot(c) \/ ServerStores(c) \/ UploadSplices(c)
         \/ ServerUnfiles(c) \/ UnfileSplices(c)
         \/ SyncStart(c) \/ ServerLists(c) \/ SyncApplies(c)
         \/ RequestFails(c)
    \/ \E c \in Calls, i \in ItemIds :
         \/ DuplicateStart(c, i) \/ ServerCreates(c, i)
         \/ UpdateStart(c, i) \/ UpdateLoginStart(c, i) \/ DeleteStart(c, i)
         \/ \E coll \in Colls : ShareStart(c, i, coll) \/ MoveStart(c, i, coll)
         \/ \E flag \in BOOLEAN : FlagStart(c, i, flag)
         \/ \E f \in FileIds : UploadStart(c, i, f)
         \/ Known(i) /\ \E file \in vault[i].files : UnfileStart(c, i, file)
    \/ \E i \in ItemIds, text \in Texts : OtherClientEdits(i, text)
    \/ \E i \in ItemIds, own \in OwnKeys : OtherClientWraps(i, own)
    \/ LoadsCached
    \/ Unlock
    \/ Lock
    \/ Logout
    \/ Crash

Spec == Init /\ [][Next]_vars

-----------------------------------------------------------------------------
(* Properties.                                                             *)

\* What an invocation holds where its next step reads it.
Holds(call) ==
    /\ call.at # "idle" => call.op # 0
    /\ call.at \notin {"idle", "create.sent", "sync.sent", "sync.apply"}
         => call.item # None
    /\ call.at \in {"create.sent", "update.sent", "login.sent", "share.save",
                    "share.sent", "share.mark", "share.splice"}
         => call.body # None
    /\ call.at \in {"share.save", "move.sent", "move.splice"} => call.read # None
    /\ call.at \in {"move.sent", "move.splice"} => call.read.coll # None
    /\ call.at \in {"share.save", "share.sent", "share.mark", "share.splice"}
         => call.body.org # None
    /\ call.at \in {"slot.sent", "data.sent", "upload.splice", "unfile.sent",
                    "unfile.splice"} => call.file # None
    /\ call.at \in {"create.splice", "update.splice", "data.sent",
                    "upload.splice"} => call.answer # None
    /\ call.at = "sync.apply" => call.listing # None

\* Every variable has its type, and every call what its next step reads.
TypeOK ==
    /\ server \in [ItemIds -> Item \cup {None, Gone}]
    /\ bytes \in SUBSET FileIds
    /\ open \in BOOLEAN
    /\ vault \in Vaults \cup {None}
    /\ cache \in Vaults \cup {None}
    /\ snaps \in SUBSET Row
    /\ taken \in SUBSET (FileIds \cup OwnKeys)
    /\ lost \in SUBSET ItemIds
    /\ calls \in [Calls -> Call]
    /\ \A c \in Calls : Holds(calls[c])
    /\ begun \in 0..MaxCommands
    /\ others \in 0..MaxOthers

\* Whatever commands overlap, and however stale the vault they were built
\* from, every part of every item on the server is under the key its owner and
\* its wrapper lead to: nobody is locked out of an item by an update, a copy or
\* a share (update_cipher, build_share_cipher_body).  The exception is what
\* update_cipher's comment warns of, on a server that keeps an item's key when
\* a body has none: an update or a share built before another client gave the
\* item its key, or update_login_cipher for an item that has one.
ServerItemsOpen ==
    \A i \in ItemIds : Served(i) /\ i \notin lost => ItemOpens(server[i])

\* The owner aside, which a share changes before the next sync brings the item
\* it sent, an item in memory is one that opens: no splice mixes parts under
\* two keys (the answers adopted by update_cipher and upload_attachment).
SharedSince(item) ==
    /\ item.org \in Held
    /\ \E o \in Orgs \cup {None} : ItemOpens([item EXCEPT !.org = o])
MemoryIsWhole ==
    vault # None => \A i \in ItemIds \ lost :
        vault[i] # None => ItemOpens(vault[i]) \/ SharedSince(vault[i])

\* No two items on the server have one key of their own: a copy is readable to
\* those the copy is for, and to nobody because they may read the original
\* (duplicate_cipher).
CopiesAreSeparate ==
    \A i, j \in ItemIds :
        i # j /\ Served(i) /\ Served(j)
          /\ server[i].wrap # None /\ server[j].wrap # None
        => server[i].wrap.key # server[j].wrap.key

\* What is under a key in an item.
Contents(item) ==
    [key |-> RealKey(item), org |-> item.org, fields |-> item.fields,
     past |-> item.past]

\* The server handles a request built from an item as the server has it, of
\* which it keeps no key of old.
Handles(c, from) ==
    /\ calls[c].at = from
    /\ calls'[c] # calls[c] /\ calls'[c] # Idle
    /\ calls[c].read # None
    /\ Served(calls[c].item) /\ calls[c].item \notin lost
    /\ Contents(calls[c].read) = Contents(server[calls[c].item])

\* A save of an item memory had up to date leaves it readable under its key,
\* whichever server it meets (update_cipher: the owning key would "make the item
\* undecryptable for every client"), keeps its history, and puts the password it
\* replaces before it: what the cap pushes out is the oldest
\* (build_update_cipher_body: "Until this existed, saving an item through the
\* editor silently deleted its password history", and its test
\* update_body_caps_the_history_at_five_entries).
Replacing(item, new) ==
    LET key == RealKey(item)
        old == Decrypt(item.fields["password"], key)
    IN  IF Present(old) /\ Decrypt(new.fields["password"], key) # old
        THEN <<item.fields["password"]>> ELSE <<>>
PasswordsAreKept ==
    [][\A c \in Calls : Handles(c, "update.sent") =>
         LET i == calls[c].item
             all == Replacing(server[i], server'[i]) \o server[i].past
             kept == server'[i].past
         IN  /\ ItemOpens(server'[i]) /\ RealKey(server'[i]) = RealKey(server[i])
             /\ Len(kept) = IF Len(all) < HistoryCap THEN Len(all) ELSE HistoryCap
             /\ \A n \in DOMAIN kept : kept[n] = all[n]]_vars

\* A share changes who may read an item and nothing else: what it says, its
\* history and its reprompt read the same under the new owner
\* (build_share_cipher_body).
Reading(item) ==
    LET key == RealKey(item) IN
    [fields |-> [p \in Parts |-> Decrypt(item.fields[p], key)],
     past |-> [n \in DOMAIN item.past |-> Decrypt(item.past[n], key)],
     kind |-> item.kind, reprompt |-> item.reprompt]
ShareKeepsContents ==
    [][\A c \in Calls : Handles(c, "share.sent") =>
         LET i == calls[c].item IN
         /\ Reading([server[i] EXCEPT !.reprompt = calls[c].read.reprompt])
              = Reading(server'[i])
         /\ server'[i].org # server[i].org]_vars

\* A request from an up-to-date item leaves every attachment under the item's
\* key that was under it, and puts a new one there; the exception is the share
\* of an item without a key of its own (SharedFilesOpen).
Rekeys(c) == calls[c].at = "share.sent" /\ calls[c].read.wrap = None
FilesKeepOpening ==
    [][\A c \in Calls :
         LET i == calls[c].item IN
         /\ \E at \in {"update.sent", "share.sent", "slot.sent"} : Handles(c, at)
         /\ ~Rekeys(c)
         /\ server[i].org \in Held \cup {None}
         => \A f \in server'[i].files :
              (f \in server[i].files => f.cover = RealKey(server[i]))
                => f.cover = RealKey(server'[i])]_vars

\* An upload that reports success has its bytes on the server, unless the
\* attachment or the item has been deleted since (upload_attachment's two
\* requests).
UploadedIsStored ==
    \A c \in Calls :
        LET i == calls[c].item IN
        calls[c].at = "upload.splice" /\ Served(i)
          /\ calls[c].file \in server[i].files
        => calls[c].file.id \in bytes

\* Every snapshot has all it takes to make the item again, under the keys of
\* the session it was taken in, and one marked completed is of an item that
\* has left for an organisation or is gone (share_cipher_to_collection: "we
\* still hold the data needed to re-create it locally").
SnapshotsTellTheTruth ==
    \A r \in snaps :
        /\ \A p \in Parts :
             Opens(r.blob.fields[p], CipherKey(r.blob, Session))
        /\ r.done /\ Served(r.item) => server[r.item].org \in Held
        /\ r.done => server[r.item] # None

\* The commands that read the vault say the same of it: a password is reported
\* where one can be revealed, the audit takes the live ones, groups those that
\* are alike and finds the breached ones, and the agent's keys and the ones it
\* skipped are the SSH keys counted (get_cipher, reveal_field,
\* audit_vault_passwords, build_sync_summary, classify_ssh_cipher).
ReadersAgree ==
    vault # None =>
        LET revealed(i) == RevealField(vault[i], "password", Session)
            entries == AuditVaultPasswords(vault, Session)
            audit == AuditPasswords(entries)
            summary == BuildSyncSummary(vault, Session)
        IN  /\ \A i \in Ids(vault) :
                 GetCipher(vault[i], Session).hasPassword = (revealed(i) # None)
            /\ entries = {<<i, revealed(i)>> :
                            i \in {j \in Live(vault) : revealed(j) # None}}
            /\ audit.pwned = {e \in entries : e[2] \in Breached}
            /\ \A i, j \in Live(vault) :
                 i # j /\ revealed(i) # None /\ revealed(i) = revealed(j)
                 => \E group \in audit.reused : {i, j} \subseteq group
            /\ summary.counts["sshKey"] =
                 Cardinality(LoadedKeys(vault, Session))
                   + Cardinality(SkippedKeys(vault, Session))

\* An export either fails, because an item that is not in the trash does not
\* open, or the name of a folder or of a collection: one folder created or
\* renamed since the last sync is enough.  Or it gives back, to its password and
\* undamaged only, what every such item and every name reads (export_encrypted,
\* import_encrypted).
ReadsIn(item) ==
    LET key == CipherKey(item, Session) IN
    [p \in Parts |-> LET text == Decrypt(item.fields[p], key) IN
                      IF p = "name" \/ Present(text) THEN text ELSE None]
GivesBack(export, folders, collections) ==
    /\ \A sealed, typed \in FilePasswords, damage \in Damages :
         LET got == ImportEncrypted(
                      Damaged(SealFile(export, sealed), damage), typed)
         IN  IF typed = sealed /\ damage = "none"
             THEN /\ DOMAIN got.items = Live(vault)
                  /\ \A i \in Live(vault) :
                       got.items[i].fields = ReadsIn(vault[i])
                  /\ got.folders = [n \in DOMAIN folders |-> folders[n].text]
             ELSE got = None
    /\ \A i \in Live(vault) :
         PasswordHistory(export.items[i], FileRing(export))
           = PasswordHistory(vault[i], Session)
    /\ \A n \in DOMAIN collections : collections[n].org \in Held =>
         Decrypt(export.collections[n].name,
                 FileRing(export).orgs[collections[n].org])
           = collections[n].name.text
ExportGivesBack ==
    vault # None =>
        \A folders \in FolderLists, collections \in CollectionLists :
            LET export == BuildExport(vault, folders, collections, Session) IN
            IF export = None
            THEN \/ \E i \in Live(vault) :
                      LET key == CipherKey(vault[i], Session) IN
                      \/ \E p \in Parts : ~Opens(vault[i].fields[p], key)
                      \/ \E n \in DOMAIN vault[i].past :
                           ~Opens(vault[i].past[n], key)
                 \/ \E n \in DOMAIN folders : folders[n].under # UserKey
                 \/ \E n \in DOMAIN collections :
                      /\ collections[n].org \in Held
                      /\ collections[n].name.under # collections[n].org
            ELSE GivesBack(export, folders, collections)

\* The attachments of a shared item open for those it was shared with, as what
\* else it holds does: build_share_cipher_body "re-encrypts every encrypted
\* field".  They do not: it leaves them under the old owner's key, unless the
\* item has a key of its own.
SharedFilesOpen ==
    \A c \in Calls :
        LET i == calls[c].item IN
        calls[c].at = "share.mark" /\ Served(i) =>
            \A f \in calls[c].read.files \cap server[i].files :
                f.cover = RealKey(calls[c].read) => f.cover = RealKey(server[i])
=============================================================================
