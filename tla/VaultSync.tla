----------------------------- MODULE VaultSync -----------------------------
(***************************************************************************)
(* The decrypted vault and its encrypted copy on disk: sync, the commands  *)
(* that edit the vault on the server and then in memory, the offline cache *)
(* they are painted from, and the lock and logout they race with.          *)
(*                                                                         *)
(* The session slot is AuthSession's, reduced to what a vault depends on:  *)
(* the account its client talks to, the key, and the vault.  An answer is  *)
(* applied to the session that is open when it comes.  sync applies it,    *)
(* and writes the cache, inside one window of the session lock; logout     *)
(* touches session.json and the cache outside any, so that window is two   *)
(* steps here, and the lock a variable.                                    *)
(***************************************************************************)
EXTENDS Naturals

CONSTANTS
    Accounts,   \* accounts a user can sign in to
    Calls,      \* command invocations that may be in flight together
    Edits,      \* changes a user may make to an account's vault
    ExportKey,  \* the key of an export file's vault
    None

ASSUME ExportAssumption == ExportKey \notin Accounts

Keys == Accounts \cup {ExportKey}

\* A vault is the changes it shows.
Vault == [edits : SUBSET Edits]
Session ==
    [client : Accounts \cup {None}, key : Keys, vault : Vault \cup {None}]
Blob == [key : Keys, vault : Vault]

ASSUME NoneAssumption ==
    /\ None \notin Keys
    /\ None \notin Vault
    /\ None \notin Edits
    /\ None \notin Calls
    /\ None \notin Session
    /\ None \notin Blob

VARIABLES
    session,  \* AppState.session
    holder,   \* the sync that holds the session lock, or None
    stored,   \* the account session.json names, or None
    cache,    \* vault_cache: a blob per account key, or None
    made,     \* made[e]: the account whose server has accepted e, or None
    calls     \* calls[c]: where an invocation stands, what it holds

\* History, for the properties only.
VARIABLES
    gone,   \* a logout has returned and no command to open a vault followed
    alone,  \* no command to open a vault was in flight when it began
    wiped   \* its clear_all succeeded

history == <<gone, alone, wiped>>
vars == <<session, holder, stored, cache, made, calls, gone, alone, wiped>>

Opening == {"login.answer", "unlock.answer", "open.store", "export.store"}
Leaving == {"out.file", "out.cache"}
Steps == {"idle", "sync.sent", "sync.answer", "sync.save",
          "edit.sent", "edit.splice"} \cup Opening \cup Leaving

Call ==
    [at    : Steps,
     acct  : Accounts \cup {None},  \* whose server, or whose sign-in
     edit  : Edits \cup {None},
     vault : Vault \cup {None},     \* the answer
     row   : Accounts \cup {None},  \* the cache row a sync will write,
     key   : Keys \cup {None}]      \* and the key it is sealed under
Idle ==
    [at |-> "idle", acct |-> None, edit |-> None, vault |-> None,
     row |-> None, key |-> None]

Goto(c, step) == calls' = [calls EXCEPT ![c].at = step]
Return(c) == calls' = [calls EXCEPT ![c] = Idle]

LoggingOut == \E c \in Calls : calls[c].at \in Leaving

\* The app starts, with the account session.json names or without one.
StartsWith(account) ==
    /\ session = None
    /\ holder = None
    /\ stored = account
    /\ cache = [a \in Accounts |-> None]
    /\ made = [e \in Edits |-> None]
    /\ calls = [c \in Calls |-> Idle]
    /\ gone = FALSE
    /\ alone = FALSE
    /\ wiped = FALSE

Init == StartsWith(None)

-----------------------------------------------------------------------------
(* sync.                                                                   *)

\* Slip: ensure_fresh_tokens and the client accessor let any session through.
AnySession(s) == s \in Session

\* What ensure_fresh_tokens and the client accessor ask for.
CanReachServer(s) == s.client # None

\* First window: the client of the open session.
SyncStart(c) ==
    /\ calls[c] = Idle
    /\ holder = None
    /\ session # None
    /\ CanReachServer(session)
    /\ calls' = [calls EXCEPT ![c].at = "sync.sent", ![c].acct = session.client]
    /\ UNCHANGED <<session, holder, stored, cache, made, history>>

\* The server's snapshot, taken when it handles the request.
ServerAnswers(c) ==
    /\ calls[c].at = "sync.sent"
    /\ calls' = [calls EXCEPT
         ![c].at = "sync.answer",
         ![c].vault = [edits |-> {e \in Edits : made[e] = calls[c].acct}]]
    /\ UNCHANGED <<session, holder, stored, cache, made, history>>

\* Any request, or the session being closed when its answer comes.
CallFails(c) ==
    /\ calls[c].at \in {"sync.sent", "sync.answer", "edit.sent",
                        "login.answer", "unlock.answer"}
    /\ Return(c)
    /\ UNCHANGED <<session, holder, stored, cache, made, history>>

\* Slip: the lock is let go before the cache is written.
HeldNoLonger(c) == None

\* The lock is held to the end of the function.
HeldBy(c) == c

\* Second window, up to the reading of session.json and the encryption.
SyncApplies(c) ==
    /\ calls[c].at = "sync.answer"
    /\ holder = None
    /\ session # None
    /\ holder' = HeldBy(c)
    /\ calls' = [calls EXCEPT ![c].at = "sync.save", ![c].row = stored,
                              ![c].key = session.key]
    /\ UNCHANGED <<session, stored, cache, made, history>>

WithVault(s, vault) == IF s = None THEN None ELSE [s EXCEPT !.vault = vault]

\* The row is written; without a session.json, or when
\* SQLite fails, it is not, and the vault in memory is replaced all the same.
SyncSaves(c) ==
    /\ calls[c].at = "sync.save"
    /\ \/ UNCHANGED cache
       \/ /\ calls[c].row # None
          /\ cache' = [cache EXCEPT ![calls[c].row] =
                         [key |-> calls[c].key, vault |-> calls[c].vault]]
    /\ session' = WithVault(session, calls[c].vault)
    /\ holder' = None
    /\ Return(c)
    /\ UNCHANGED <<stored, made, history>>

-----------------------------------------------------------------------------
(* create_folder, and every command that asks the server first and splices *)
(* what it accepted into the vault in memory.                              *)

EditStart(c, e) ==
    /\ calls[c] = Idle
    /\ holder = None
    /\ session # None
    /\ CanReachServer(session)
    /\ made[e] = None
    /\ \A d \in Calls : calls[d].edit # e
    /\ calls' = [calls EXCEPT ![c].at = "edit.sent",
                              ![c].acct = session.client, ![c].edit = e]
    /\ UNCHANGED <<session, holder, stored, cache, made, history>>

\* The server accepts the change, whether or not its answer will be heard.
ServerAccepts(c) ==
    /\ calls[c].at = "edit.sent"
    /\ made' = [made EXCEPT ![calls[c].edit] = calls[c].acct]
    /\ \/ Goto(c, "edit.splice")
       \/ Return(c)
    /\ UNCHANGED <<session, holder, stored, cache, history>>

\* Slip: the vault shows the change as soon as it is sent.
SplicedEarly == {"edit.sent", "edit.splice"}

SplicedAt == {"edit.splice"}

\* Into whichever vault is open now.
EditSplices(c) ==
    /\ calls[c].at \in SplicedAt
    /\ holder = None
    /\ session' = IF session # None /\ session.vault # None
                    THEN [session EXCEPT !.vault.edits = @ \cup {calls[c].edit}]
                    ELSE session
    /\ Return(c)
    /\ UNCHANGED <<holder, stored, cache, made, history>>

-----------------------------------------------------------------------------
(* Opening a vault: login, the second factor and the unlocks, which write  *)
(* session.json and then store the session; the offline unlock; an export. *)

\* A logout awaits nothing: nobody clicks between its windows.
OpeningStarts ==
    /\ ~LoggingOut
    /\ gone' = FALSE
    /\ UNCHANGED <<alone, wiped>>

\* ensure_server_matches_active_session; every account is on one server.
LoginStart(c, a) ==
    /\ calls[c] = Idle
    /\ OpeningStarts
    /\ holder = None
    /\ session # None => CanReachServer(session)
    /\ calls' = [calls EXCEPT ![c].at = "login.answer", ![c].acct = a]
    /\ UNCHANGED <<session, holder, stored, cache, made>>

UnlockStart(c) ==
    /\ calls[c] = Idle
    /\ OpeningStarts
    /\ stored # None
    /\ calls' = [calls EXCEPT ![c].at = "unlock.answer", ![c].acct = stored]
    /\ UNCHANGED <<session, holder, stored, cache, made>>

\* Both write session.json before they store the session.
OpenSaves(c) ==
    /\ calls[c].at \in {"login.answer", "unlock.answer"}
    /\ stored' = calls[c].acct
    /\ Goto(c, "open.store")
    /\ UNCHANGED <<session, holder, cache, made, history>>

Opened(client, key, vault) == [client |-> client, key |-> key, vault |-> vault]

OpenStores(c) ==
    /\ calls[c].at = "open.store"
    /\ holder = None
    /\ session' = Opened(calls[c].acct, calls[c].acct, None)
    /\ Return(c)
    /\ UNCHANGED <<holder, stored, cache, made, history>>

\* The server cannot be reached: the account's key, and no client.
UnlockOffline(c) ==
    /\ calls[c].at = "unlock.answer"
    /\ holder = None
    /\ session' = Opened(None, calls[c].acct, None)
    /\ Return(c)
    /\ UNCHANGED <<holder, stored, cache, made, history>>

\* open_export_file: no vault may be open at the check.
ExportStart(c) ==
    /\ calls[c] = Idle
    /\ OpeningStarts
    /\ holder = None
    /\ session = None
    /\ Goto(c, "export.store")
    /\ UNCHANGED <<session, holder, stored, cache, made>>

ExportStores(c) ==
    /\ calls[c].at = "export.store"
    /\ holder = None
    /\ session' = Opened(None, ExportKey, [edits |-> {}])
    /\ Return(c)
    /\ UNCHANGED <<holder, stored, cache, made, history>>

\* load_cached_vault: the row of the account session.json names, if the open
\* session's key decrypts it.
LoadCached ==
    /\ holder = None
    /\ session # None
    /\ stored # None
    /\ cache[stored] # None
    /\ cache[stored].key = session.key
    /\ session' = WithVault(session, cache[stored].vault)
    /\ UNCHANGED <<holder, stored, cache, made, calls, history>>

-----------------------------------------------------------------------------
(* lock, logout, and the process dying.                                    *)

Lock ==
    /\ holder = None
    /\ session' = None
    /\ UNCHANGED <<holder, stored, cache, made, calls, history>>

LogoutStart(c) ==
    /\ calls[c] = Idle
    /\ holder = None
    /\ session' = None
    /\ Goto(c, "out.file")
    /\ gone' = FALSE
    /\ alone' = \A d \in Calls : calls[d].at \notin Opening
    /\ wiped' = FALSE
    /\ UNCHANGED <<holder, stored, cache, made>>

\* An error of clear_session ends the command with the cache untouched.
LogoutForgets(c) ==
    /\ calls[c].at = "out.file"
    /\ \/ stored' = None /\ Goto(c, "out.cache")
       \/ Return(c) /\ UNCHANGED stored
    /\ UNCHANGED <<session, holder, cache, made, history>>

ClearedAll == [a \in Accounts |-> None]

\* A clear_all that fails is only logged: the logout succeeds all the same.
LogoutClears(c) ==
    /\ calls[c].at = "out.cache"
    /\ \/ cache' = ClearedAll /\ wiped' = TRUE
       \/ UNCHANGED cache /\ wiped' = FALSE
    /\ gone' = TRUE
    /\ Return(c)
    /\ UNCHANGED <<session, holder, stored, made, alone>>

\* session.json and the cache are files.
Crash ==
    /\ session' = None
    /\ holder' = None
    /\ calls' = [c \in Calls |-> Idle]
    /\ UNCHANGED <<stored, cache, made, history>>

Next ==
    \/ \E c \in Calls :
        \/ SyncStart(c)
        \/ ServerAnswers(c)
        \/ CallFails(c)
        \/ SyncApplies(c)
        \/ SyncSaves(c)
        \/ \E e \in Edits : EditStart(c, e)
        \/ ServerAccepts(c)
        \/ EditSplices(c)
        \/ UnlockStart(c)
        \/ \E a \in Accounts : LoginStart(c, a)
        \/ OpenSaves(c)
        \/ OpenStores(c)
        \/ UnlockOffline(c)
        \/ ExportStart(c)
        \/ ExportStores(c)
        \/ LogoutStart(c)
        \/ LogoutForgets(c)
        \/ LogoutClears(c)
    \/ LoadCached
    \/ Lock
    \/ Crash

Spec == Init /\ [][Next]_vars

\* Of an app that finds the account of an earlier run.
SpecWithAccount == (\E a \in Accounts : StartsWith(a)) /\ [][Next]_vars

-----------------------------------------------------------------------------
(* Properties.                                                             *)

\* What an invocation holds where its next step reads it.
Holds(call) ==
    /\ call.at \in {"sync.sent", "edit.sent",
                   "login.answer", "unlock.answer", "open.store"}
         => call.acct \in Accounts
    /\ call.at \in {"sync.answer", "sync.save"} => call.vault \in Vault
    /\ call.at = "sync.save" => call.key \in Keys
    /\ call.at \in {"edit.sent", "edit.splice"} => call.edit \in Edits

\* Every variable has its type.
TypeOK ==
    /\ session \in Session \cup {None}
    /\ holder \in Calls \cup {None}
    /\ stored \in Accounts \cup {None}
    /\ cache \in [Accounts -> Blob \cup {None}]
    /\ made \in [Edits -> Accounts \cup {None}]
    /\ calls \in [Calls -> Call]
    /\ \A c \in Calls : Holds(calls[c])
    /\ gone \in BOOLEAN
    /\ alone \in BOOLEAN
    /\ wiped \in BOOLEAN

\* A logout whose clear_all succeeded leaves no vault on disk, and none comes back
\* before the user opens one again: a sync that was awaiting its answer finds the
\* slot empty, and one that was applying it held the lock that logout waits for.
CacheStaysCleared ==
    gone /\ alone /\ wiped => \A a \in Accounts : cache[a] = None

\* Neither the vault on screen nor its copy on disk shows a change that no
\* server has accepted, whatever locks, failures and crashes come in between.
ShowsOnlyAccepted ==
    LET Accepted == {e \in Edits : made[e] # None} IN
    /\ session # None /\ session.vault # None =>
         session.vault.edits \subseteq Accepted
    /\ \A a \in Accounts :
         cache[a] # None => cache[a].vault.edits \subseteq Accepted

-----------------------------------------------------------------------------
(* What the documentation says and concurrent commands break.              *)

\* Violated: after a logout session.json is gone, until the user opens a vault
\* again.  A sign-in (unlock or login) that was awaiting the server when the logout
\* removed the file writes it back and opens the vault.
LogoutIsFinal == gone => stored = None
=============================================================================
