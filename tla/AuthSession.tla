---------------------------- MODULE AuthSession ----------------------------
(***************************************************************************)
(* The unlocked-vault slot of Clavix: the session in memory, the parked    *)
(* second-factor login, and session.json, under concurrent Tauri commands. *)
(*                                                                         *)
(* A command is an async function on a multi-threaded runtime.  It holds a *)
(* mutex for one lock window at a time and never across an await, so each  *)
(* lock window, file operation and awaited answer is an action, and what   *)
(* the function keeps in local variables meanwhile is its entry in calls.  *)
(*                                                                         *)
(* An account stands for its server, its email and its user key at once; a *)
(* definition that mixes two of them shows as two different accounts in    *)
(* one record.  The server, the authenticator and the clock are the        *)
(* environment: any answer the client code distinguishes may come.         *)
(***************************************************************************)
EXTENDS Naturals

CONSTANTS
    Accounts,   \* accounts a user can sign in to
    ServerOf,   \* ServerOf[a]: the base URL of account a
    Calls,      \* command invocations that may be in flight together
    Commands,   \* the commands this instance allows
    MaxSeq,     \* bound on the refresh tokens one account is issued
    ExportKey,  \* the key of an encrypted export file, no account's key
    Clear,      \* stands where a sealing key would: the token is plaintext
    None

ASSUME AccountsAssumption ==
    /\ ExportKey \notin Accounts
    /\ Clear \notin Accounts \cup {ExportKey}
    /\ None \notin Accounts
ASSUME MaxSeqAssumption == MaxSeq \in Nat

CommandNames == {"login", "unlock", "enroll", "disenroll", "export", "api"}
ASSUME CommandsAssumption == Commands \subseteq CommandNames

VARIABLES
    session,  \* AppState.session: the open vault, or None
    pending,  \* AppState.pending_2fa: the parked login, or None
    file,     \* session.json, or None
    calls,    \* calls[c]: where invocation c stands and what it holds
    issued    \* issued[a]: refresh tokens the server has issued to a

vars == <<session, pending, file, calls, issued>>

-----------------------------------------------------------------------------
(* Values.                                                                 *)

Keys == Accounts \cup {ExportKey}

Token == [acct : Accounts, seq : 0..MaxSeq]
ASSUME NoneAssumption == None \notin Keys \cup Token

Session ==
    [origin  : {"server", "offlineCache", "exportFile"},
     client  : Accounts \cup {None},
     tokens  : Token \cup {None},
     expires : {"none", "fresh", "due"},
     key     : Keys]

Pending == [acct : Accounts, stale : BOOLEAN]

\* email and encKey are one account's when persist_session wrote them; token is
\* sealed under sealedBy, or stored in the legacy clear-text field; wrap is the
\* user key the Yubikey block releases.
PersistedSession ==
    [email    : Accounts,
     encKey   : Accounts,
     token    : Token,
     sealedBy : Keys \cup {Clear},
     wrap     : Keys \cup {None}]

Steps ==
    {"idle",
     "login.answer", "login.store",
     "twofa.answer", "twofa.store", "twofa.clear",
     "unlock.touch", "unlock.answer", "unlock.store",
     "enroll.touch", "enroll.save", "disenroll.save",
     "export.store",
     "api.answer", "api.seal", "api.apply", "api.load", "api.save",
     "api.take", "api.sent"}

Call ==
    [at    : Steps,
     acct  : Accounts \cup {None},
     key   : Keys \cup {None},
     token : Token \cup {None},
     snap  : PersistedSession \cup {None}]

At(step) ==
    [at |-> step, acct |-> None, key |-> None, token |-> None, snap |-> None]
Idle == At("idle")

Goto(c, call) == calls' = [calls EXCEPT ![c] = call]
Return(c) == Goto(c, Idle)

-----------------------------------------------------------------------------
(* Helpers of services/auth.rs.                                            *)

\* Tokens an answer of a's server can carry: a newly issued refresh token, or
\* (an empty refresh_token field) the one that was sent.
NewToken(a) == [acct |-> a, seq |-> issued[a] + 1]
Issue(a) ==
    /\ issued[a] < MaxSeq
    /\ issued' = [issued EXCEPT ![a] = @ + 1]

\* A server refuses a refresh token it did not issue to the account.
ServerAccepts(c) == calls[c].token.acct = calls[c].acct

\* recover_refresh_token: the sealed field needs the key it was sealed under.
CanRecover(persisted, key) == persisted.sealedBy \in {key, Clear}

\* compute_expires_at leaves a deadline that may already be inside the 60 s
\* margin, so a fresh deadline can be due at any later instant.
ServerSession(a, key, token) ==
    [origin |-> "server", client |-> a, tokens |-> token,
     expires |-> "fresh", key |-> key]

StandaloneSession(origin, key) ==
    [origin |-> origin, client |-> None, tokens |-> None,
     expires |-> "none", key |-> key]

\* persist_session: a fresh login drops any earlier Yubikey wrap.
Persisted(a, key, token) ==
    [email |-> a, encKey |-> key, token |-> token, sealedBy |-> key,
     wrap |-> None]

\* Slip: a legacy file stays legacy.
ResealedAsBefore(persisted, token, key) ==
    [persisted EXCEPT !.token = token,
                      !.sealedBy = IF @ = Clear THEN Clear ELSE key]

\* The write the unlocks and the refresh share: the legacy field is dropped.
Resealed(persisted, token, key) ==
    [persisted EXCEPT !.token = token, !.sealedBy = key]

Init ==
    /\ session = None
    /\ pending = None
    /\ issued = [a \in Accounts |-> 0]
    /\ calls = [c \in Calls |-> Idle]
    /\ file \in {None} \cup
         [email : Accounts, encKey : Accounts, token : Token,
          sealedBy : Accounts \cup {Clear}, wrap : {None}]
    /\ file # None =>
         /\ file.encKey = file.email
         /\ file.token = [acct |-> file.email, seq |-> 0]
         /\ file.sealedBy \in {file.email, Clear}

-----------------------------------------------------------------------------
(* login: password grant, first factor.                                    *)

\* ensure_server_matches_active_session
ServerMatchesActiveSession(a) ==
    session # None =>
        /\ session.client # None
        /\ ServerOf[session.client] = ServerOf[a]

LoginStart(c, a) ==
    /\ "login" \in Commands
    /\ calls[c] = Idle
    /\ ServerMatchesActiveSession(a)
    /\ Goto(c, [At("login.answer") EXCEPT !.acct = a])
    /\ UNCHANGED <<session, pending, file, issued>>

\* Success: the pending slot goes, session.json is written, then (next window)
\* the session is stored.
LoginSuccess(c) ==
    LET a == calls[c].acct IN
    /\ calls[c].at = "login.answer"
    /\ Issue(a)
    /\ pending' = None
    /\ file' = Persisted(a, a, NewToken(a))
    /\ Goto(c, [At("login.store") EXCEPT
                  !.acct = a, !.key = a, !.token = NewToken(a)])
    /\ UNCHANGED session

LoginTwoFactorRequired(c) ==
    /\ calls[c].at = "login.answer"
    /\ pending' = [acct |-> calls[c].acct, stale |-> FALSE]
    /\ Return(c)
    /\ UNCHANGED <<session, file, issued>>

\* The success answer carries no usable key, or writing session.json fails:
\* the pending slot is already gone.
LoginUnusable(c) ==
    /\ calls[c].at = "login.answer"
    /\ pending' = None
    /\ Return(c)
    /\ UNCHANGED <<session, file, issued>>

\* Any error answer to a request whose command just returns the error.
RequestFails(c) ==
    /\ calls[c].at \in {"login.answer", "unlock.answer", "api.answer",
                        "unlock.touch", "enroll.touch"}
    /\ Return(c)
    /\ UNCHANGED <<session, pending, file, issued>>

-----------------------------------------------------------------------------
(* login_with_two_factor and cancel_two_factor.                            *)

\* with_pending_two_factor: a stale slot is wiped and the call refused.
TwoFactorStart(c) ==
    /\ "login" \in Commands
    /\ calls[c] = Idle
    /\ pending # None
    /\ IF pending.stale
         THEN pending' = None /\ UNCHANGED calls
         ELSE /\ Goto(c, [At("twofa.answer") EXCEPT !.acct = pending.acct])
              /\ UNCHANGED pending
    /\ UNCHANGED <<session, file, issued>>

\* A wrong code keeps the slot for a retry, any other error drops it.
TwoFactorFails(c) ==
    /\ calls[c].at = "twofa.answer"
    /\ pending' \in {pending, None}
    /\ Return(c)
    /\ UNCHANGED <<session, file, issued>>

\* Slip: the slot is read again after the await.
TwoFactorAccountNow(c) ==
    IF pending = None THEN calls[c].acct ELSE pending.acct

\* What the second factor signs in to is what was copied out of the slot.
TwoFactorAccount(c) == calls[c].acct

TwoFactorSuccess(c) ==
    LET a == TwoFactorAccount(c) IN
    /\ calls[c].at = "twofa.answer"
    /\ Issue(a)
    /\ file' = Persisted(calls[c].acct, a, NewToken(a))
    /\ Goto(c, [At("twofa.store") EXCEPT
                  !.acct = calls[c].acct, !.key = a, !.token = NewToken(a)])
    /\ UNCHANGED <<session, pending>>

\* Last window of login_with_two_factor: whatever is parked now is dropped.
TwoFactorClear(c) ==
    /\ calls[c].at = "twofa.clear"
    /\ pending' = None
    /\ Return(c)
    /\ UNCHANGED <<session, file, issued>>

CancelTwoFactor ==
    /\ pending # None
    /\ pending' = None
    /\ UNCHANGED <<session, file, calls, issued>>

\* The parked login outlives PENDING_2FA_TTL_SECS.
PendingAges ==
    /\ pending # None
    /\ pending' = [pending EXCEPT !.stale = TRUE]
    /\ UNCHANGED <<session, file, calls, issued>>

\* clear_pending_two_factor_if_stale, on every watchdog tick.
SweepPending ==
    /\ pending # None
    /\ pending.stale
    /\ pending' = None
    /\ UNCHANGED <<session, file, calls, issued>>

-----------------------------------------------------------------------------
(* unlock and unlock_with_yubikey: the same flow once the key is known.    *)

\* The master password opens encKey; the refresh token must open too.
UnlockStart(c) ==
    /\ "unlock" \in Commands
    /\ calls[c] = Idle
    /\ file # None
    /\ CanRecover(file, file.encKey)
    /\ Goto(c, [At("unlock.answer") EXCEPT
                  !.acct = file.email, !.key = file.encKey,
                  !.token = file.token, !.snap = file])
    /\ UNCHANGED <<session, pending, file, issued>>

YubikeyTouchStart(c) ==
    /\ "unlock" \in Commands
    /\ calls[c] = Idle
    /\ file # None
    /\ file.wrap # None
    /\ Goto(c, [At("unlock.touch") EXCEPT !.snap = file])
    /\ UNCHANGED <<session, pending, file, issued>>

\* Slip: the released key is not tried on the account's RSA key.
OpensAnyPrivateKey(persisted, key) == key \in Keys

\* decrypt_private_key authenticates: only the account's own key opens it.
OpensPrivateKey(persisted, key) == key = persisted.encKey

\* The released key must open the account's RSA key and the refresh token;
\* otherwise the command fails and leaves the wrap in place (RequestFails).
YubikeyReleased(c) ==
    LET snap == calls[c].snap IN
    /\ calls[c].at = "unlock.touch"
    /\ OpensPrivateKey(snap, snap.wrap)
    /\ CanRecover(snap, snap.wrap)
    /\ Goto(c, [At("unlock.answer") EXCEPT
                  !.acct = snap.email, !.key = snap.wrap,
                  !.token = snap.token, !.snap = snap])
    /\ UNCHANGED <<session, pending, file, issued>>

\* Transport failure only: the key is known, so the cache opens read-only.
UnlockOffline(c) ==
    /\ calls[c].at = "unlock.answer"
    /\ session' = StandaloneSession("offlineCache", calls[c].key)
    /\ Return(c)
    /\ UNCHANGED <<pending, file, issued>>

\* The write is the snapshot read before the await, with the new token.
UnlockSave(c, token) ==
    /\ file' = Resealed(calls[c].snap, token, calls[c].key)
    /\ Goto(c, [At("unlock.store") EXCEPT
                  !.acct = calls[c].acct, !.key = calls[c].key, !.token = token])
    /\ UNCHANGED <<session, pending>>

UnlockOnline(c) ==
    /\ calls[c].at = "unlock.answer"
    /\ ServerAccepts(c)
    /\ \/ UnlockSave(c, calls[c].token) /\ UNCHANGED issued
       \/ Issue(calls[c].acct) /\ UnlockSave(c, NewToken(calls[c].acct))

\* store_session, the last window of login, login_with_two_factor and unlock.
StoreSession(c) ==
    /\ calls[c].at \in {"login.store", "twofa.store", "unlock.store"}
    /\ session' = ServerSession(calls[c].acct, calls[c].key, calls[c].token)
    /\ IF calls[c].at = "twofa.store" THEN Goto(c, At("twofa.clear"))
                                      ELSE Return(c)
    /\ UNCHANGED <<pending, file, issued>>

-----------------------------------------------------------------------------
(* enroll_yubikey_unlock, disenroll_yubikey_unlock.                        *)

EnrollStart(c) ==
    /\ "enroll" \in Commands
    /\ calls[c] = Idle
    /\ session # None
    /\ Goto(c, [At("enroll.touch") EXCEPT !.key = session.key])
    /\ UNCHANGED <<session, pending, file, issued>>

\* session.json is read only after the touch.
EnrollLoad(c) ==
    /\ calls[c].at = "enroll.touch"
    /\ file # None
    /\ Goto(c, [At("enroll.save") EXCEPT !.key = calls[c].key, !.snap = file])
    /\ UNCHANGED <<session, pending, file, issued>>

EnrollSave(c) ==
    /\ calls[c].at = "enroll.save"
    /\ file' = [calls[c].snap EXCEPT !.wrap = calls[c].key]
    /\ Return(c)
    /\ UNCHANGED <<session, pending, issued>>

\* session.json is read before the key derivation that checks the password,
\* and that reading is written back after it.
DisenrollLoad(c) ==
    /\ "disenroll" \in Commands
    /\ calls[c] = Idle
    /\ file # None
    /\ Goto(c, [At("disenroll.save") EXCEPT !.snap = file])
    /\ UNCHANGED <<session, pending, file, issued>>

DisenrollSave(c) ==
    /\ calls[c].at = "disenroll.save"
    /\ file' = [calls[c].snap EXCEPT !.wrap = None]
    /\ Return(c)
    /\ UNCHANGED <<session, pending, issued>>

-----------------------------------------------------------------------------
(* open_export_file: the check and the store are two lock windows.         *)

ExportStart(c) ==
    /\ "export" \in Commands
    /\ calls[c] = Idle
    /\ session = None
    /\ Goto(c, At("export.store"))
    /\ UNCHANGED <<session, pending, file, issued>>

\* The file opens, or its password is wrong and nothing changes.
ExportStore(c) ==
    /\ calls[c].at = "export.store"
    /\ session' \in {session, StandaloneSession("exportFile", ExportKey)}
    /\ Return(c)
    /\ UNCHANGED <<pending, file, issued>>

-----------------------------------------------------------------------------
(* A command that writes to, or syncs with, the server: ensure_fresh_tokens*)
(* and then one request with the session's client and access token.        *)

\* First window: the write firewall, then the deadline.
CanReachServer(s) == s.client # None /\ s.tokens # None /\ s.expires # "none"

ApiStart(c) ==
    /\ "api" \in Commands
    /\ calls[c] = Idle
    /\ session # None
    /\ CanReachServer(session)
    /\ IF session.expires = "due"
         THEN Goto(c, [At("api.answer") EXCEPT
                         !.acct = session.client, !.token = session.tokens])
         ELSE Goto(c, At("api.take"))
    /\ UNCHANGED <<session, pending, file, issued>>

ApiRefreshed(c) ==
    /\ calls[c].at = "api.answer"
    /\ ServerAccepts(c)
    /\ \/ /\ Goto(c, [At("api.seal") EXCEPT !.token = calls[c].token])
          /\ UNCHANGED issued
       \/ /\ Issue(calls[c].acct)
          /\ Goto(c, [At("api.seal") EXCEPT !.token = NewToken(calls[c].acct)])
    /\ UNCHANGED <<session, pending, file>>

\* Second window: the new token is sealed under the key of the session that is
\* open now; with none open the command fails.
ApiSeal(c) ==
    /\ calls[c].at = "api.seal"
    /\ IF session = None
         THEN Return(c)
         ELSE Goto(c, [At("api.apply") EXCEPT
                         !.token = calls[c].token, !.key = session.key])
    /\ UNCHANGED <<session, pending, file, issued>>

\* Third window: a session with tokens takes the new ones; any session takes
\* the new deadline.
Refreshed(s, token) ==
    [s EXCEPT !.tokens = IF @ = None THEN None ELSE token, !.expires = "fresh"]

ApiApply(c) ==
    /\ calls[c].at = "api.apply"
    /\ session' = IF session = None THEN None
                                    ELSE Refreshed(session, calls[c].token)
    /\ Goto(c, [calls[c] EXCEPT !.at = "api.load"])
    /\ UNCHANGED <<pending, file, issued>>

\* Slip: the rewrite does not look whether there is a file.
ApiLoadBlindly(c) ==
    /\ calls[c].at = "api.load"
    /\ Goto(c, [calls[c] EXCEPT !.at = "api.save", !.snap = file])
    /\ UNCHANGED <<session, pending, file, issued>>

\* The file rewrite: whatever session.json holds now gets the sealed token.
ApiLoad(c) ==
    /\ calls[c].at = "api.load"
    /\ IF file = None
         THEN Goto(c, At("api.take"))
         ELSE Goto(c, [calls[c] EXCEPT !.at = "api.save", !.snap = file])
    /\ UNCHANGED <<session, pending, file, issued>>

ApiSave(c) ==
    /\ calls[c].at = "api.save"
    /\ file' = Resealed(calls[c].snap, calls[c].token, calls[c].key)
    /\ Goto(c, At("api.take"))
    /\ UNCHANGED <<session, pending, issued>>

\* Slip: no backstop, the first window's check is trusted.
CanSendUnchecked(s) == s \in Session

\* Session::client and Session::access_token: the backstop behind the firewall.
CanSend(s) == s.client # None /\ s.tokens # None

\* The command re-reads the slot, which may hold another session by now.
ApiTake(c) ==
    /\ calls[c].at = "api.take"
    /\ IF session # None /\ CanSend(session)
         THEN Goto(c, [At("api.sent") EXCEPT
                         !.acct = session.client, !.token = session.tokens])
         ELSE Return(c)
    /\ UNCHANGED <<session, pending, file, issued>>

\* What the answer changes in the vault is VaultSync's; here the call ends.
ApiDone(c) ==
    /\ calls[c].at = "api.sent"
    /\ Return(c)
    /\ UNCHANGED <<session, pending, file, issued>>

-----------------------------------------------------------------------------
(* lock, logout, auto-lock; time; the process dying.                       *)

\* lock, tray::lock_session and auto_lock::lock_now empty the same two slots, one
\* window after the other; no command reads both, so one step stands for the two.
Lock ==
    /\ session' = None
    /\ pending' = None
    /\ UNCHANGED <<file, calls, issued>>

Logout ==
    /\ session' = None
    /\ pending' = None
    /\ file' = None
    /\ UNCHANGED <<calls, issued>>

TokensAge ==
    /\ session # None
    /\ session.expires = "fresh"
    /\ session' = [session EXCEPT !.expires = "due"]
    /\ UNCHANGED <<pending, file, calls, issued>>

\* Memory is lost, session.json (written by rename) is what was saved last.
Crash ==
    /\ session' = None
    /\ pending' = None
    /\ calls' = [c \in Calls |-> Idle]
    /\ UNCHANGED <<file, issued>>

LoginSteps(c) ==
    \/ \E a \in Accounts : LoginStart(c, a)
    \/ LoginSuccess(c)
    \/ LoginTwoFactorRequired(c)
    \/ LoginUnusable(c)
    \/ TwoFactorStart(c)
    \/ TwoFactorFails(c)
    \/ TwoFactorSuccess(c)
    \/ TwoFactorClear(c)
    \/ StoreSession(c)
    \/ RequestFails(c)

UnlockSteps(c) ==
    \/ UnlockStart(c)
    \/ YubikeyTouchStart(c)
    \/ YubikeyReleased(c)
    \/ UnlockOffline(c)
    \/ UnlockOnline(c)
    \/ EnrollStart(c)
    \/ EnrollLoad(c)
    \/ EnrollSave(c)
    \/ DisenrollLoad(c)
    \/ DisenrollSave(c)
    \/ ExportStart(c)
    \/ ExportStore(c)

ApiSteps(c) ==
    \/ ApiStart(c)
    \/ ApiRefreshed(c)
    \/ ApiSeal(c)
    \/ ApiApply(c)
    \/ ApiLoad(c)
    \/ ApiSave(c)
    \/ ApiTake(c)
    \/ ApiDone(c)

SlotSteps ==
    \/ CancelTwoFactor
    \/ PendingAges
    \/ SweepPending
    \/ Lock
    \/ Logout
    \/ TokensAge
    \/ Crash

Next ==
    \/ SlotSteps
    \/ \E c \in Calls : LoginSteps(c) \/ UnlockSteps(c) \/ ApiSteps(c)

Spec == Init /\ [][Next]_vars

-----------------------------------------------------------------------------
(* Properties.                                                             *)

\* The local variables a command holds at each of its steps.
HasAccount(call) ==
    call.at \in {"login.answer", "twofa.answer", "unlock.answer", "api.answer",
                "login.store", "twofa.store", "unlock.store"}
    => call.acct \in Accounts
HasKey(call) ==
    call.at \in {"unlock.answer", "login.store", "twofa.store", "unlock.store",
                "enroll.touch", "enroll.save", "api.apply", "api.load", "api.save"}
    => call.key \in Keys
HasToken(call) ==
    call.at \in {"unlock.answer", "login.store", "twofa.store", "unlock.store",
                "api.answer", "api.seal", "api.apply", "api.load", "api.save"}
    => call.token \in Token
HasSnapshot(call) ==
    call.at \in {"unlock.touch", "unlock.answer", "enroll.save",
                "disenroll.save", "api.save"}
    => call.snap \in PersistedSession

\* The variables have their types, and a command in flight holds what its next
\* step reads.
TypeOK ==
    /\ session \in Session \cup {None}
    /\ pending \in Pending \cup {None}
    /\ file \in PersistedSession \cup {None}
    /\ issued \in [Accounts -> 0..MaxSeq]
    /\ calls \in [Calls -> Call]
    /\ \A c \in Calls : /\ HasAccount(calls[c])
                       /\ HasKey(calls[c])
                       /\ HasToken(calls[c])
                       /\ HasSnapshot(calls[c])

\* A session with no server behind it (offline cache, export file) never gains
\* a client or tokens, and one with a server never loses them: a refresh that
\* was in flight when the slot was replaced applies its answer to whichever
\* session is open, and must not turn a read-only vault into a writable one.
ReadOnlyStaysReadOnly ==
    session # None =>
        /\ (session.origin = "server") <=> (session.client # None)
        /\ (session.origin = "server") <=> (session.tokens # None)

\* The key that decrypts the open vault is the key of the account whose server
\* the session talks to, though login, second factor and unlock each carry the
\* two across awaits in which the parked login and session.json can change.
SessionIsOneAccount ==
    (session # None /\ session.client # None) => session.key = session.client

\* session.json never pairs one account's address with another's wrapped key:
\* the master password of the account it names opens it after any crash.
FileIsOneAccount == file # None => file.encKey = file.email

\* Requests leave only while a writable vault is open: the firewall at the head
\* of ensure_fresh_tokens is checked before an await, so what enforces it when
\* the slot is replaced meanwhile is the second check where the token is taken.
Gate == INSTANCE WriteGate WITH
    Requesters <- Calls,
    slot <- IF session = None THEN "closed"
            ELSE IF session.origin = "server" THEN "writable" ELSE "readOnly",
    sent <- {c \in Calls : calls[c].at = "api.sent"}

ImplementsWriteGate == Gate!Spec

-----------------------------------------------------------------------------
(* What the documentation says and concurrent commands break.              *)

\* The master password that opens session.json's user key also recovers its
\* refresh token: ensure_fresh_tokens says it seals the token "while we still
\* hold the session lock", so under the key of the account it writes for.
StoredTokenOpens == file # None => CanRecover(file, file.encKey)

\* Once session.json holds the refresh token sealed, it is written in clear text
\* again only by a Yubikey command that saves the file it read before its touch or
\* its key derivation, over the migration another command has made meanwhile.
PlaintextNeverReturns ==
    [][(file # None /\ file' # None /\ file.sealedBy # Clear /\ file'.sealedBy = Clear)
         => \E c \in Calls : /\ calls[c].at \in {"enroll.save", "disenroll.save"}
                             /\ calls'[c] = Idle
                             /\ calls[c].snap.sealedBy = Clear]_file
=============================================================================
