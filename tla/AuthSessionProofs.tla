------------------------- MODULE AuthSessionProofs -------------------------
(***************************************************************************)
(* AuthSession's invariants for every set of accounts and of concurrent    *)
(* commands, and its refinement of WriteGate.                              *)
(***************************************************************************)
EXTENDS AuthSession, TLAPS

\* What makes SessionIsOneAccount inductive: a command that is about to store
\* or persist a session holds one account's client and key, and a snapshot of
\* session.json kept across an await pairs the two as the file does.
HoldsOneAccount(call) ==
    /\ call.at \in {"login.store", "twofa.store", "unlock.store", "unlock.answer"}
         => call.key = call.acct
    /\ call.at \in {"unlock.touch", "unlock.answer", "enroll.save",
                    "disenroll.save", "api.save"}
         => call.snap.encKey = call.snap.email

CallsHoldOneAccount == \A c \in Calls : HoldsOneAccount(calls[c])

IInv ==
    /\ TypeOK
    /\ ReadOnlyStaysReadOnly
    /\ SessionIsOneAccount
    /\ FileIsOneAccount
    /\ CallsHoldOneAccount

CallOK(call) ==
    /\ call \in Call
    /\ HasAccount(call)
    /\ HasKey(call)
    /\ HasToken(call)
    /\ HasSnapshot(call)
    /\ HoldsOneAccount(call)

-----------------------------------------------------------------------------
(* Records the actions build.                                              *)

USE DEF At, Idle

\* An invocation that has returned holds nothing.
LEMMA IdleOK == CallOK(Idle)
BY DEF CallOK, Call, Steps, HasAccount, HasKey, HasToken, HasSnapshot,
       HoldsOneAccount

\* Moving one command to a well-formed step keeps all commands well formed.
LEMMA GotoOK ==
    ASSUME calls \in [Calls -> Call],
           \A c \in Calls : CallOK(calls[c]),
           NEW c \in Calls, NEW call, CallOK(call), Goto(c, call)
    PROVE  /\ calls' \in [Calls -> Call]
           /\ \A d \in Calls : CallOK(calls'[d])
BY DEF Goto, CallOK

\* The two session records are sessions of the right shape.
LEMMA ServerSessionOK ==
    ASSUME NEW a \in Accounts, NEW key \in Keys, NEW token \in Token
    PROVE  /\ ServerSession(a, key, token) \in Session
           /\ ServerSession(a, key, token).origin = "server"
           /\ ServerSession(a, key, token).client # None
           /\ ServerSession(a, key, token).tokens # None
BY AccountsAssumption, NoneAssumption DEF ServerSession, Session, Keys

\* A session with no server behind it has neither client nor tokens.
LEMMA StandaloneSessionOK ==
    ASSUME NEW origin \in {"offlineCache", "exportFile"}, NEW key \in Keys
    PROVE  /\ StandaloneSession(origin, key) \in Session
           /\ StandaloneSession(origin, key).origin # "server"
           /\ StandaloneSession(origin, key).client = None
           /\ StandaloneSession(origin, key).tokens = None
BY DEF StandaloneSession, Session

\* A token the server issues is a token, and the count stays within its bound.
LEMMA IssueOK ==
    ASSUME NEW a \in Accounts, issued \in [Accounts -> 0..MaxSeq], Issue(a)
    PROVE  /\ NewToken(a) \in Token
           /\ issued' \in [Accounts -> 0..MaxSeq]
BY MaxSeqAssumption DEF Issue, NewToken, Token

-----------------------------------------------------------------------------
(* The invariant, and one lemma for each group of actions.                 *)

SlotsOK ==
    /\ session \in Session \cup {None}
    /\ pending \in Pending \cup {None}
    /\ file \in PersistedSession \cup {None}
    /\ issued \in [Accounts -> 0..MaxSeq]
    /\ ReadOnlyStaysReadOnly
    /\ SessionIsOneAccount
    /\ FileIsOneAccount

CallsOK ==
    /\ calls \in [Calls -> Call]
    /\ \A c \in Calls : CallOK(calls[c])

\* The invariant is a fact about the slots and one about the commands,
LEMMA IInvSplits == IInv <=> SlotsOK /\ CallsOK
BY DEF IInv, SlotsOK, CallsOK, TypeOK, CallsHoldOneAccount, CallOK

\* in the next state too.
LEMMA IInvSplitsPrimed == IInv' <=> SlotsOK' /\ CallsOK'
BY DEF IInv, SlotsOK, CallsOK, TypeOK, CallsHoldOneAccount, CallOK,
       ReadOnlyStaysReadOnly, SessionIsOneAccount, FileIsOneAccount

\* It holds of a freshly started process, whatever session.json it finds.
LEMMA InitOK == Init => IInv
<1> SUFFICES ASSUME Init PROVE SlotsOK /\ CallsOK
  BY IInvSplits
<1>1. CallsOK
  BY IdleOK DEF Init, CallsOK, CallOK
<1>2. issued \in [Accounts -> 0..MaxSeq]
  BY MaxSeqAssumption DEF Init
<1>3. file \in PersistedSession \cup {None} /\ FileIsOneAccount
  BY AccountsAssumption DEF Init, PersistedSession, FileIsOneAccount, Keys
<1>4. QED
  BY <1>1, <1>2, <1>3
     DEF Init, SlotsOK, ReadOnlyStaysReadOnly, SessionIsOneAccount

-----------------------------------------------------------------------------
(* Slots and calls an action leaves alone or sets as a whole.              *)

\* A step that leaves the slots and session.json alone.
LEMMA SlotsUnchanged ==
    ASSUME SlotsOK, UNCHANGED <<session, pending, file, issued>>
    PROVE  SlotsOK'
BY DEF SlotsOK, ReadOnlyStaysReadOnly, SessionIsOneAccount, FileIsOneAccount

\* A step of no command.
LEMMA CallsUnchanged ==
    ASSUME CallsOK, UNCHANGED calls
    PROVE  CallsOK'
BY DEF CallsOK

\* A command that moves on holds what its next step reads.
LEMMA CallsGoto ==
    ASSUME CallsOK, NEW c \in Calls, NEW call, CallOK(call), Goto(c, call)
    PROVE  CallsOK'
BY GotoOK DEF CallsOK

\* A command that returns.
LEMMA CallsReturn ==
    ASSUME CallsOK, NEW c \in Calls, Return(c)
    PROVE  CallsOK'
BY CallsGoto, IdleOK DEF Return

\* A new session.json is well formed and one account's.
LEMMA NewFileOK ==
    ASSUME SlotsOK, NEW persisted \in PersistedSession,
           persisted.encKey = persisted.email,
           file' \in {persisted, None},
           pending' \in Pending \cup {None},
           issued' \in [Accounts -> 0..MaxSeq],
           UNCHANGED session
    PROVE  SlotsOK'
<1>1. file' \in PersistedSession \cup {None} /\ FileIsOneAccount'
  BY DEF FileIsOneAccount
<1>2. QED
  BY <1>1 DEF SlotsOK, ReadOnlyStaysReadOnly, SessionIsOneAccount

\* A step that touches the parked login only.
LEMMA PendingChanges ==
    ASSUME SlotsOK, pending' \in Pending \cup {None},
           UNCHANGED <<session, file, issued>>
    PROVE  SlotsOK'
BY DEF SlotsOK, ReadOnlyStaysReadOnly, SessionIsOneAccount, FileIsOneAccount

\* A new session has the right shape and is one account's.
LEMMA NewSessionOK ==
    ASSUME SlotsOK,
           \/ session' = None
           \/ /\ session' \in Session
              /\ (session'.origin = "server") <=> (session'.client # None)
              /\ (session'.origin = "server") <=> (session'.tokens # None)
              /\ session'.client # None => session'.key = session'.client,
           UNCHANGED <<pending, file, issued>>
    PROVE  SlotsOK'
<1>1. session' \in Session \cup {None}
  OBVIOUS
<1>2. ReadOnlyStaysReadOnly' /\ SessionIsOneAccount'
  BY DEF ReadOnlyStaysReadOnly, SessionIsOneAccount
<1>3. QED
  BY <1>1, <1>2 DEF SlotsOK, FileIsOneAccount

\* What persist_session writes is one account's.
LEMMA PersistedOK ==
    ASSUME NEW a \in Accounts, NEW token \in Token
    PROVE  /\ Persisted(a, a, token) \in PersistedSession
           /\ Persisted(a, a, token).encKey = Persisted(a, a, token).email
BY DEF Persisted, PersistedSession, Keys

\* Resealing the token keeps the account of a snapshot.
LEMMA ResealedOK ==
    ASSUME NEW persisted \in PersistedSession, NEW token \in Token,
           NEW key \in Keys, persisted.encKey = persisted.email
    PROVE  /\ Resealed(persisted, token, key) \in PersistedSession
           /\ Resealed(persisted, token, key).encKey
                = Resealed(persisted, token, key).email
BY DEF Resealed, PersistedSession

-----------------------------------------------------------------------------
(* login and login_with_two_factor.                                        *)

\* login and login_with_two_factor.
LEMMA LoginStepsOK ==
    ASSUME SlotsOK, CallsOK, NEW c \in Calls, LoginSteps(c)
    PROVE  SlotsOK' /\ CallsOK'
<1> DEFINE call == calls[c]
<1>0. CallOK(call)
  BY DEF CallsOK
<1>1. ASSUME NEW a \in Accounts, LoginStart(c, a) PROVE SlotsOK' /\ CallsOK'
  <2>1. CallOK([At("login.answer") EXCEPT !.acct = a])
    BY DEF CallOK, Call, Steps, HasAccount, HasKey, HasToken, HasSnapshot,
     HoldsOneAccount
  <2>2. QED
    BY <1>1, <2>1, CallsGoto, SlotsUnchanged DEF LoginStart
<1>2. CASE LoginSuccess(c)
  <2> DEFINE a == call.acct
  <2>1. a \in Accounts
    BY <1>0, <1>2 DEF LoginSuccess, CallOK, HasAccount
  <2>2. /\ issued \in [Accounts -> 0..MaxSeq]
        /\ Issue(a)
    BY <1>2 DEF LoginSuccess, SlotsOK
  <2>3. NewToken(a) \in Token /\ issued' \in [Accounts -> 0..MaxSeq]
    BY <2>1, <2>2, IssueOK
  <2>4. CallOK([At("login.store") EXCEPT
                  !.acct = a, !.key = a, !.token = NewToken(a)])
    BY <2>1, <2>3 DEF CallOK, Call, Steps, HasAccount, HasKey, HasToken, HasSnapshot,
           HoldsOneAccount, Keys
  <2>5. SlotsOK'
    BY <1>2, <2>1, <2>3, PersistedOK, NewFileOK DEF LoginSuccess
  <2>6. QED
    BY <1>2, <2>4, <2>5, CallsGoto DEF LoginSuccess
<1>3. CASE LoginTwoFactorRequired(c)
  <2>1. pending' \in Pending
    BY <1>0, <1>3 DEF LoginTwoFactorRequired, CallOK, HasAccount, Pending
  <2>2. QED
    BY <1>3, <2>1, PendingChanges, CallsReturn DEF LoginTwoFactorRequired
<1>4. CASE LoginUnusable(c)
  BY <1>4, PendingChanges, CallsReturn DEF LoginUnusable
<1>5. CASE TwoFactorStart(c)
  <2>1. pending \in Pending
    BY <1>5 DEF TwoFactorStart, SlotsOK
  <2>2. CASE pending.stale
    BY <1>5, <2>2, PendingChanges, CallsUnchanged DEF TwoFactorStart
  <2>3. CASE ~pending.stale
    <3>1. CallOK([At("twofa.answer") EXCEPT !.acct = pending.acct])
      BY <2>1 DEF Pending, CallOK, Call, Steps, HasAccount, HasKey, HasToken, HasSnapshot,
             HoldsOneAccount
    <3>2. QED
      BY <1>5, <2>3, <3>1, CallsGoto, SlotsUnchanged DEF TwoFactorStart
  <2>4. QED
    BY <2>2, <2>3
<1>6. CASE TwoFactorFails(c)
  <2>1. pending' \in Pending \cup {None}
    BY <1>6 DEF TwoFactorFails, SlotsOK
  <2>2. QED
    BY <1>6, <2>1, PendingChanges, CallsReturn DEF TwoFactorFails
<1>7. CASE TwoFactorSuccess(c)
  <2> DEFINE a == call.acct
  <2>1. a \in Accounts
    BY <1>0, <1>7 DEF TwoFactorSuccess, CallOK, HasAccount
  <2>2. /\ issued \in [Accounts -> 0..MaxSeq]
        /\ Issue(a)
    BY <1>7 DEF TwoFactorSuccess, TwoFactorAccount, SlotsOK
  <2>3. NewToken(a) \in Token /\ issued' \in [Accounts -> 0..MaxSeq]
    BY <2>1, <2>2, IssueOK
  <2>4. CallOK([At("twofa.store") EXCEPT
                  !.acct = a, !.key = a, !.token = NewToken(a)])
    BY <2>1, <2>3 DEF CallOK, Call, Steps, HasAccount, HasKey, HasToken, HasSnapshot,
           HoldsOneAccount, Keys
  <2>5. SlotsOK'
    BY <1>7, <2>1, <2>3, PersistedOK, NewFileOK
       DEF TwoFactorSuccess, TwoFactorAccount, SlotsOK
  <2>6. QED
    BY <1>7, <2>4, <2>5, CallsGoto DEF TwoFactorSuccess, TwoFactorAccount
<1>8. CASE TwoFactorClear(c)
  BY <1>8, PendingChanges, CallsReturn DEF TwoFactorClear
<1>9. CASE StoreSession(c)
  <2> DEFINE new == ServerSession(call.acct, call.key, call.token)
  <2>1. /\ call.acct \in Accounts
        /\ call.key = call.acct
        /\ call.token \in Token
    BY <1>0, <1>9 DEF StoreSession, CallOK, HasAccount, HasToken, HoldsOneAccount
  <2>2. /\ new \in Session
        /\ new.origin = "server" /\ new.client # None /\ new.tokens # None
    BY <2>1, ServerSessionOK DEF Keys
  <2>3. new.client = call.acct /\ new.key = call.key
    BY DEF ServerSession
  <2>4. SlotsOK'
    BY <1>9, <2>1, <2>2, <2>3, NewSessionOK DEF StoreSession
  <2>5. CallOK(At("twofa.clear"))
    BY DEF CallOK, Call, Steps, HasAccount, HasKey, HasToken, HasSnapshot,
           HoldsOneAccount
  <2>6. CallsOK'
    BY <1>9, <2>5, CallsGoto, CallsReturn DEF StoreSession
  <2>7. QED
    BY <2>4, <2>6
<1>10. CASE RequestFails(c)
  BY <1>10, SlotsUnchanged, CallsReturn DEF RequestFails
<1>11. QED
  BY <1>1, <1>2, <1>3, <1>4, <1>5, <1>6, <1>7, <1>8, <1>9, <1>10
     DEF LoginSteps

-----------------------------------------------------------------------------
(* unlock, the Yubikey commands, open_export_file.                         *)

\* The two ways UnlockOnline writes: the token kept or a rotated one.
LEMMA UnlockSaveOK ==
    ASSUME SlotsOK, CallsOK, NEW c \in Calls, calls[c].at = "unlock.answer",
           NEW token \in Token, UnlockSave(c, token),
           issued' \in [Accounts -> 0..MaxSeq]
    PROVE  SlotsOK' /\ CallsOK'
<1> DEFINE call == calls[c]
<1>1. CallOK(call)
  BY DEF CallsOK
<1>2. /\ call.acct \in Accounts /\ call.key = call.acct /\ call.key \in Keys
      /\ call.snap \in PersistedSession /\ call.snap.encKey = call.snap.email
  BY <1>1 DEF CallOK, HasAccount, HasKey, HasSnapshot, HoldsOneAccount
<1>3. CallOK([At("unlock.store") EXCEPT
                !.acct = call.acct, !.key = call.key, !.token = token])
  BY <1>2 DEF CallOK, Call, Steps, HasAccount, HasKey, HasToken,
              HasSnapshot, HoldsOneAccount
<1>4. SlotsOK'
  BY <1>2, ResealedOK, NewFileOK DEF UnlockSave, SlotsOK
<1>5. QED
  BY <1>3, <1>4, CallsGoto DEF UnlockSave

\* The unlocks, the Yubikey commands and open_export_file.
LEMMA UnlockStepsOK ==
    ASSUME SlotsOK, CallsOK, NEW c \in Calls, UnlockSteps(c)
    PROVE  SlotsOK' /\ CallsOK'
<1> DEFINE call == calls[c]
<1>0. CallOK(call)
  BY DEF CallsOK
<1>f. file # None => /\ file \in PersistedSession
                     /\ file.encKey = file.email
  BY DEF SlotsOK, FileIsOneAccount
<1>1. CASE UnlockStart(c)
  <2>1. CallOK([At("unlock.answer") EXCEPT
                  !.acct = file.email, !.key = file.encKey,
                  !.token = file.token, !.snap = file])
    BY <1>1, <1>f DEF UnlockStart, PersistedSession, Keys, CallOK, Call, Steps, HasAccount, HasKey, HasToken,
                HasSnapshot, HoldsOneAccount
  <2>2. QED
    BY <1>1, <2>1, CallsGoto, SlotsUnchanged DEF UnlockStart
<1>2. CASE YubikeyTouchStart(c)
  <2>1. CallOK([At("unlock.touch") EXCEPT !.snap = file])
    BY <1>2, <1>f DEF YubikeyTouchStart, CallOK, Call, Steps, HasAccount, HasKey, HasToken,
                HasSnapshot, HoldsOneAccount
  <2>2. QED
    BY <1>2, <2>1, CallsGoto, SlotsUnchanged DEF YubikeyTouchStart
<1>3. CASE YubikeyReleased(c)
  <2> DEFINE snap == call.snap
  <2>1. snap \in PersistedSession /\ snap.encKey = snap.email
    BY <1>0, <1>3 DEF YubikeyReleased, CallOK, HasSnapshot, HoldsOneAccount
  <2>2. CallOK([At("unlock.answer") EXCEPT
                  !.acct = snap.email, !.key = snap.wrap,
                  !.token = snap.token, !.snap = snap])
    BY <1>3, <2>1 DEF YubikeyReleased, OpensPrivateKey, PersistedSession, Keys,
                      CallOK, Call, Steps, HasAccount, HasKey, HasToken,
                HasSnapshot, HoldsOneAccount
  <2>3. QED
    BY <1>3, <2>2, CallsGoto, SlotsUnchanged DEF YubikeyReleased
<1>4. CASE UnlockOffline(c)
  <2>1. call.key \in Keys
    BY <1>0, <1>4 DEF UnlockOffline, CallOK, HasKey
  <2>2. SlotsOK'
    BY <1>4, <2>1, StandaloneSessionOK, NewSessionOK DEF UnlockOffline
  <2>3. QED
    BY <1>4, <2>2, CallsReturn DEF UnlockOffline
<1>5. CASE UnlockOnline(c)
  <2>1. /\ call.acct \in Accounts /\ call.token \in Token
        /\ issued \in [Accounts -> 0..MaxSeq]
    BY <1>0, <1>5 DEF UnlockOnline, CallOK, HasAccount, HasToken, SlotsOK
  <2>2. CASE UnlockSave(c, call.token) /\ UNCHANGED issued
    BY <1>5, <2>1, <2>2, UnlockSaveOK DEF UnlockOnline
  <2>3. CASE Issue(call.acct) /\ UnlockSave(c, NewToken(call.acct))
    BY <1>5, <2>1, <2>3, UnlockSaveOK, IssueOK DEF UnlockOnline
  <2>4. QED
    BY <1>5, <2>2, <2>3 DEF UnlockOnline
<1>6. CASE EnrollStart(c)
  <2>1. CallOK([At("enroll.touch") EXCEPT !.key = session.key])
    BY <1>6 DEF EnrollStart, SlotsOK, Session, CallOK, Call, Steps, HasAccount, HasKey, HasToken,
                HasSnapshot, HoldsOneAccount
  <2>2. QED
    BY <1>6, <2>1, CallsGoto, SlotsUnchanged DEF EnrollStart
<1>7. CASE EnrollLoad(c)
  <2>1. call.key \in Keys
    BY <1>0, <1>7 DEF EnrollLoad, CallOK, HasKey
  <2>2. CallOK([At("enroll.save") EXCEPT !.key = call.key, !.snap = file])
    BY <1>7, <1>f, <2>1 DEF EnrollLoad, CallOK, Call, Steps, HasAccount, HasKey, HasToken,
                HasSnapshot, HoldsOneAccount
  <2>3. QED
    BY <1>7, <2>2, CallsGoto, SlotsUnchanged DEF EnrollLoad
<1>8. CASE EnrollSave(c)
  <2> DEFINE new == [call.snap EXCEPT !.wrap = call.key]
  <2>1. /\ call.snap \in PersistedSession /\ call.key \in Keys
        /\ call.snap.encKey = call.snap.email
    BY <1>0, <1>8 DEF EnrollSave, CallOK, HasKey, HasSnapshot, HoldsOneAccount
  <2>2. new \in PersistedSession /\ new.encKey = new.email
    BY <2>1 DEF PersistedSession
  <2>3. SlotsOK'
    BY <1>8, <2>2, NewFileOK DEF EnrollSave, SlotsOK
  <2>4. QED
    BY <1>8, <2>3, CallsReturn DEF EnrollSave
<1>9. CASE DisenrollLoad(c)
  <2>1. CallOK([At("disenroll.save") EXCEPT !.snap = file])
    BY <1>9, <1>f DEF DisenrollLoad, CallOK, Call, Steps, HasAccount, HasKey, HasToken,
                HasSnapshot, HoldsOneAccount
  <2>2. QED
    BY <1>9, <2>1, CallsGoto, SlotsUnchanged DEF DisenrollLoad
<1>10. CASE DisenrollSave(c)
  <2> DEFINE new == [call.snap EXCEPT !.wrap = None]
  <2>1. call.snap \in PersistedSession /\ call.snap.encKey = call.snap.email
    BY <1>0, <1>10 DEF DisenrollSave, CallOK, HasSnapshot, HoldsOneAccount
  <2>2. new \in PersistedSession /\ new.encKey = new.email
    BY <2>1 DEF PersistedSession
  <2>3. SlotsOK'
    BY <1>10, <2>2, NewFileOK DEF DisenrollSave, SlotsOK
  <2>4. QED
    BY <1>10, <2>3, CallsReturn DEF DisenrollSave
<1>11. CASE ExportStart(c)
  <2>1. CallOK(At("export.store"))
    BY DEF CallOK, Call, Steps, HasAccount, HasKey, HasToken,
                HasSnapshot, HoldsOneAccount
  <2>2. QED
    BY <1>11, <2>1, CallsGoto, SlotsUnchanged DEF ExportStart
<1>12. CASE ExportStore(c)
  <2>1. CASE session' = session
    BY <1>12, <2>1, SlotsUnchanged, CallsReturn DEF ExportStore
  <2>2. CASE session' = StandaloneSession("exportFile", ExportKey)
    BY <1>12, <2>2, StandaloneSessionOK, NewSessionOK, CallsReturn
       DEF ExportStore, Keys
  <2>3. QED
    BY <1>12, <2>1, <2>2 DEF ExportStore
<1>13. QED
  BY <1>1, <1>2, <1>3, <1>4, <1>5, <1>6, <1>7, <1>8, <1>9, <1>10, <1>11, <1>12
     DEF UnlockSteps

-----------------------------------------------------------------------------
(* ensure_fresh_tokens and the request behind it.                          *)

\* The refresh and the request behind it.
LEMMA ApiStepsOK ==
    ASSUME SlotsOK, CallsOK, NEW c \in Calls, ApiSteps(c)
    PROVE  SlotsOK' /\ CallsOK'
<1> DEFINE call == calls[c]
<1>0. CallOK(call)
  BY DEF CallsOK
<1>t. CallOK(At("api.take"))
  BY DEF CallOK, Call, Steps, HasAccount, HasKey, HasToken,
         HasSnapshot, HoldsOneAccount
<1>1. CASE ApiStart(c)
  <2>1. /\ session \in Session /\ session.client \in Accounts
        /\ session.tokens \in Token
    BY <1>1 DEF ApiStart, CanReachServer, SlotsOK, Session
  <2>2. CallOK([At("api.answer") EXCEPT
                  !.acct = session.client, !.token = session.tokens])
    BY <2>1 DEF CallOK, Call, Steps, HasAccount, HasKey, HasToken,
                HasSnapshot, HoldsOneAccount
  <2>3. QED
    BY <1>1, <1>t, <2>2, CallsGoto, SlotsUnchanged DEF ApiStart
<1>2. CASE ApiRefreshed(c)
  <2>1. /\ call.acct \in Accounts /\ call.token \in Token
        /\ issued \in [Accounts -> 0..MaxSeq]
    BY <1>0, <1>2 DEF ApiRefreshed, CallOK, HasAccount, HasToken, SlotsOK
  <2>2. ASSUME NEW token \in Token
        PROVE  CallOK([At("api.seal") EXCEPT !.token = token])
    BY DEF CallOK, Call, Steps, HasAccount, HasKey, HasToken,
                HasSnapshot, HoldsOneAccount
  <2>3. CASE UNCHANGED issued /\ Goto(c, [At("api.seal") EXCEPT !.token = call.token])
    BY <1>2, <2>1, <2>2, <2>3, CallsGoto, SlotsUnchanged DEF ApiRefreshed
  <2>4. CASE /\ Issue(call.acct)
             /\ Goto(c, [At("api.seal") EXCEPT !.token = NewToken(call.acct)])
    <3>1. NewToken(call.acct) \in Token /\ issued' \in [Accounts -> 0..MaxSeq]
      BY <2>1, <2>4, IssueOK
    <3>2. SlotsOK'
      BY <1>2, <3>1 DEF ApiRefreshed, SlotsOK, ReadOnlyStaysReadOnly,
                        SessionIsOneAccount, FileIsOneAccount
    <3>3. QED
      BY <2>2, <2>4, <3>1, <3>2, CallsGoto
  <2>5. QED
    BY <1>2, <2>3, <2>4 DEF ApiRefreshed
<1>3. CASE ApiSeal(c)
  <2>1. call.token \in Token
    BY <1>0, <1>3 DEF ApiSeal, CallOK, HasToken
  <2>2. CASE session = None
    BY <1>3, <2>2, SlotsUnchanged, CallsReturn DEF ApiSeal
  <2>3. CASE session # None
    <3>1. CallOK([At("api.apply") EXCEPT !.token = call.token, !.key = session.key])
      BY <2>1, <2>3 DEF SlotsOK, Session, CallOK, Call, Steps, HasAccount, HasKey, HasToken,
                  HasSnapshot, HoldsOneAccount
    <3>2. QED
      BY <1>3, <2>3, <3>1, CallsGoto, SlotsUnchanged DEF ApiSeal
  <2>4. QED
    BY <2>2, <2>3
<1>4. CASE ApiApply(c)
  <2> DEFINE new == Refreshed(session, call.token)
  <2>1. call.token \in Token
    BY <1>0, <1>4 DEF ApiApply, CallOK, HasToken
  <2>2. ASSUME session # None
        PROVE  /\ new \in Session
               /\ (new.origin = "server") <=> (new.client # None)
               /\ (new.origin = "server") <=> (new.tokens # None)
               /\ new.client # None => new.key = new.client
    BY <2>1, <2>2, NoneAssumption
       DEF Refreshed, SlotsOK, Session, ReadOnlyStaysReadOnly, SessionIsOneAccount
  <2>3. SlotsOK'
    BY <1>4, <2>2, NewSessionOK DEF ApiApply
  <2>4. CallOK([call EXCEPT !.at = "api.load"])
    BY <1>0, <1>4 DEF ApiApply, CallOK, Call, Steps, HasAccount, HasKey, HasToken,
                HasSnapshot, HoldsOneAccount
  <2>5. QED
    BY <1>4, <2>3, <2>4, CallsGoto DEF ApiApply
<1>5. CASE ApiLoad(c)
  <2>1. CASE file = None
    BY <1>5, <1>t, <2>1, CallsGoto, SlotsUnchanged DEF ApiLoad
  <2>2. CASE file # None
    <3>1. file \in PersistedSession /\ file.encKey = file.email
      BY <2>2 DEF SlotsOK, FileIsOneAccount
    <3>2. CallOK([call EXCEPT !.at = "api.save", !.snap = file])
      BY <1>0, <1>5, <3>1 DEF ApiLoad, CallOK, Call, Steps, HasAccount, HasKey, HasToken,
                  HasSnapshot, HoldsOneAccount
    <3>3. QED
      BY <1>5, <2>2, <3>2, CallsGoto, SlotsUnchanged DEF ApiLoad
  <2>3. QED
    BY <2>1, <2>2
<1>6. CASE ApiSave(c)
  <2>1. /\ call.snap \in PersistedSession /\ call.snap.encKey = call.snap.email
        /\ call.token \in Token /\ call.key \in Keys
    BY <1>0, <1>6
       DEF ApiSave, CallOK, HasKey, HasToken, HasSnapshot, HoldsOneAccount
  <2>2. SlotsOK'
    BY <1>6, <2>1, ResealedOK, NewFileOK DEF ApiSave, SlotsOK
  <2>3. QED
    BY <1>6, <1>t, <2>2, CallsGoto DEF ApiSave
<1>7. CASE ApiTake(c)
  <2>1. CASE session # None /\ CanSend(session)
    <3>1. CallOK([At("api.sent") EXCEPT
                    !.acct = session.client, !.token = session.tokens])
      BY <2>1 DEF SlotsOK, Session, CallOK, Call, Steps, HasAccount, HasKey, HasToken,
                  HasSnapshot, HoldsOneAccount
    <3>2. QED
      BY <1>7, <2>1, <3>1, CallsGoto, SlotsUnchanged DEF ApiTake
  <2>2. CASE ~(session # None /\ CanSend(session))
    BY <1>7, <2>2, SlotsUnchanged, CallsReturn DEF ApiTake
  <2>3. QED
    BY <2>1, <2>2
<1>8. CASE ApiDone(c)
  BY <1>8, SlotsUnchanged, CallsReturn DEF ApiDone
<1>9. QED
  BY <1>1, <1>2, <1>3, <1>4, <1>5, <1>6, <1>7, <1>8 DEF ApiSteps

-----------------------------------------------------------------------------
(* Locking, time, the process dying.                                       *)

\* Locks, logouts, time and crashes.
LEMMA SlotStepsOK ==
    ASSUME SlotsOK, CallsOK, SlotSteps
    PROVE  SlotsOK' /\ CallsOK'
<1>1. CASE CancelTwoFactor
  BY <1>1, PendingChanges, CallsUnchanged DEF CancelTwoFactor
<1>2. CASE PendingAges
  <2>1. pending' \in Pending
    BY <1>2 DEF PendingAges, SlotsOK, Pending
  <2>2. QED
    BY <1>2, <2>1, PendingChanges, CallsUnchanged DEF PendingAges
<1>3. CASE SweepPending
  BY <1>3, PendingChanges, CallsUnchanged DEF SweepPending
<1>4. CASE Lock
  BY <1>4, CallsUnchanged
     DEF Lock, SlotsOK, ReadOnlyStaysReadOnly, SessionIsOneAccount, FileIsOneAccount
<1>5. CASE Logout
  BY <1>5, CallsUnchanged
     DEF Logout, SlotsOK, ReadOnlyStaysReadOnly, SessionIsOneAccount, FileIsOneAccount
<1>6. CASE TokensAge
  <2>1. session \in Session /\ session' = [session EXCEPT !.expires = "due"]
    BY <1>6 DEF TokensAge, SlotsOK
  <2>2. session' \in Session
    BY <2>1 DEF Session
  <2>3. /\ session'.origin = session.origin /\ session'.client = session.client
        /\ session'.tokens = session.tokens /\ session'.key = session.key
    BY <2>1 DEF Session
  <2>4. SlotsOK'
    BY <1>6, <2>2, <2>3, NewSessionOK
       DEF TokensAge, SlotsOK, ReadOnlyStaysReadOnly, SessionIsOneAccount
  <2>5. QED
    BY <1>6, <2>4, CallsUnchanged DEF TokensAge
<1>7. CASE Crash
  <2>1. CallsOK'
    BY <1>7, IdleOK DEF Crash, CallsOK, CallOK
  <2>2. QED
    BY <1>7, <2>1
       DEF Crash, SlotsOK, ReadOnlyStaysReadOnly, SessionIsOneAccount, FileIsOneAccount
<1>8. QED
  BY <1>1, <1>2, <1>3, <1>4, <1>5, <1>6, <1>7 DEF SlotSteps

\* Every step preserves the invariant.
LEMMA NextOK == IInv /\ [Next]_vars => IInv'
<1> SUFFICES ASSUME SlotsOK, CallsOK, [Next]_vars PROVE SlotsOK' /\ CallsOK'
  BY IInvSplits, IInvSplitsPrimed
<1>1. CASE SlotSteps
  BY <1>1, SlotStepsOK
<1>2. ASSUME NEW c \in Calls, LoginSteps(c) \/ UnlockSteps(c) \/ ApiSteps(c)
      PROVE  SlotsOK' /\ CallsOK'
  BY <1>2, LoginStepsOK, UnlockStepsOK, ApiStepsOK
<1>3. CASE UNCHANGED vars
  BY <1>3, SlotsUnchanged, CallsUnchanged DEF vars
<1>4. QED
  BY <1>1, <1>2, <1>3 DEF Next

-----------------------------------------------------------------------------
(* The results.                                                            *)

\* The inductive invariant: what every command in flight holds fits what the
\* slots hold.
THEOREM Invariance == Spec => []IInv
BY InitOK, NextOK, PTL DEF Spec

\* Every slot and every command's locals keep their types.
THEOREM TypeCorrect == Spec => []TypeOK
BY Invariance, PTL DEF IInv

\* A read-only vault never becomes writable, whatever refresh was in flight
\* when the slot was replaced.
THEOREM ReadOnlyIsFinal == Spec => []ReadOnlyStaysReadOnly
BY Invariance, PTL DEF IInv

\* The open vault's key and its server belong to one account.
THEOREM OneAccountInMemory == Spec => []SessionIsOneAccount
BY Invariance, PTL DEF IInv

\* session.json's address and wrapped user key belong to one account.
THEOREM OneAccountOnDisk == Spec => []FileIsOneAccount
BY Invariance, PTL DEF IInv

\* Every rewrite of session.json seals the token under a key, but for those that
\* give back a file as it was read.
LEMMA SealingSteps ==
    ASSUME CallsOK, NEW c \in Calls,
           LoginSteps(c) \/ UnlockSteps(c) \/ ApiSteps(c), file' # file
    PROVE  \/ file'.sealedBy \in Keys
           \/ /\ calls[c].at \in {"enroll.save", "disenroll.save"}
              /\ Return(c)
              /\ file'.sealedBy = calls[c].snap.sealedBy
<1> USE DEF CallsOK, CallOK
<1>1. CASE LoginSuccess(c) \/ TwoFactorSuccess(c)
  <2>1. calls[c].acct \in Keys
      BY <1>1 DEF LoginSuccess, TwoFactorSuccess, HasAccount, Keys
  <2> QED BY <1>1, <2>1 DEF LoginSuccess, TwoFactorSuccess, TwoFactorAccount, Persisted
<1>2. CASE UnlockOnline(c)
  <2>1. PICK token : file' = Resealed(calls[c].snap, token, calls[c].key)
      BY <1>2 DEF UnlockOnline, UnlockSave
  <2>2. calls[c].key \in Keys /\ calls[c].snap \in PersistedSession
      BY <1>2 DEF UnlockOnline, HasKey, HasSnapshot
  <2> QED BY <2>1, <2>2 DEF Resealed, PersistedSession
<1>3. CASE ApiSave(c)
  <2>1. calls[c].key \in Keys /\ calls[c].snap \in PersistedSession
      BY <1>3 DEF ApiSave, HasKey, HasSnapshot
  <2> QED BY <1>3, <2>1 DEF ApiSave, Resealed, PersistedSession
<1>4. CASE EnrollSave(c) \/ DisenrollSave(c)
  <2>1. calls[c].snap \in PersistedSession
      BY <1>4 DEF EnrollSave, DisenrollSave, HasSnapshot
  <2> QED BY <1>4, <2>1 DEF EnrollSave, DisenrollSave, PersistedSession
<1>5. CASE LoginSteps(c) /\ ~LoginSuccess(c) /\ ~TwoFactorSuccess(c)
    BY <1>5 DEF LoginSteps, LoginStart, LoginTwoFactorRequired, LoginUnusable,
       TwoFactorStart, TwoFactorFails, TwoFactorClear, StoreSession, RequestFails
<1>6. CASE UnlockSteps(c) /\ ~UnlockOnline(c) /\ ~EnrollSave(c) /\ ~DisenrollSave(c)
    BY <1>6 DEF UnlockSteps, UnlockStart, YubikeyTouchStart, YubikeyReleased,
       UnlockOffline, EnrollStart, EnrollLoad, DisenrollLoad, ExportStart, ExportStore
<1>7. CASE ApiSteps(c) /\ ~ApiSave(c)
    BY <1>7 DEF ApiSteps, ApiStart, ApiRefreshed, ApiSeal, ApiApply, ApiLoad, ApiTake,
       ApiDone
<1> QED BY <1>1, <1>2, <1>3, <1>4, <1>5, <1>6, <1>7

\* The refresh token returns to clear text only by a Yubikey command that writes
\* back a file it had read before another command sealed the token.
THEOREM MigrationIsKept == Spec => PlaintextNeverReturns
<1>1. ASSUME CallsOK, [Next]_vars,
             file # None, file' # None, file.sealedBy # Clear, file'.sealedBy = Clear
      PROVE  \E c \in Calls : /\ calls[c].at \in {"enroll.save", "disenroll.save"}
                             /\ calls'[c] = Idle
                             /\ calls[c].snap.sealedBy = Clear
  <2>1. file' # file
      BY <1>1
  <2>2. PICK c \in Calls : LoginSteps(c) \/ UnlockSteps(c) \/ ApiSteps(c)
      BY <1>1, <2>1 DEF Next, vars, SlotSteps, CancelTwoFactor, PendingAges,
         SweepPending, Lock, Logout, TokensAge, Crash
  <2>3. Clear \notin Keys
      BY AccountsAssumption DEF Keys
  <2>4. /\ calls[c].at \in {"enroll.save", "disenroll.save"} /\ Return(c)
        /\ file'.sealedBy = calls[c].snap.sealedBy
      BY <1>1, <2>1, <2>2, <2>3, SealingSteps
  <2>5. calls'[c] = Idle
      BY <1>1, <2>4 DEF Return, Goto, CallsOK
  <2> QED BY <1>1, <2>4, <2>5
<1>2. IInv /\ [Next]_vars =>
        [(file # None /\ file' # None /\ file.sealedBy # Clear /\ file'.sealedBy = Clear)
           => \E c \in Calls : /\ calls[c].at \in {"enroll.save", "disenroll.save"}
                               /\ calls'[c] = Idle
                               /\ calls[c].snap.sealedBy = Clear]_file
    BY <1>1, IInvSplits
<1> QED BY <1>2, Invariance, PTL DEF Spec, PlaintextNeverReturns

-----------------------------------------------------------------------------
(* The session slot implements WriteGate.                                  *)

Sent == {c \in Calls : calls[c].at = "api.sent"}

\* Only ApiTake, ApiDone and Crash change what has been sent; every other step
\* replaces the slot or leaves it, which is WriteGate's Replace.
LEMMA QuietStep ==
    ASSUME CallsOK, NEW c \in Calls, NEW call, Goto(c, call),
           calls[c].at # "api.sent", call.at # "api.sent"
    PROVE  Sent' = Sent
BY DEF Goto, CallsOK, Sent

\* Returning from any step but the request's answer sends nothing.
LEMMA QuietReturn ==
    ASSUME CallsOK, NEW c \in Calls, Return(c), calls[c].at # "api.sent"
    PROVE  Sent' = Sent
BY QuietStep DEF Return

\* A step that sends nothing is the gate's Replace, or a stutter of it.
LEMMA ReplaceStep == Sent' = Sent => Gate!Replace
BY DEF Gate!Replace, Gate!Slots, Sent

\* Logging in sends no gated request,
LEMMA LoginStepsQuiet ==
    ASSUME CallsOK, NEW c \in Calls, LoginSteps(c)
    PROVE  Sent' = Sent
<1>1. CASE \E a \in Accounts : LoginStart(c, a)
  BY <1>1, QuietStep DEF LoginStart
<1>2. CASE LoginSuccess(c)
  BY <1>2, QuietStep DEF LoginSuccess
<1>3. CASE LoginTwoFactorRequired(c)
  BY <1>3, QuietReturn DEF LoginTwoFactorRequired
<1>4. CASE LoginUnusable(c)
  BY <1>4, QuietReturn DEF LoginUnusable
<1>5. CASE TwoFactorStart(c)
  <2>1. CASE pending.stale
    BY <1>5, <2>1 DEF TwoFactorStart, Sent
  <2>2. CASE ~pending.stale
    BY <1>5, <2>2, QuietStep DEF TwoFactorStart
  <2>3. QED
    BY <2>1, <2>2
<1>6. CASE TwoFactorFails(c)
  BY <1>6, QuietReturn DEF TwoFactorFails
<1>7. CASE TwoFactorSuccess(c)
  BY <1>7, QuietStep DEF TwoFactorSuccess
<1>8. CASE TwoFactorClear(c)
  BY <1>8, QuietReturn DEF TwoFactorClear
<1>9. CASE StoreSession(c)
  BY <1>9, QuietStep, QuietReturn DEF StoreSession
<1>10. CASE RequestFails(c)
  BY <1>10, QuietReturn DEF RequestFails
<1>11. QED
  BY <1>1, <1>2, <1>3, <1>4, <1>5, <1>6, <1>7, <1>8, <1>9, <1>10
     DEF LoginSteps

\* and neither does unlocking.
LEMMA UnlockStepsQuiet ==
    ASSUME CallsOK, NEW c \in Calls, UnlockSteps(c)
    PROVE  Sent' = Sent
<1>1. CASE UnlockStart(c)
  <2> DEFINE call == [At("unlock.answer") EXCEPT
                        !.acct = file.email, !.key = file.encKey,
                        !.token = file.token, !.snap = file]
  <2>1. call.at = "unlock.answer"
    OBVIOUS
  <2>2. Goto(c, call) /\ calls[c].at = "idle"
    BY <1>1 DEF UnlockStart
  <2> HIDE DEF call
  <2>3. QED
    BY <2>1, <2>2, QuietStep
<1>2. CASE YubikeyTouchStart(c)
  BY <1>2, QuietStep DEF YubikeyTouchStart
<1>3. CASE YubikeyReleased(c)
  BY <1>3, QuietStep DEF YubikeyReleased
<1>4. CASE UnlockOffline(c)
  BY <1>4, QuietReturn DEF UnlockOffline
<1>5. CASE UnlockOnline(c)
  <2>1. PICK token : UnlockSave(c, token)
    BY <1>5 DEF UnlockOnline
  <2>2. QED
    BY <1>5, <2>1, QuietStep DEF UnlockOnline, UnlockSave
<1>6. CASE EnrollStart(c)
  BY <1>6, QuietStep DEF EnrollStart
<1>7. CASE EnrollLoad(c)
  BY <1>7, QuietStep DEF EnrollLoad
<1>8. CASE EnrollSave(c) \/ DisenrollSave(c)
  BY <1>8, QuietReturn DEF EnrollSave, DisenrollSave
<1>9. CASE DisenrollLoad(c)
  BY <1>9, QuietStep DEF DisenrollLoad
<1>10. CASE ExportStart(c)
  BY <1>10, QuietStep DEF ExportStart
<1>11. CASE ExportStore(c)
  BY <1>11, QuietReturn DEF ExportStore
<1>12. QED
  BY <1>1, <1>2, <1>3, <1>4, <1>5, <1>6, <1>7, <1>8, <1>9, <1>10, <1>11
     DEF UnlockSteps

\* The backstop: a request leaves only with a client and a token, which only a
\* server session has.
LEMMA ApiStepsGated ==
    ASSUME SlotsOK, CallsOK, NEW c \in Calls, ApiSteps(c)
    PROVE  Sent' = Sent \/ Gate!Send(c) \/ Gate!Answer(c)
<1>1. CASE ApiStart(c)
  <2> DEFINE call == [At("api.answer") EXCEPT
                        !.acct = session.client, !.token = session.tokens]
  <2> DEFINE take == At("api.take")
  <2>1. call.at = "api.answer" /\ take.at = "api.take"
    OBVIOUS
  <2>2. (Goto(c, call) \/ Goto(c, take)) /\ calls[c].at = "idle"
    BY <1>1 DEF ApiStart
  <2> HIDE DEF call, take
  <2>3. QED
    BY <2>1, <2>2, QuietStep
<1>2. CASE ApiRefreshed(c)
  <2>1. PICK token : Goto(c, [At("api.seal") EXCEPT !.token = token])
    BY <1>2 DEF ApiRefreshed
  <2>2. QED
    BY <1>2, <2>1, QuietStep DEF ApiRefreshed
<1>3. CASE ApiSeal(c)
  BY <1>3, QuietStep, QuietReturn DEF ApiSeal
<1>4. CASE ApiApply(c)
  BY <1>4, QuietStep DEF ApiApply, CallsOK, CallOK, Call
<1>5. CASE ApiLoad(c)
  <2>1. CallOK(calls[c])
    BY DEF CallsOK
  <2>2. [calls[c] EXCEPT !.at = "api.save", !.snap = file].at = "api.save"
    BY <2>1 DEF CallOK, Call
  <2>3. QED
    BY <1>5, <2>2, QuietStep DEF ApiLoad
<1>6. CASE ApiSave(c)
  BY <1>6, QuietStep DEF ApiSave
<1>7. CASE ApiTake(c)
  <2>1. CASE session # None /\ CanSend(session)
    <3>1. session.origin = "server"
      BY <2>1 DEF CanSend, SlotsOK, ReadOnlyStaysReadOnly
    <3>2. Sent' = Sent \cup {c} /\ c \notin Sent
      BY <1>7, <2>1 DEF ApiTake, Goto, CallsOK, Sent
    <3>3. QED
      BY <1>7, <2>1, <3>1, <3>2 DEF ApiTake, Gate!Send, Sent
  <2>2. CASE ~(session # None /\ CanSend(session))
    BY <1>7, <2>2, QuietReturn DEF ApiTake
  <2>3. QED
    BY <2>1, <2>2
<1>8. CASE ApiDone(c)
  <2>1. Sent' = Sent \ {c} /\ c \in Sent
    BY <1>8 DEF ApiDone, Return, Goto, CallsOK, Sent
  <2>2. QED
    BY <1>8, <2>1 DEF ApiDone, Gate!Answer, Sent
<1>9. QED
  BY <1>1, <1>2, <1>3, <1>4, <1>5, <1>6, <1>7, <1>8 DEF ApiSteps

\* Initial states map to initial states.
LEMMA GateInit == Init => Gate!Init
BY DEF Init, Gate!Init

\* Every step maps to a step of the gate or a stutter.
LEMMA GateNext ==
    ASSUME SlotsOK, CallsOK, [Next]_vars
    PROVE  [Gate!Next]_Gate!vars
<1>1. CASE Crash
  BY <1>1 DEF Crash, Gate!Crash, Gate!Next
<1>2. CASE SlotSteps /\ ~Crash
  <2>1. Sent' = Sent
    BY <1>2 DEF SlotSteps, CancelTwoFactor, PendingAges, SweepPending, Lock,
                Logout, TokensAge, Sent
  <2>2. QED
    BY <2>1, ReplaceStep DEF Gate!Next
<1>3. ASSUME NEW c \in Calls, LoginSteps(c) \/ UnlockSteps(c)
      PROVE  [Gate!Next]_Gate!vars
  BY <1>3, LoginStepsQuiet, UnlockStepsQuiet, ReplaceStep DEF Gate!Next
<1>4. ASSUME NEW c \in Calls, ApiSteps(c)
      PROVE  [Gate!Next]_Gate!vars
  BY <1>4, ApiStepsGated, ReplaceStep DEF Gate!Next
<1>5. CASE UNCHANGED vars
  BY <1>5 DEF vars, Gate!vars
<1>6. QED
  BY <1>1, <1>2, <1>3, <1>4, <1>5 DEF Next

\* No request leaves while the slot is closed or holds a read-only vault, for
\* any number of commands racing each other, locking and dying.
THEOREM Refinement == Spec => ImplementsWriteGate
<1>1. IInv /\ [Next]_vars => [Gate!Next]_Gate!vars
  BY GateNext, IInvSplits
<1>2. QED
  BY Invariance, GateInit, <1>1, PTL DEF Spec, ImplementsWriteGate, Gate!Spec
=============================================================================
