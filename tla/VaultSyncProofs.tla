-------------------------- MODULE VaultSyncProofs --------------------------
(***************************************************************************)
(* Proofs about VaultSync, for any number of accounts, commands and edits. *)
(*                                                                         *)
(* CacheStaysCleared is not inductive.  It rests on the lock (a sync that  *)
(* is about to write the cache holds it, so a logout that empties the slot *)
(* meets none) and on the quiet that follows (no session, nobody opening   *)
(* one, nobody writing).  A logout whose clear_all failed promises nothing. *)
(***************************************************************************)
EXTENDS VaultSync, TLAPS

\* The sync between its reading of session.json and its writing of the cache
\* is the one that holds the session lock.
WriterHolds == \A c \in Calls : calls[c].at = "sync.save" => holder = c

Quiet ==
    /\ session = None
    /\ \A c \in Calls : calls[c].at \notin Opening \cup {"sync.save"}

\* From the logout's first window on, if nobody was opening a vault then.
QuietAfterLogout == alone /\ (gone \/ LoggingOut) => Quiet

Accepted == {e \in Edits : made[e] # None}

\* Answers and changes on their way into memory are the server's.
CarriesOnlyAccepted ==
    \A c \in Calls :
        /\ calls[c].at \in {"sync.answer", "sync.save"} =>
             calls[c].vault.edits \subseteq Accepted
        /\ calls[c].at = "edit.splice" => calls[c].edit \in Accepted

IInv ==
    /\ TypeOK
    /\ WriterHolds
    /\ QuietAfterLogout
    /\ CacheStaysCleared
    /\ CarriesOnlyAccepted
    /\ ShowsOnlyAccepted

\* An invocation may go to any record that holds what its step needs.
LEMMA GoesTo ==
    ASSUME calls \in [Calls -> Call], \A d \in Calls : Holds(calls[d]),
           NEW c \in Calls, NEW next \in Call, Holds(next),
           calls' = [calls EXCEPT ![c] = next]
    PROVE  calls' \in [Calls -> Call] /\ \A d \in Calls : Holds(calls'[d])
OBVIOUS

USE NoneAssumption, ExportAssumption
USE DEF Keys, Vault, Session, Blob, Idle, Goto, Return, history

\* Initially every invariant holds.
LEMMA InitIInv == Init => IInv
<1> SUFFICES ASSUME Init PROVE IInv
    OBVIOUS
<1> USE DEF Init, StartsWith
<1>1. TypeOK
    BY DEF TypeOK, Holds, Call, Steps, Opening, Leaving
<1>2. WriterHolds /\ QuietAfterLogout /\ CacheStaysCleared
    BY DEF WriterHolds, QuietAfterLogout, CacheStaysCleared, LoggingOut, Leaving
<1>3. CarriesOnlyAccepted /\ ShowsOnlyAccepted
    BY DEF CarriesOnlyAccepted, ShowsOnlyAccepted
<1> QED BY <1>1, <1>2, <1>3 DEF IInv

-----------------------------------------------------------------------------
(* One lemma for each action of an invocation.                             *)

\* A sync is sent.
LEMMA SyncStartIInv == ASSUME IInv, NEW c \in Calls, SyncStart(c) PROVE IInv'
<1> USE DEF IInv, SyncStart, CanReachServer
<1>1. TypeOK'
    BY DEF TypeOK, Holds, Call, Steps, Opening, Leaving
<1>2. WriterHolds'
    BY DEF TypeOK, WriterHolds
<1>3. QuietAfterLogout'
    BY DEF TypeOK, WriterHolds, QuietAfterLogout, Quiet, LoggingOut, Opening, Leaving
<1>4. CacheStaysCleared'
    BY DEF TypeOK, CacheStaysCleared, QuietAfterLogout, Quiet, Opening, LoggingOut
<1>5. CarriesOnlyAccepted'
    BY DEF TypeOK, Holds, CarriesOnlyAccepted, Accepted
<1>6. ShowsOnlyAccepted'
    BY DEF TypeOK, Holds, ShowsOnlyAccepted, CarriesOnlyAccepted, Accepted
<1> QED BY <1>1, <1>2, <1>3, <1>4, <1>5, <1>6

\* What the server answers with is what it has accepted.
LEMMA ServerAnswersIInv == ASSUME IInv, NEW c \in Calls, ServerAnswers(c) PROVE IInv'
<1> USE DEF IInv, ServerAnswers
<1>1. TypeOK'
  <2> DEFINE answer == [edits |-> {e \in Edits : made[e] = calls[c].acct}]
             next == [calls[c] EXCEPT !.at = "sync.answer", !.vault = answer]
  <2>1. answer \in Vault
      OBVIOUS
  <2>2. next.at = "sync.answer" /\ next.vault = answer /\ next \in Call
    <3> HIDE DEF answer
    <3>1. calls[c] \in Call
        BY DEF TypeOK
    <3> QED BY <2>1, <3>1 DEF Call, Steps
  <2>3. calls' = [calls EXCEPT ![c] = next]
      BY DEF TypeOK, Call
  <2> HIDE DEF next, answer
  <2>4. Holds(next)
      BY <2>1, <2>2 DEF TypeOK, Holds
  <2>5. calls' \in [Calls -> Call] /\ \A d \in Calls : Holds(calls'[d])
      BY <2>2, <2>3, <2>4, GoesTo DEF TypeOK
  <2> QED BY <2>5 DEF TypeOK
<1>2. WriterHolds'
    BY DEF TypeOK, WriterHolds
<1>3. QuietAfterLogout'
    BY DEF TypeOK, WriterHolds, QuietAfterLogout, Quiet, LoggingOut, Opening, Leaving
<1>4. CacheStaysCleared'
    BY DEF TypeOK, CacheStaysCleared, QuietAfterLogout, Quiet, Opening, LoggingOut
<1>5. CarriesOnlyAccepted'
    BY DEF TypeOK, Holds, CarriesOnlyAccepted, Accepted
<1>6. ShowsOnlyAccepted'
    BY DEF TypeOK, Holds, ShowsOnlyAccepted, CarriesOnlyAccepted, Accepted
<1> QED BY <1>1, <1>2, <1>3, <1>4, <1>5, <1>6

\* A command that fails changes nothing.
LEMMA CallFailsIInv == ASSUME IInv, NEW c \in Calls, CallFails(c) PROVE IInv'
<1> USE DEF IInv, CallFails
<1>1. TypeOK'
    BY DEF TypeOK, Holds, Call, Steps, Opening, Leaving
<1>2. WriterHolds'
    BY DEF TypeOK, WriterHolds
<1>3. QuietAfterLogout'
    BY DEF TypeOK, WriterHolds, QuietAfterLogout, Quiet, LoggingOut, Opening, Leaving
<1>4. CacheStaysCleared'
    BY DEF TypeOK, CacheStaysCleared, QuietAfterLogout, Quiet, Opening, LoggingOut
<1>5. CarriesOnlyAccepted'
    BY DEF TypeOK, Holds, CarriesOnlyAccepted, Accepted
<1>6. ShowsOnlyAccepted'
    BY DEF TypeOK, Holds, ShowsOnlyAccepted, CarriesOnlyAccepted, Accepted
<1> QED BY <1>1, <1>2, <1>3, <1>4, <1>5, <1>6

\* A sync takes the lock, so a vault is open and no logout is followed by quiet.
LEMMA SyncAppliesIInv == ASSUME IInv, NEW c \in Calls, SyncApplies(c) PROVE IInv'
<1> USE DEF IInv, SyncApplies, HeldBy
<1>1. TypeOK'
  <2>1. session.key \in Keys /\ stored \in Accounts \cup {None}
      BY DEF TypeOK
  <2> DEFINE next == [calls[c] EXCEPT !.at = "sync.save", !.row = stored,
                                      !.key = session.key]
  <2>2. next.at = "sync.save" /\ next.vault = calls[c].vault
        /\ next.key = session.key /\ next \in Call
    <3>1. calls[c] \in Call
        BY DEF TypeOK
    <3> HIDE DEF Keys
    <3> QED BY <2>1, <3>1 DEF Call, Steps
  <2>3. calls' = [calls EXCEPT ![c] = next]
      BY DEF TypeOK, Call
  <2> HIDE DEF next
  <2>4. Holds(next)
      BY <2>1, <2>2 DEF TypeOK, Holds
  <2>5. calls' \in [Calls -> Call] /\ \A d \in Calls : Holds(calls'[d])
      BY <2>2, <2>3, <2>4, GoesTo DEF TypeOK
  <2> QED BY <2>5 DEF TypeOK
<1>2. WriterHolds'
    BY DEF TypeOK, WriterHolds
<1>3. QuietAfterLogout'
    BY DEF TypeOK, WriterHolds, QuietAfterLogout, Quiet, LoggingOut, Opening, Leaving
<1>4. CacheStaysCleared'
    BY DEF TypeOK, CacheStaysCleared, QuietAfterLogout, Quiet, Opening, LoggingOut
<1>5. CarriesOnlyAccepted'
    BY DEF TypeOK, Holds, CarriesOnlyAccepted, Accepted
<1>6. ShowsOnlyAccepted'
    BY DEF TypeOK, Holds, ShowsOnlyAccepted, CarriesOnlyAccepted, Accepted
<1> QED BY <1>1, <1>2, <1>3, <1>4, <1>5, <1>6

\* A sync writes the cache and lets the lock go.
LEMMA SyncSavesIInv == ASSUME IInv, NEW c \in Calls, SyncSaves(c) PROVE IInv'
<1> USE DEF IInv, SyncSaves, WithVault
<1>1. TypeOK'
    BY DEF TypeOK, Holds, Call, Steps, Opening, Leaving
<1>2. WriterHolds'
    BY DEF TypeOK, WriterHolds
<1>3. QuietAfterLogout'
    BY DEF TypeOK, WriterHolds, QuietAfterLogout, Quiet, LoggingOut, Opening, Leaving
<1>4. CacheStaysCleared'
    BY DEF TypeOK, CacheStaysCleared, QuietAfterLogout, Quiet, Opening, LoggingOut
<1>5. CarriesOnlyAccepted'
    BY DEF TypeOK, Holds, CarriesOnlyAccepted, Accepted
<1>6. ShowsOnlyAccepted'
    BY DEF TypeOK, Holds, ShowsOnlyAccepted, CarriesOnlyAccepted, Accepted
<1> QED BY <1>1, <1>2, <1>3, <1>4, <1>5, <1>6

\* The server only adds to what it has accepted.
LEMMA ServerAcceptsIInv == ASSUME IInv, NEW c \in Calls, ServerAccepts(c) PROVE IInv'
<1> USE DEF IInv, ServerAccepts
<1>1. TypeOK'
    BY DEF TypeOK, Holds, Call, Steps, Opening, Leaving
<1>2. WriterHolds'
  <2>1. CASE Goto(c, "edit.splice")
      BY <2>1 DEF TypeOK, WriterHolds
  <2>2. CASE Return(c)
      BY <2>2 DEF TypeOK, WriterHolds
  <2> QED BY <2>1, <2>2
<1>3. QuietAfterLogout'
  <2>1. CASE Goto(c, "edit.splice")
      BY <2>1 DEF TypeOK, WriterHolds, QuietAfterLogout, Quiet, LoggingOut, Opening, Leaving
  <2>2. CASE Return(c)
      BY <2>2 DEF TypeOK, WriterHolds, QuietAfterLogout, Quiet, LoggingOut, Opening, Leaving
  <2> QED BY <2>1, <2>2
<1>4. CacheStaysCleared'
    BY DEF TypeOK, CacheStaysCleared, QuietAfterLogout, Quiet, Opening, LoggingOut
<1>5. CarriesOnlyAccepted'
  <2>1. CASE Goto(c, "edit.splice")
      BY <2>1 DEF TypeOK, Holds, CarriesOnlyAccepted, Accepted
  <2>2. CASE Return(c)
      BY <2>2 DEF TypeOK, Holds, CarriesOnlyAccepted, Accepted
  <2> QED BY <2>1, <2>2
<1>6. ShowsOnlyAccepted'
    BY DEF TypeOK, Holds, ShowsOnlyAccepted, CarriesOnlyAccepted, Accepted
<1> QED BY <1>1, <1>2, <1>3, <1>4, <1>5, <1>6

\* What is spliced was accepted.
LEMMA EditSplicesIInv == ASSUME IInv, NEW c \in Calls, EditSplices(c) PROVE IInv'
<1> USE DEF IInv, EditSplices, SplicedAt
<1>1. TypeOK'
    BY DEF TypeOK, Holds, Call, Steps, Opening, Leaving
<1>2. WriterHolds'
    BY DEF TypeOK, WriterHolds
<1>3. QuietAfterLogout'
    BY DEF TypeOK, WriterHolds, QuietAfterLogout, Quiet, LoggingOut, Opening, Leaving
<1>4. CacheStaysCleared'
    BY DEF TypeOK, CacheStaysCleared, QuietAfterLogout, Quiet, Opening, LoggingOut
<1>5. CarriesOnlyAccepted'
    BY DEF TypeOK, Holds, CarriesOnlyAccepted, Accepted
<1>6. ShowsOnlyAccepted'
    BY DEF TypeOK, Holds, ShowsOnlyAccepted, CarriesOnlyAccepted, Accepted
<1> QED BY <1>1, <1>2, <1>3, <1>4, <1>5, <1>6

\* A command to open a vault ends the quiet.
LEMMA UnlockStartIInv == ASSUME IInv, NEW c \in Calls, UnlockStart(c) PROVE IInv'
<1> USE DEF IInv, UnlockStart, OpeningStarts
<1>1. TypeOK'
    BY DEF TypeOK, Holds, Call, Steps, Opening, Leaving
<1>2. WriterHolds'
    BY DEF TypeOK, WriterHolds
<1>3. QuietAfterLogout'
    BY DEF TypeOK, WriterHolds, QuietAfterLogout, Quiet, LoggingOut, Opening, Leaving
<1>4. CacheStaysCleared'
    BY DEF TypeOK, CacheStaysCleared, QuietAfterLogout, Quiet, Opening, LoggingOut
<1>5. CarriesOnlyAccepted'
    BY DEF TypeOK, Holds, CarriesOnlyAccepted, Accepted
<1>6. ShowsOnlyAccepted'
    BY DEF TypeOK, Holds, ShowsOnlyAccepted, CarriesOnlyAccepted, Accepted
<1> QED BY <1>1, <1>2, <1>3, <1>4, <1>5, <1>6

\* session.json is written by a command that had started.
LEMMA OpenSavesIInv == ASSUME IInv, NEW c \in Calls, OpenSaves(c) PROVE IInv'
<1> USE DEF IInv, OpenSaves
<1>1. TypeOK'
    BY DEF TypeOK, Holds, Call, Steps, Opening, Leaving
<1>2. WriterHolds'
    BY DEF TypeOK, WriterHolds
<1>3. QuietAfterLogout'
    BY DEF TypeOK, WriterHolds, QuietAfterLogout, Quiet, LoggingOut, Opening, Leaving
<1>4. CacheStaysCleared'
    BY DEF TypeOK, CacheStaysCleared, QuietAfterLogout, Quiet, Opening, LoggingOut
<1>5. CarriesOnlyAccepted'
    BY DEF TypeOK, Holds, CarriesOnlyAccepted, Accepted
<1>6. ShowsOnlyAccepted'
    BY DEF TypeOK, Holds, ShowsOnlyAccepted, CarriesOnlyAccepted, Accepted
<1> QED BY <1>1, <1>2, <1>3, <1>4, <1>5, <1>6

\* So is the session.
LEMMA OpenStoresIInv == ASSUME IInv, NEW c \in Calls, OpenStores(c) PROVE IInv'
<1> USE DEF IInv, OpenStores, Opened
<1>1. TypeOK'
    BY DEF TypeOK, Holds, Call, Steps, Opening, Leaving
<1>2. WriterHolds'
    BY DEF TypeOK, WriterHolds
<1>3. QuietAfterLogout'
    BY DEF TypeOK, WriterHolds, QuietAfterLogout, Quiet, LoggingOut, Opening, Leaving
<1>4. CacheStaysCleared'
    BY DEF TypeOK, CacheStaysCleared, QuietAfterLogout, Quiet, Opening, LoggingOut
<1>5. CarriesOnlyAccepted'
    BY DEF TypeOK, Holds, CarriesOnlyAccepted, Accepted
<1>6. ShowsOnlyAccepted'
    BY DEF TypeOK, Holds, ShowsOnlyAccepted, CarriesOnlyAccepted, Accepted
<1> QED BY <1>1, <1>2, <1>3, <1>4, <1>5, <1>6

\* So is a session without a server.
LEMMA UnlockOfflineIInv == ASSUME IInv, NEW c \in Calls, UnlockOffline(c) PROVE IInv'
<1> USE DEF IInv, UnlockOffline, Opened
<1>1. TypeOK'
    BY DEF TypeOK, Holds, Call, Steps, Opening, Leaving
<1>2. WriterHolds'
    BY DEF TypeOK, WriterHolds
<1>3. QuietAfterLogout'
    BY DEF TypeOK, WriterHolds, QuietAfterLogout, Quiet, LoggingOut, Opening, Leaving
<1>4. CacheStaysCleared'
    BY DEF TypeOK, CacheStaysCleared, QuietAfterLogout, Quiet, Opening, LoggingOut
<1>5. CarriesOnlyAccepted'
    BY DEF TypeOK, Holds, CarriesOnlyAccepted, Accepted
<1>6. ShowsOnlyAccepted'
    BY DEF TypeOK, Holds, ShowsOnlyAccepted, CarriesOnlyAccepted, Accepted
<1> QED BY <1>1, <1>2, <1>3, <1>4, <1>5, <1>6

\* Opening an export ends the quiet.
LEMMA ExportStartIInv == ASSUME IInv, NEW c \in Calls, ExportStart(c) PROVE IInv'
<1> USE DEF IInv, ExportStart, OpeningStarts
<1>1. TypeOK'
    BY DEF TypeOK, Holds, Call, Steps, Opening, Leaving
<1>2. WriterHolds'
    BY DEF TypeOK, WriterHolds
<1>3. QuietAfterLogout'
    BY DEF TypeOK, WriterHolds, QuietAfterLogout, Quiet, LoggingOut, Opening, Leaving
<1>4. CacheStaysCleared'
    BY DEF TypeOK, CacheStaysCleared, QuietAfterLogout, Quiet, Opening, LoggingOut
<1>5. CarriesOnlyAccepted'
    BY DEF TypeOK, Holds, CarriesOnlyAccepted, Accepted
<1>6. ShowsOnlyAccepted'
    BY DEF TypeOK, Holds, ShowsOnlyAccepted, CarriesOnlyAccepted, Accepted
<1> QED BY <1>1, <1>2, <1>3, <1>4, <1>5, <1>6

\* An export's session shows no edits.
LEMMA ExportStoresIInv == ASSUME IInv, NEW c \in Calls, ExportStores(c) PROVE IInv'
<1> USE DEF IInv, ExportStores, Opened
<1>1. TypeOK'
    BY DEF TypeOK, Holds, Call, Steps, Opening, Leaving
<1>2. WriterHolds'
    BY DEF TypeOK, WriterHolds
<1>3. QuietAfterLogout'
    BY DEF TypeOK, WriterHolds, QuietAfterLogout, Quiet, LoggingOut, Opening, Leaving
<1>4. CacheStaysCleared'
    BY DEF TypeOK, CacheStaysCleared, QuietAfterLogout, Quiet, Opening, LoggingOut
<1>5. CarriesOnlyAccepted'
    BY DEF TypeOK, Holds, CarriesOnlyAccepted, Accepted
<1>6. ShowsOnlyAccepted'
    BY DEF TypeOK, Holds, ShowsOnlyAccepted, CarriesOnlyAccepted, Accepted
<1> QED BY <1>1, <1>2, <1>3, <1>4, <1>5, <1>6

\* A logout that finds the lock free meets no sync about to write.
LEMMA LogoutStartIInv == ASSUME IInv, NEW c \in Calls, LogoutStart(c) PROVE IInv'
<1> USE DEF IInv, LogoutStart
<1>1. TypeOK'
    BY DEF TypeOK, Holds, Call, Steps, Opening, Leaving
<1>2. WriterHolds'
    BY DEF TypeOK, WriterHolds
<1>3. QuietAfterLogout'
    BY DEF TypeOK, WriterHolds, QuietAfterLogout, Quiet, LoggingOut, Opening, Leaving
<1>4. CacheStaysCleared'
    BY DEF TypeOK, CacheStaysCleared, QuietAfterLogout, Quiet, Opening, LoggingOut
<1>5. CarriesOnlyAccepted'
    BY DEF TypeOK, Holds, CarriesOnlyAccepted, Accepted
<1>6. ShowsOnlyAccepted'
    BY DEF TypeOK, Holds, ShowsOnlyAccepted, CarriesOnlyAccepted, Accepted
<1> QED BY <1>1, <1>2, <1>3, <1>4, <1>5, <1>6

\* A logout forgets session.json, or fails.
LEMMA LogoutForgetsIInv == ASSUME IInv, NEW c \in Calls, LogoutForgets(c) PROVE IInv'
<1> USE DEF IInv, LogoutForgets
<1>1. TypeOK'
    BY DEF TypeOK, Holds, Call, Steps, Opening, Leaving
<1>2. WriterHolds'
  <2>1. CASE Goto(c, "out.cache")
      BY <2>1 DEF TypeOK, WriterHolds
  <2>2. CASE Return(c)
      BY <2>2 DEF TypeOK, WriterHolds
  <2> QED BY <2>1, <2>2
<1>3. QuietAfterLogout'
  <2>1. CASE Goto(c, "out.cache")
      BY <2>1 DEF TypeOK, WriterHolds, QuietAfterLogout, Quiet, LoggingOut, Opening, Leaving
  <2>2. CASE Return(c)
      BY <2>2 DEF TypeOK, WriterHolds, QuietAfterLogout, Quiet, LoggingOut, Opening, Leaving
  <2> QED BY <2>1, <2>2
<1>4. CacheStaysCleared'
    BY DEF TypeOK, CacheStaysCleared, QuietAfterLogout, Quiet, Opening, LoggingOut
<1>5. CarriesOnlyAccepted'
  <2>1. CASE Goto(c, "out.cache")
      BY <2>1 DEF TypeOK, Holds, CarriesOnlyAccepted, Accepted
  <2>2. CASE Return(c)
      BY <2>2 DEF TypeOK, Holds, CarriesOnlyAccepted, Accepted
  <2> QED BY <2>1, <2>2
<1>6. ShowsOnlyAccepted'
    BY DEF TypeOK, Holds, ShowsOnlyAccepted, CarriesOnlyAccepted, Accepted
<1> QED BY <1>1, <1>2, <1>3, <1>4, <1>5, <1>6

\* A logout ends with an empty cache, or with one it failed to clear.
LEMMA LogoutClearsIInv == ASSUME IInv, NEW c \in Calls, LogoutClears(c) PROVE IInv'
<1> USE DEF IInv, LogoutClears, ClearedAll
<1>1. TypeOK'
  <2>1. wiped' \in BOOLEAN
      BY Zenon DEF TypeOK
  <2> QED BY <2>1 DEF TypeOK, Holds, Call, Steps, Opening, Leaving
<1>2. WriterHolds'
    BY DEF TypeOK, WriterHolds
<1>3. QuietAfterLogout'
    BY DEF TypeOK, WriterHolds, QuietAfterLogout, Quiet, LoggingOut, Opening, Leaving
<1>4. CacheStaysCleared'
    BY DEF CacheStaysCleared
<1>5. CarriesOnlyAccepted'
    BY DEF TypeOK, Holds, CarriesOnlyAccepted, Accepted
<1>6. ShowsOnlyAccepted'
    BY DEF TypeOK, Holds, ShowsOnlyAccepted, CarriesOnlyAccepted, Accepted
<1> QED BY <1>1, <1>2, <1>3, <1>4, <1>5, <1>6

\* An edit is sent.
LEMMA EditStartIInv == ASSUME IInv, NEW c \in Calls, NEW e \in Edits, EditStart(c, e) PROVE IInv'
<1> USE DEF IInv, EditStart, CanReachServer
<1>1. TypeOK'
    BY DEF TypeOK, Holds, Call, Steps, Opening, Leaving
<1>2. WriterHolds'
    BY DEF TypeOK, WriterHolds
<1>3. QuietAfterLogout'
    BY DEF TypeOK, WriterHolds, QuietAfterLogout, Quiet, LoggingOut, Opening, Leaving
<1>4. CacheStaysCleared'
    BY DEF TypeOK, CacheStaysCleared, QuietAfterLogout, Quiet, Opening, LoggingOut
<1>5. CarriesOnlyAccepted'
    BY DEF TypeOK, Holds, CarriesOnlyAccepted, Accepted
<1>6. ShowsOnlyAccepted'
    BY DEF TypeOK, Holds, ShowsOnlyAccepted, CarriesOnlyAccepted, Accepted
<1> QED BY <1>1, <1>2, <1>3, <1>4, <1>5, <1>6

\* A login ends the quiet.
LEMMA LoginStartIInv == ASSUME IInv, NEW c \in Calls, NEW a \in Accounts, LoginStart(c, a) PROVE IInv'
<1> USE DEF IInv, LoginStart, CanReachServer, OpeningStarts
<1>1. TypeOK'
    BY DEF TypeOK, Holds, Call, Steps, Opening, Leaving
<1>2. WriterHolds'
    BY DEF TypeOK, WriterHolds
<1>3. QuietAfterLogout'
    BY DEF TypeOK, WriterHolds, QuietAfterLogout, Quiet, LoggingOut, Opening, Leaving
<1>4. CacheStaysCleared'
    BY DEF TypeOK, CacheStaysCleared, QuietAfterLogout, Quiet, Opening, LoggingOut
<1>5. CarriesOnlyAccepted'
    BY DEF TypeOK, Holds, CarriesOnlyAccepted, Accepted
<1>6. ShowsOnlyAccepted'
    BY DEF TypeOK, Holds, ShowsOnlyAccepted, CarriesOnlyAccepted, Accepted
<1> QED BY <1>1, <1>2, <1>3, <1>4, <1>5, <1>6

-----------------------------------------------------------------------------
(* Steps of no invocation.                                                 *)

\* The cached vault is painted.
LEMMA LoadCachedIInv == ASSUME IInv, LoadCached PROVE IInv'
<1> USE DEF IInv, LoadCached, WithVault
<1>1. TypeOK'
    BY DEF TypeOK, Holds, Call, Steps, Opening, Leaving
<1>2. WriterHolds'
    BY DEF TypeOK, WriterHolds
<1>3. QuietAfterLogout'
    BY DEF TypeOK, WriterHolds, QuietAfterLogout, Quiet, LoggingOut, Opening, Leaving
<1>4. CacheStaysCleared'
    BY DEF TypeOK, CacheStaysCleared, QuietAfterLogout, Quiet, Opening, LoggingOut
<1>5. CarriesOnlyAccepted'
    BY DEF TypeOK, Holds, CarriesOnlyAccepted, Accepted
<1>6. ShowsOnlyAccepted'
    BY DEF TypeOK, Holds, ShowsOnlyAccepted, CarriesOnlyAccepted, Accepted
<1> QED BY <1>1, <1>2, <1>3, <1>4, <1>5, <1>6

\* The vault is locked.
LEMMA LockIInv == ASSUME IInv, Lock PROVE IInv'
<1> USE DEF IInv, Lock
<1>1. TypeOK'
    BY DEF TypeOK, Holds, Call, Steps, Opening, Leaving
<1>2. WriterHolds'
    BY DEF TypeOK, WriterHolds
<1>3. QuietAfterLogout'
    BY DEF TypeOK, WriterHolds, QuietAfterLogout, Quiet, LoggingOut, Opening, Leaving
<1>4. CacheStaysCleared'
    BY DEF TypeOK, CacheStaysCleared, QuietAfterLogout, Quiet, Opening, LoggingOut
<1>5. CarriesOnlyAccepted'
    BY DEF TypeOK, Holds, CarriesOnlyAccepted, Accepted
<1>6. ShowsOnlyAccepted'
    BY DEF TypeOK, Holds, ShowsOnlyAccepted, CarriesOnlyAccepted, Accepted
<1> QED BY <1>1, <1>2, <1>3, <1>4, <1>5, <1>6

\* The process dies with its commands; the disk is as it was.
LEMMA CrashIInv == ASSUME IInv, Crash PROVE IInv'
<1> USE DEF IInv, Crash
<1>1. TypeOK'
    BY DEF TypeOK, Holds, Call, Steps, Opening, Leaving
<1>2. WriterHolds'
    BY DEF TypeOK, WriterHolds
<1>3. QuietAfterLogout'
    BY DEF TypeOK, WriterHolds, QuietAfterLogout, Quiet, LoggingOut, Opening, Leaving
<1>4. CacheStaysCleared'
    BY DEF TypeOK, CacheStaysCleared, QuietAfterLogout, Quiet, Opening, LoggingOut
<1>5. CarriesOnlyAccepted'
    BY DEF TypeOK, Holds, CarriesOnlyAccepted, Accepted
<1>6. ShowsOnlyAccepted'
    BY DEF TypeOK, Holds, ShowsOnlyAccepted, CarriesOnlyAccepted, Accepted
<1> QED BY <1>1, <1>2, <1>3, <1>4, <1>5, <1>6

-----------------------------------------------------------------------------
(* The theorems.                                                           *)

\* The strengthened invariant holds in every reachable state.
THEOREM Invariance == Spec => []IInv
<1>1. IInv /\ Next => IInv'
      BY SyncStartIInv, ServerAnswersIInv, CallFailsIInv, SyncAppliesIInv,
         SyncSavesIInv, ServerAcceptsIInv, EditSplicesIInv, UnlockStartIInv,
         OpenSavesIInv, OpenStoresIInv, UnlockOfflineIInv, ExportStartIInv,
         ExportStoresIInv, LogoutStartIInv, LogoutForgetsIInv,
         LogoutClearsIInv, EditStartIInv, LoginStartIInv, LoadCachedIInv,
         LockIInv, CrashIInv
      DEF Next
<1>2. IInv /\ UNCHANGED vars => IInv'
      BY DEF vars, IInv, TypeOK, WriterHolds, QuietAfterLogout, Quiet, LoggingOut,
         CacheStaysCleared, CarriesOnlyAccepted, ShowsOnlyAccepted, Accepted
<1> QED BY InitIInv, <1>1, <1>2, PTL DEF Spec

\* Every variable keeps its type; in particular no sync is sent, and no answer
\* applied, for a session without a server.
THEOREM TypeCorrect == Spec => []TypeOK
BY Invariance, PTL DEF IInv

\* A logout that could clear the cache leaves no vault on disk, and none comes back
\* by itself (cmd logout against the lock sync holds), for any number of accounts
\* and commands.
THEOREM LogoutClearsForGood == Spec => []CacheStaysCleared
BY Invariance, PTL DEF IInv

\* Neither the vault on screen nor its copy on disk shows a change no server
\* has accepted (sync and create_folder splice answers only).
THEOREM OnlyAcceptedIsShown == Spec => []ShowsOnlyAccepted
BY Invariance, PTL DEF IInv
=============================================================================
