------------------------------ MODULE SshAgent ------------------------------
(***************************************************************************)
(* The SSH agent: the handle slot in AppState, the agent runs and their    *)
(* connection tasks, the socket path they share, the commands that start   *)
(* and stop them, and the vault whose keys they hold.                      *)
(*                                                                         *)
(* Each run has its own accept loop, key store and SignGuard.  Aborting    *)
(* the accept loop closes the listener; the connection tasks it spawned    *)
(* are tasks of their own and go on.  Replacing a handle in the slot drops *)
(* it, which aborts nothing.                                               *)
(***************************************************************************)
EXTENDS SshConfirm

CONSTANTS
    Keys,      \* SSH keys in the vault that the agent can load
    Policies,  \* SignPolicy: "never", "session" (PerSession), "always"
    Calls,     \* start, stop and lock commands that may be in flight together
    Conns,     \* client connections that may be open together
    MaxRuns    \* bound on the agent runs of one process life

ASSUME PoliciesAssumption == Policies \subseteq {"never", "session", "always"}
ASSUME MaxRunsAssumption == MaxRuns \in Nat
ASSUME AgentNoneAssumption == None \notin Keys \cup (1..MaxRuns)
ASSUME RequestNoneAssumption == None \notin [key : Keys, run : 1..MaxRuns]

VARIABLES
    open,     \* AppState.session holds a vault
    slot,     \* AppState.ssh_agent: the run whose handle is stored, or None
    runs,     \* runs[r]: the accept loop and guard of the r-th agent
    path,     \* what agent.sock leads to: a run's listener, 0 for the file of
              \* an earlier process, None for no file
    calls,    \* calls[c]: where a command stands
    conns,    \* conns[k]: where a connection's serve task stands
    asked     \* asked[id]: the key the request names, and the run that asks

agent == <<slot, runs, path>>
vars == <<open, agent, calls, conns, asked, confirmVars>>

Runs == 1..MaxRuns

Run == [policy : Policies, accepting : BOOLEAN, approved : SUBSET Keys]

Call ==
    [kind   : {"none", "start", "stop", "lock"},
     at     : {"idle", "remove", "read", "unlink", "bind", "store",
               "close"},
     run    : Runs \cup {None}]
Idle == [kind |-> "none", at |-> "idle", run |-> None]

Conn ==
    [at  : {"closed", "idle", "ask", "wait", "expired", "remember", "sign"},
     run : Runs \cup {None},
     key : Keys \cup {None},
     id  : Ids \cup {None}]
Closed == [at |-> "closed", run |-> None, key |-> None, id |-> None]
Served(r) == [at |-> "idle", run |-> r, key |-> None, id |-> None]

TypeOK ==
    /\ ConfirmTypeOK
    /\ open \in BOOLEAN
    /\ slot \in Runs \cup {None}
    /\ runs \in Seq(Run) /\ Len(runs) <= MaxRuns
    /\ path \in 0..Len(runs) \cup {None}
    /\ calls \in [Calls -> Call]
    /\ conns \in [Conns -> Conn]
    /\ asked \in [Ids -> [key : Keys, run : Runs] \cup {None}]

Init ==
    /\ ConfirmInit
    /\ open = FALSE
    /\ slot = None
    /\ runs = <<>>
    /\ path \in {0, None}
    /\ calls = [c \in Calls |-> Idle]
    /\ conns = [k \in Conns |-> Closed]
    /\ asked = [id \in Ids |-> None]

Goto(c, step) == calls' = [calls EXCEPT ![c].at = step]
Return(c) == calls' = [calls EXCEPT ![c] = Idle]

-----------------------------------------------------------------------------
(* start_ssh_agent, stop_ssh_agent, lock (logout, the tray, auto-lock).    *)

\* Slip: a restart leaves the old agent to the unlink before the bind.
StopsUnlessRestart(kind) == kind # "start"

\* All three take the handle out of the slot and stop it.
Stops(kind) == TRUE

\* A stop has only the skip list left to clear.
Later(call) ==
    IF call.kind = "stop"
      THEN Idle
      ELSE [call EXCEPT !.at = IF call.kind = "start" THEN "read" ELSE "close"]

\* The handle is taken and the accept loop aborted, which closes the listener.
Take(c, kind) ==
    LET stopping == slot # None /\ Stops(kind)
        call == [kind |-> kind, at |-> "remove", run |-> None]
    IN
    /\ calls[c] = Idle
    /\ slot' = None
    /\ runs' = IF stopping THEN [runs EXCEPT ![slot].accepting = FALSE]
                           ELSE runs
    /\ calls' = [calls EXCEPT ![c] = IF stopping THEN call ELSE Later(call)]
    /\ UNCHANGED <<open, path, conns, asked, confirmVars>>

\* remove_file of the socket path, which is the same for every run.
Removes(c) ==
    /\ calls[c].at = "remove"
    /\ path' = None
    /\ calls' = [calls EXCEPT ![c] = Later(@)]
    /\ UNCHANGED <<open, slot, runs, conns, asked, confirmVars>>

\* The keys are decrypted in one window of the session lock.
StartReads(c) ==
    /\ calls[c].at = "read"
    /\ IF open THEN Goto(c, "unlink") ELSE Return(c)
    /\ UNCHANGED <<open, agent, conns, asked, confirmVars>>

StartUnlinks(c) ==
    /\ calls[c].at = "unlink"
    /\ path' = None
    /\ Goto(c, "bind")
    /\ UNCHANGED <<open, slot, runs, conns, asked, confirmVars>>

\* Slip: the guard of the previous run is used again.
KeptApprovals == IF runs = <<>> THEN {} ELSE runs[Len(runs)].approved

\* SignGuard::new
NoApprovals == {}

\* bind refuses a path that exists.  The policy is start's argument, and is
\* used here first.
StartBinds(c, policy) ==
    LET r == Len(runs) + 1 IN
    /\ calls[c].at = "bind"
    /\ path = None
    /\ r <= MaxRuns
    /\ runs' = Append(runs, [policy |-> policy, accepting |-> TRUE,
                             approved |-> NoApprovals])
    /\ path' = r
    /\ calls' = [calls EXCEPT ![c].at = "store", ![c].run = r]
    /\ UNCHANGED <<open, slot, conns, asked, confirmVars>>

StartFails(c) ==
    /\ calls[c].at = "bind"
    /\ Return(c)
    /\ UNCHANGED <<open, agent, conns, asked, confirmVars>>

\* Whatever the slot holds by now is dropped.
StartStores(c) ==
    /\ calls[c].at = "store"
    /\ slot' = calls[c].run
    /\ Return(c)
    /\ UNCHANGED <<open, runs, path, conns, asked, confirmVars>>

LockCloses(c) ==
    /\ calls[c].at = "close"
    /\ open' = FALSE
    /\ Return(c)
    /\ UNCHANGED <<agent, conns, asked, confirmVars>>

\* Any command that opens a vault; none of them touches the agent.
Unlock ==
    /\ ~open
    /\ open' = TRUE
    /\ UNCHANGED <<agent, calls, conns, asked, confirmVars>>

CommandStep ==
    \/ \E c \in Calls, kind \in {"start", "stop", "lock"} : Take(c, kind)
    \/ \E c \in Calls :
        \/ Removes(c)
        \/ StartReads(c)
        \/ StartUnlinks(c)
        \/ \E policy \in Policies : StartBinds(c, policy)
        \/ StartFails(c)
        \/ StartStores(c)
        \/ LockCloses(c)
    \/ Unlock

-----------------------------------------------------------------------------
(* The accept loop and the connection tasks.                               *)

Live(r) == r \in 1..Len(runs) /\ runs[r].accepting

\* An accept error ends the loop; its file stays.
AcceptFails(r) ==
    /\ Live(r)
    /\ runs' = [runs EXCEPT ![r].accepting = FALSE]
    /\ UNCHANGED <<open, slot, path, calls, conns, asked, confirmVars>>

Connects(k) ==
    /\ conns[k].at = "closed"
    /\ Live(path)
    /\ conns' = [conns EXCEPT ![k] = Served(path)]
    /\ UNCHANGED <<open, agent, calls, asked, confirmVars>>

\* serve sees the end of the stream only between requests.
Disconnects(k) ==
    /\ conns[k].at = "idle"
    /\ conns' = [conns EXCEPT ![k] = Closed]
    /\ UNCHANGED <<open, agent, calls, asked, confirmVars>>

RunOf(k) == runs[conns[k].run]

\* authorize: where a request for a key of the store goes first.
Authorized(k, key) ==
    \/ RunOf(k).policy = "never"
    \/ RunOf(k).policy = "session" /\ key \in RunOf(k).approved

\* handle_sign up to its first await.  A request for a key the run does not
\* hold fails at once and changes nothing.
SignRequested(k, key) ==
    /\ conns[k].at = "idle"
    /\ conns' = [conns EXCEPT
                   ![k].at = IF Authorized(k, key) THEN "sign" ELSE "ask",
                   ![k].key = key]
    /\ UNCHANGED <<open, agent, calls, asked, confirmVars>>

Replies(k) == conns' = [conns EXCEPT ![k] = Served(conns[k].run)]

Asks(k) ==
    /\ conns[k].at = "ask"
    /\ \E id \in Ids :
         /\ Request(id)
         /\ conns' = [conns EXCEPT ![k].at = "wait", ![k].id = id]
         /\ asked' = [asked EXCEPT ![id] =
                        [key |-> conns[k].key, run |-> conns[k].run]]
    /\ UNCHANGED <<open, agent, calls>>

AskFails(k) ==
    /\ conns[k].at = "ask"
    /\ RequestFails
    /\ Replies(k)
    /\ UNCHANGED <<open, agent, calls, asked>>

\* The answer has come: sign, remember the key first, or refuse.
Hears(k) ==
    /\ conns[k].at = "wait"
    /\ Answered(conns[k].id)
    /\ IF Granted(conns[k].id)
         THEN conns' = [conns EXCEPT
                ![k].at = IF RunOf(k).policy = "session" THEN "remember"
                                                         ELSE "sign"]
         ELSE Replies(k)
    /\ Hear(conns[k].id)
    /\ UNCHANGED <<open, agent, calls, asked>>

\* Slip: the 30 seconds begin when the request comes on screen.
TimerRunsOnScreen(id) == current = id

\* The 30 seconds begin when the event is emitted.
TimerRuns(id) == TRUE

Expires(k) ==
    /\ conns[k].at = "wait"
    /\ ~Answered(conns[k].id)
    /\ TimerRuns(conns[k].id)
    /\ conns' = [conns EXCEPT ![k].at = "expired"]
    /\ UNCHANGED <<open, agent, calls, asked, confirmVars>>

\* The entry is taken out, if an answer has not done so, and the request denied.
CleansUp(k) ==
    /\ conns[k].at = "expired"
    /\ GiveUp(conns[k].id)
    /\ Replies(k)
    /\ UNCHANGED <<open, agent, calls, asked>>

Remembers(k) ==
    /\ conns[k].at = "remember"
    /\ runs' = [runs EXCEPT ![conns[k].run].approved = @ \cup {conns[k].key}]
    /\ conns' = [conns EXCEPT ![k].at = "sign"]
    /\ UNCHANGED <<open, slot, path, calls, asked, confirmVars>>

Signs(k) ==
    /\ conns[k].at = "sign"
    /\ Replies(k)
    /\ UNCHANGED <<open, agent, calls, asked, confirmVars>>

ConnStep ==
    \/ \E r \in Runs : AcceptFails(r)
    \/ \E k \in Conns :
        \/ Connects(k)
        \/ Disconnects(k)
        \/ \E key \in Keys : SignRequested(k, key)
        \/ Asks(k)
        \/ AskFails(k)
        \/ Hears(k)
        \/ Expires(k)
        \/ CleansUp(k)
        \/ Remembers(k)
        \/ Signs(k)

DialogMoves == DialogStep /\ UNCHANGED <<open, agent, calls, conns, asked>>

Next == CommandStep \/ ConnStep \/ DialogMoves

\* Connection tasks run and their timers fire.  Nothing is promised about the
\* window: it may be hidden, and the user away.
Fairness ==
    \A k \in Conns :
        WF_vars(Hears(k) \/ Expires(k) \/ CleansUp(k) \/ Remembers(k))

Spec == Init /\ [][Next]_vars /\ Fairness

-----------------------------------------------------------------------------
(* Properties.                                                             *)

\* A client gets a signature only if the run's policy lets it: asking always,
\* the user said yes to this very request; asking once per run, the user said
\* yes to this run asking for this key (SignGuard.authorize, and every hop of
\* the answer from the dialog's button to the one-shot channel).
SignedWithConsent ==
    \A k \in Conns :
        conns[k].at = "sign" =>
          \/ RunOf(k).policy = "never"
          \/ /\ RunOf(k).policy = "always"
             /\ conns[k].id \in yes
          \/ /\ RunOf(k).policy = "session"
             /\ \E id \in yes :
                  asked[id] = [key |-> conns[k].key, run |-> conns[k].run]

\* A socket that answers can be shut: its file is there only while a handle is
\* in the slot, or a start is about to store one, or a command that took one is
\* about to remove the file.  So no order of starts, stops and locks leaves a
\* door that a later lock does not close (start_ssh_agent's stop, unlink, bind
\* and store against stop and lock_now).
DoorHasAHandle ==
    Live(path) =>
        \/ slot # None
        \/ \E c \in Calls : calls[c].at \in {"remove", "store"}

\* The map of parked channels holds only requests that a connection still waits
\* for: a timeout, an answer and a failed emit all take their entry away,
\* whichever comes first.
ParkedIsAwaited ==
    \A id \in confirms :
        \E k \in Conns : conns[k].at \in {"wait", "expired"} /\ conns[k].id = id

\* "denying on timeout so a missed prompt can't hang an ssh/git invocation
\* forever": a client that waits for the user hears something, whatever the
\* window does.
EveryAskEnds ==
    \A k \in Conns :
        conns[k].at = "wait" ~> conns[k].at \in {"idle", "sign"}

\* Violated: with the vault locked and no command under way, no key signs.  The
\* validation checklist says the keys "are wiped when the agent is stopped
\* (lock, auto-lock, logout, app quit)"; stopping aborts only the accept loop,
\* and every connection already open keeps its key store.
LockedVaultSignsNothing ==
    ~open /\ (\A c \in Calls : calls[c] = Idle)
      => \A k \in Conns : conns[k].at # "sign"
=============================================================================
