-------------------------- MODULE SshAgentProofs --------------------------
(***************************************************************************)
(* Proofs about SshAgent, for any number of keys, commands, connections,   *)
(* runs and requests: type correctness, consent, the handle behind every   *)
(* live socket, and the two bookkeeping invariants of the handshake.       *)
(*                                                                         *)
(* Consent is not inductive: it rests on what a waiting connection knows   *)
(* of its request (Waiting), on every yes in flight having been given by   *)
(* the user (Honest), and on ids being handed out once (Fresh).            *)
(***************************************************************************)
EXTENDS SshAgent, TLAPS

HasKey == {"ask", "wait", "expired", "remember", "sign"}
HasId == {"wait", "expired", "remember"}

\* A connection belongs to a run, and a request under way names a key and, once
\* asked, an id that was asked for just that.
Waiting ==
    \A k \in Conns :
        /\ conns[k].at # "closed" => conns[k].run \in 1..Len(runs)
        /\ conns[k].at \in HasKey => conns[k].key \in Keys
        /\ conns[k].at \in HasId =>
             /\ conns[k].id \in Ids
             /\ asked[conns[k].id] =
                  [key |-> conns[k].key, run |-> conns[k].run]
        /\ conns[k].at = "remember" =>
             conns[k].id \in yes /\ RunOf(k).policy = "session"

\* No id ahead of the counter has been used for anything.
Fresh ==
    \A id \in Ids :
        /\ asked[id] # None => id <= seq
        /\ id \in confirms => id <= seq
        /\ answers[id] # "none" => id <= seq /\ id \notin confirms

\* A yes that travels, waits in a channel or is remembered was the user's.
Honest ==
    /\ \A reply \in replies : reply.ok => reply.id \in yes
    /\ \A id \in Ids : answers[id] = "yes" => id \in yes
    /\ \A r \in 1..Len(runs) : \A key \in runs[r].approved :
         \E id \in yes : asked[id] = [key |-> key, run |-> r]

\* Handles, stored or about to be, are handles of runs there have been.
Holding ==
    /\ slot # None => slot \in 1..Len(runs)
    /\ \A c \in Calls : calls[c].at = "store" => calls[c].run \in 1..Len(runs)

IInv ==
    /\ TypeOK
    /\ Waiting
    /\ Fresh
    /\ Honest
    /\ Holding
    /\ SignedWithConsent
    /\ DoorHasAHandle
    /\ ParkedIsAwaited
    /\ NoPromptIsStranded

USE MaxAsksAssumption, MaxRunsAssumption, PoliciesAssumption, NoneAssumption,
    AgentNoneAssumption
USE DEF Ids, Runs, HasKey, HasId

\* Initially every invariant holds.
LEMMA InitIInv == Init => IInv
<1> SUFFICES ASSUME Init PROVE IInv
    OBVIOUS
<1> USE DEF Init, ConfirmInit
<1>1. TypeOK
  <2>1. ConfirmTypeOK
      BY DEF ConfirmTypeOK
  <2>2. open \in BOOLEAN
      BY Zenon
  <2>3. calls \in [Calls -> Call] /\ conns \in [Conns -> Conn]
      BY DEF Call, Conn, Idle, Closed
  <2>4. runs \in Seq(Run) /\ Len(runs) = 0 /\ path \in 0..0 \cup {None}
      OBVIOUS
  <2> QED BY <2>1, <2>2, <2>3, <2>4 DEF TypeOK
<1>2. Waiting /\ Fresh /\ Honest /\ Holding
    BY DEF Waiting, Fresh, Honest, Holding, Idle, Closed
<1>3. SignedWithConsent /\ ParkedIsAwaited /\ NoPromptIsStranded
    BY DEF SignedWithConsent, ParkedIsAwaited, NoPromptIsStranded, Closed
<1>4. DoorHasAHandle
    BY DEF DoorHasAHandle, Live
<1> QED BY <1>1, <1>2, <1>3, <1>4 DEF IInv

-----------------------------------------------------------------------------
(* Types.                                                                  *)

\* Replacing an element keeps a sequence's type and length.
LEMMA ReplaceType ==
    ASSUME NEW S, NEW s \in Seq(S), NEW i \in 1..Len(s), NEW e \in S
    PROVE  [s EXCEPT ![i] = e] \in Seq(S) /\ Len([s EXCEPT ![i] = e]) = Len(s)
OBVIOUS

\* What taking from a queue and adding to it gives.
LEMMA QueueType ==
    ASSUME NEW S, NEW s \in Seq(S)
    PROVE  /\ s # <<>> => Head(s) \in S /\ Tail(s) \in Seq(S)
           /\ \A e \in S : Append(s, e) \in Seq(S)
OBVIOUS

\* The dialog and the map keep their types.
LEMMA DialogType == ConfirmTypeOK /\ DialogStep => ConfirmTypeOK'
<1> SUFFICES ASSUME ConfirmTypeOK, DialogStep PROVE ConfirmTypeOK'
    OBVIOUS
<1> HIDE DEF Ids
<1> USE DEF ConfirmTypeOK, handshake
<1>1. CASE EventArrives
  <2>1. Head(inbox) \in Ids /\ Tail(inbox) \in Seq(Ids)
      BY <1>1, QueueType DEF EventArrives
  <2>2. Append(queue, Head(inbox)) \in Seq(Ids)
      BY <2>1, QueueType
  <2> QED BY <1>1, <2>1, <2>2 DEF EventArrives
<1>2. ASSUME NEW ok \in BOOLEAN, Responds(ok) PROVE ConfirmTypeOK'
  <2>1. current \in Ids
      BY <1>2 DEF Responds, HasPrompt
  <2>2. [id |-> current, ok |-> ok] \in [id : Ids, ok : BOOLEAN]
      BY <2>1, Zenon
  <2>3. replies' \subseteq [id : Ids, ok : BOOLEAN]
      BY <1>2, <2>2 DEF Responds
  <2>4. yes' \subseteq Ids
      BY <1>2, <2>1 DEF Responds
  <2> QED BY <1>2, <2>3, <2>4 DEF Responds
<1>3. CASE ShowsNext
  <2>1. queue # <<>> => Head(queue) \in Ids /\ Tail(queue) \in Seq(Ids)
      BY QueueType
  <2>2. resumes' \in Nat
      BY <1>3 DEF ShowsNext
  <2>3. queue' \in Seq(Ids) /\ current' \in Ids \cup {None}
    <3>1. CASE queue # <<>>
        BY <1>3, <2>1, <3>1 DEF ShowsNext
    <3>2. CASE queue = <<>>
        BY <1>3, <3>2 DEF ShowsNext
    <3> QED BY <3>1, <3>2
  <2> QED BY <1>3, <2>2, <2>3 DEF ShowsNext
<1>4. CASE BackendResponds
  <2> PICK reply \in replies :
        /\ replies' = replies \ {reply}
        /\ resumes' = Resumed(reply.id)
        /\ confirms' = confirms \ {reply.id}
        /\ answers' = IF reply.id \in confirms
                        THEN [answers EXCEPT ![reply.id] =
                                IF reply.ok THEN "yes" ELSE "no"]
                        ELSE answers
        /\ UNCHANGED <<seq, inbox, current, queue, yes>>
      BY <1>4 DEF BackendResponds
  <2>1. answers' \in [Ids -> {"none", "yes", "no"}]
      OBVIOUS
  <2> QED BY <2>1 DEF Resumed
<1> QED BY <1>1, <1>2, <1>3, <1>4 DEF DialogStep

\* A command keeps the types of the agent's state.
LEMMA CommandType == TypeOK /\ Holding /\ CommandStep => TypeOK'
<1> SUFFICES ASSUME TypeOK, Holding, CommandStep PROVE TypeOK'
    OBVIOUS
<1> USE DEF TypeOK, agent
<1>1. ConfirmTypeOK' /\ conns' = conns /\ asked' = asked
    BY DEF ConfirmTypeOK, confirmVars, handshake, dialog, CommandStep, Take,
           Removes, StartReads, StartUnlinks, StartBinds, StartFails,
           StartStores, LockCloses, Unlock
<1> USE DEF Goto, Return, Later, Idle, Call
<1>2. ASSUME NEW c \in Calls, NEW kind \in {"start", "stop", "lock"},
             Take(c, kind)
      PROVE  TypeOK'
  <2>1. CASE slot = None
      BY <1>1, <1>2, <2>1 DEF Take
  <2>2. CASE slot # None
    <3>1. runs[slot] \in Run /\ slot \in 1..Len(runs)
        BY <2>2 DEF Holding
    <3>2. [runs[slot] EXCEPT !.accepting = FALSE] \in Run
        BY <3>1 DEF Run
    <3>3. runs' \in Seq(Run) /\ Len(runs') = Len(runs)
        BY <1>2, <2>2, <3>1, <3>2, ReplaceType DEF Take, Stops
    <3> QED BY <1>1, <1>2, <2>2, <3>3 DEF Take, Stops
  <2> QED BY <2>1, <2>2
<1>3. ASSUME NEW c \in Calls, Removes(c) PROVE TypeOK'
  <2>1. Later(calls[c]) \in Call
      OBVIOUS
  <2> HIDE DEF Later
  <2>2. calls' \in [Calls -> Call]
      BY <1>3, <2>1 DEF Removes
  <2> QED BY <1>1, <1>3, <2>2 DEF Removes
<1>4. ASSUME NEW c \in Calls, StartReads(c) PROVE TypeOK'
  <2>1. /\ [calls EXCEPT ![c].at = "unlink"] \in [Calls -> Call]
        /\ [calls EXCEPT ![c] = Idle] \in [Calls -> Call]
      OBVIOUS
  <2>2. calls' \in [Calls -> Call]
      BY <1>4, <2>1 DEF StartReads
  <2> QED BY <1>1, <1>4, <2>2 DEF StartReads
<1>5. ASSUME NEW c \in Calls, StartUnlinks(c) PROVE TypeOK'
    BY <1>1, <1>5 DEF StartUnlinks
<1>6. ASSUME NEW c \in Calls, NEW policy \in Policies, StartBinds(c, policy)
      PROVE  TypeOK'
  <2>1. runs' \in Seq(Run) /\ Len(runs') = Len(runs) + 1
      BY <1>6 DEF StartBinds, NoApprovals, Run
  <2>2. Len(runs) + 1 \in Runs
      BY <1>6 DEF StartBinds
  <2>3. [calls[c] EXCEPT !.at = "store", !.run = Len(runs) + 1] \in Call
      BY <2>2
  <2>4. calls' = [calls EXCEPT ![c] =
                    [calls[c] EXCEPT !.at = "store", !.run = Len(runs) + 1]]
      BY <1>6 DEF StartBinds
  <2> QED BY <1>1, <1>6, <2>1, <2>3, <2>4 DEF StartBinds
<1>7. ASSUME NEW c \in Calls, StartFails(c) PROVE TypeOK'
    BY <1>1, <1>7 DEF StartFails
<1>8. ASSUME NEW c \in Calls, StartStores(c) PROVE TypeOK'
    BY <1>1, <1>8 DEF StartStores
<1>9. ASSUME NEW c \in Calls, LockCloses(c) PROVE TypeOK'
    BY <1>1, <1>9 DEF LockCloses
<1>10. CASE Unlock
    BY <1>1, <1>10 DEF Unlock
<1> QED BY <1>2, <1>3, <1>4, <1>5, <1>6, <1>7, <1>8, <1>9, <1>10
        DEF CommandStep

\* A connection task keeps the types; what it knows of its run and request is
\* needed to type the run's approvals and the channel it gives up.
LEMMA ConnType == TypeOK /\ Waiting /\ ConnStep => TypeOK'
<1> SUFFICES ASSUME TypeOK, Waiting, ConnStep PROVE TypeOK'
    OBVIOUS
<1> USE DEF TypeOK, agent
<1>0. ConfirmTypeOK /\ UNCHANGED confirmVars => ConfirmTypeOK'
    BY DEF ConfirmTypeOK, confirmVars, handshake, dialog
<1>1. ASSUME NEW r \in Runs, AcceptFails(r) PROVE TypeOK'
  <2>1. runs[r] \in Run /\ r \in 1..Len(runs)
      BY <1>1 DEF AcceptFails, Live
  <2>2. [runs[r] EXCEPT !.accepting = FALSE] \in Run
      BY <2>1 DEF Run
  <2>3. runs' \in Seq(Run) /\ Len(runs') = Len(runs)
      BY <1>1, <2>1, <2>2, ReplaceType DEF AcceptFails
  <2> QED BY <1>0, <1>1, <2>3 DEF AcceptFails
<1>2. ASSUME NEW k \in Conns, Connects(k) PROVE TypeOK'
    BY <1>0, <1>2 DEF Connects, Live, Served, Conn
<1>3. ASSUME NEW k \in Conns, Disconnects(k) PROVE TypeOK'
    BY <1>0, <1>3 DEF Disconnects, Closed, Conn
<1>4. ASSUME NEW k \in Conns, NEW key \in Keys, SignRequested(k, key)
      PROVE  TypeOK'
  <2> DEFINE step == IF Authorized(k, key) THEN "sign" ELSE "ask"
  <2>1. conns' = [conns EXCEPT ![k] = [conns[k] EXCEPT !.at = step, !.key = key]]
      BY <1>4 DEF SignRequested
  <2>2. step \in {"sign", "ask"}
      OBVIOUS
  <2> HIDE DEF step
  <2>3. [conns[k] EXCEPT !.at = step, !.key = key] \in Conn
      BY <2>2 DEF Conn
  <2>4. conns' \in [Conns -> Conn]
      BY <2>1, <2>3
  <2> QED BY <1>0, <1>4, <2>4 DEF SignRequested
<1>5. ASSUME NEW k \in Conns, Asks(k) PROVE TypeOK'
  <2> PICK id \in Ids :
        /\ Request(id)
        /\ conns' = [conns EXCEPT ![k].at = "wait", ![k].id = id]
        /\ asked' = [asked EXCEPT ![id] =
                       [key |-> conns[k].key, run |-> conns[k].run]]
      BY <1>5 DEF Asks
  <2>1. ConfirmTypeOK'
      BY DEF Request, ConfirmTypeOK
  <2>2. conns[k].at = "ask"
      BY <1>5 DEF Asks
  <2>3. conns[k].key \in Keys /\ conns[k].run \in Runs
    <3>1. conns[k].key \in Keys /\ conns[k].run \in 1..Len(runs)
        BY <2>2 DEF Waiting
    <3> QED BY <3>1
  <2>4. asked' \in [Ids -> [key : Keys, run : Runs] \cup {None}]
      BY <2>3
  <2>5. [conns[k] EXCEPT !.at = "wait", !.id = id] \in Conn
      BY DEF Conn
  <2>6. conns' = [conns EXCEPT ![k] = [conns[k] EXCEPT !.at = "wait", !.id = id]]
      OBVIOUS
  <2>7. conns' \in [Conns -> Conn]
      BY <2>5, <2>6
  <2> QED BY <1>5, <2>1, <2>4, <2>7 DEF Asks
<1>6. ASSUME NEW k \in Conns, AskFails(k) PROVE TypeOK'
  <2>1. ConfirmTypeOK'
      BY <1>6 DEF AskFails, RequestFails, ConfirmTypeOK, dialog
  <2> QED BY <1>6, <2>1 DEF AskFails, Replies, Served, Conn
<1>7. ASSUME NEW k \in Conns, Hears(k) PROVE TypeOK'
  <2>1. ConfirmTypeOK'
      BY <1>7 DEF Hears, Hear, Dropped, ConfirmTypeOK, dialog
  <2>2. conns[k] \in Conn /\ conns[k].at = "wait"
      BY <1>7 DEF Hears
  <2>3. conns[k].run \in Runs
    <3>1. conns[k].run \in 1..Len(runs)
        BY <2>2 DEF Waiting
    <3> QED BY <3>1
  <2>4. Served(conns[k].run) \in Conn
      BY <2>3 DEF Served, Conn
  <2>5. \A step \in {"remember", "sign"} : [conns[k] EXCEPT !.at = step] \in Conn
      BY <2>2 DEF Conn
  <2>6. conns' \in [Conns -> Conn]
      BY <1>7, <2>4, <2>5 DEF Hears, Replies
  <2> QED BY <1>7, <2>1, <2>6 DEF Hears
<1>8. ASSUME NEW k \in Conns, Expires(k) PROVE TypeOK'
    BY <1>0, <1>8 DEF Expires, Conn
<1>9. ASSUME NEW k \in Conns, CleansUp(k) PROVE TypeOK'
  <2>1. ConfirmTypeOK'
      BY <1>9 DEF CleansUp, GiveUp, Unparked, Dropped, ConfirmTypeOK, dialog
  <2> QED BY <1>9, <2>1 DEF CleansUp, Replies, Served, Conn
<1>10. ASSUME NEW k \in Conns, Remembers(k) PROVE TypeOK'
  <2>1. conns[k].run \in 1..Len(runs) /\ conns[k].key \in Keys
      BY <1>10 DEF Remembers, Waiting
  <2> DEFINE run == runs[conns[k].run]
  <2>0. run \in Run
      BY <2>1
  <2>2. [run EXCEPT !.approved = @ \cup {conns[k].key}] \in Run
      BY <2>0, <2>1 DEF Run
  <2>3. runs' = [runs EXCEPT ![conns[k].run] =
                   [run EXCEPT !.approved = @ \cup {conns[k].key}]]
      BY <1>10 DEF Remembers
  <2>4. runs' \in Seq(Run) /\ Len(runs') = Len(runs)
      BY <2>1, <2>2, <2>3, ReplaceType
  <2> QED BY <1>0, <1>10, <2>4 DEF Remembers, Conn
<1>11. ASSUME NEW k \in Conns, Signs(k) PROVE TypeOK'
    BY <1>0, <1>11 DEF Signs, Replies, Served, Conn
<1> QED BY <1>1, <1>2, <1>3, <1>4, <1>5, <1>6, <1>7, <1>8, <1>9, <1>10, <1>11
        DEF ConnStep

-----------------------------------------------------------------------------
(* Steps of the commands.                                                  *)

\* A command leaves the connections and the handshake alone, and every run its
\* policy and approvals; a new run has no approvals.
LEMMA CommandKeeps ==
    ASSUME TypeOK, Holding, CommandStep
    PROVE  /\ UNCHANGED <<conns, asked, confirmVars>>
           /\ Len(runs) <= Len(runs')
           /\ \A r \in 1..Len(runs) :
                /\ runs'[r].policy = runs[r].policy
                /\ runs'[r].approved = runs[r].approved
           /\ \A r \in 1..Len(runs') : r > Len(runs) => runs'[r].approved = {}
<1>1. UNCHANGED <<conns, asked, confirmVars>>
    BY DEF CommandStep, Take, Removes, StartReads, StartUnlinks, StartBinds,
           StartFails, StartStores, LockCloses, Unlock, agent
<1>2. CASE UNCHANGED runs
    BY <1>1, <1>2 DEF TypeOK
<1>3. ASSUME NEW c \in Calls, NEW kind \in {"start", "stop", "lock"},
             Take(c, kind)
      PROVE  \/ UNCHANGED runs
             \/ /\ slot \in 1..Len(runs)
                /\ runs' = [runs EXCEPT ![slot].accepting = FALSE]
    BY <1>3 DEF Take, Holding
<1>4. CASE /\ slot \in 1..Len(runs)
           /\ runs' = [runs EXCEPT ![slot].accepting = FALSE]
  <2>1. \A r \in 1..Len(runs) : runs[r] \in Run
      BY DEF TypeOK
  <2>2. Len(runs') = Len(runs)
      BY <1>4 DEF TypeOK
  <2>3. \A r \in 1..Len(runs) :
          /\ runs'[r].policy = runs[r].policy
          /\ runs'[r].approved = runs[r].approved
      BY <1>4, <2>1 DEF TypeOK, Run
  <2> QED BY <1>1, <2>2, <2>3 DEF TypeOK
<1>5. ASSUME NEW c \in Calls, NEW policy \in Policies, StartBinds(c, policy)
      PROVE  /\ Len(runs') = Len(runs) + 1
             /\ \A r \in 1..Len(runs) : runs'[r] = runs[r]
             /\ runs'[Len(runs) + 1].approved = {}
    BY <1>5 DEF StartBinds, NoApprovals, TypeOK
<1>6. \/ UNCHANGED runs
      \/ \E c \in Calls, kind \in {"start", "stop", "lock"} : Take(c, kind)
      \/ \E c \in Calls, policy \in Policies : StartBinds(c, policy)
    BY DEF CommandStep, Removes, StartReads, StartUnlinks, StartFails,
           StartStores, LockCloses, Unlock, agent
<1>7. ASSUME NEW c \in Calls, NEW policy \in Policies, StartBinds(c, policy)
      PROVE  /\ Len(runs) <= Len(runs')
             /\ \A r \in 1..Len(runs) :
                  /\ runs'[r].policy = runs[r].policy
                  /\ runs'[r].approved = runs[r].approved
             /\ \A r \in 1..Len(runs') :
                  r > Len(runs) => runs'[r].approved = {}
    BY <1>5, <1>7 DEF TypeOK
<1> QED BY <1>1, <1>2, <1>3, <1>4, <1>6, <1>7

\* So what is known of connections, requests and answers stays so.
LEMMA CommandHonest ==
    TypeOK /\ Waiting /\ Fresh /\ Honest /\ Holding /\ SignedWithConsent
      /\ ParkedIsAwaited /\ NoPromptIsStranded /\ CommandStep
    => /\ Waiting' /\ Fresh' /\ Honest' /\ SignedWithConsent'
       /\ ParkedIsAwaited' /\ NoPromptIsStranded'
<1> SUFFICES ASSUME TypeOK, Waiting, Fresh, Honest, Holding, SignedWithConsent,
                    ParkedIsAwaited, NoPromptIsStranded, CommandStep
             PROVE  /\ Waiting' /\ Fresh' /\ Honest' /\ SignedWithConsent'
                    /\ ParkedIsAwaited' /\ NoPromptIsStranded'
    OBVIOUS
<1>1. /\ conns' = conns /\ asked' = asked /\ seq' = seq
      /\ confirms' = confirms /\ answers' = answers /\ current' = current
      /\ queue' = queue /\ replies' = replies /\ resumes' = resumes
      /\ yes' = yes
    BY CommandKeeps DEF confirmVars, handshake, dialog
<1>2. Len(runs) \in Nat /\ Len(runs') \in Nat /\ Len(runs) <= Len(runs')
    BY CommandKeeps, CommandType DEF TypeOK
<1>3. \A r \in 1..Len(runs) :
        /\ runs'[r].policy = runs[r].policy
        /\ runs'[r].approved = runs[r].approved
    BY CommandKeeps
<1>4. \A r \in 1..Len(runs') : r > Len(runs) => runs'[r].approved = {}
    BY CommandKeeps
<1>5. Waiting'
  <2> SUFFICES ASSUME NEW k \in Conns
               PROVE  /\ conns[k].at # "closed" => conns[k].run \in 1..Len(runs')
                      /\ conns[k].at = "remember" =>
                           conns[k].id \in yes /\ runs'[conns[k].run].policy = "session"
      BY <1>1 DEF Waiting, RunOf
  <2>1. conns[k].at # "closed" => conns[k].run \in 1..Len(runs)
      BY DEF Waiting
  <2>2. conns[k].at = "remember" =>
          conns[k].id \in yes /\ runs[conns[k].run].policy = "session"
      BY DEF Waiting, RunOf
  <2>3. conns[k].at = "remember" => conns[k].run \in 1..Len(runs)
      BY <2>1
  <2>4. conns[k].at # "closed" => conns[k].run \in 1..Len(runs')
      BY <1>2, <2>1
  <2> QED BY <1>3, <2>2, <2>3, <2>4
<1>6. Fresh' /\ ParkedIsAwaited' /\ NoPromptIsStranded'
    BY <1>1 DEF Fresh, ParkedIsAwaited, NoPromptIsStranded
<1>7. Honest'
  <2> SUFFICES ASSUME NEW r \in 1..Len(runs'), NEW key \in runs'[r].approved
               PROVE  \E id \in yes : asked[id] = [key |-> key, run |-> r]
      BY <1>1 DEF Honest
  <2>1. r \in 1..Len(runs) /\ key \in runs[r].approved
      BY <1>2, <1>3, <1>4
  <2> QED BY <2>1 DEF Honest
<1>8. SignedWithConsent'
  <2> SUFFICES ASSUME NEW k \in Conns, conns[k].at = "sign"
               PROVE  \/ runs'[conns[k].run].policy = "never"
                      \/ /\ runs'[conns[k].run].policy = "always"
                         /\ conns[k].id \in yes
                      \/ /\ runs'[conns[k].run].policy = "session"
                         /\ \E id \in yes :
                              asked[id] = [key |-> conns[k].key, run |-> conns[k].run]
      BY <1>1 DEF SignedWithConsent, RunOf
  <2>1. conns[k].run \in 1..Len(runs)
      BY DEF Waiting
  <2>2. runs'[conns[k].run].policy = RunOf(k).policy
      BY <1>3, <2>1 DEF RunOf
  <2> QED BY <2>2 DEF SignedWithConsent
<1> QED BY <1>5, <1>6, <1>7, <1>8

\* Handles stay handles of runs.
LEMMA CommandHolding ==
    TypeOK /\ Holding /\ CommandStep => Holding'
<1> SUFFICES ASSUME TypeOK, Holding, CommandStep PROVE Holding'
    OBVIOUS
<1>1. Len(runs) \in Nat /\ Len(runs') \in Nat /\ Len(runs) <= Len(runs')
    BY CommandKeeps, CommandType DEF TypeOK
<1>2. \A n \in 1..Len(runs) : n \in 1..Len(runs')
    BY <1>1
<1> USE DEF Goto, Return, Later, Idle, Call
<1>3. ASSUME NEW c \in Calls, NEW kind \in {"start", "stop", "lock"},
             Take(c, kind)
      PROVE  Holding'
  <2>1. slot' = None /\ \A d \in Calls : calls'[d].at = "store" => calls'[d] = calls[d]
      BY <1>3 DEF Take, TypeOK
  <2> QED BY <1>2, <2>1 DEF Holding
<1>4. ASSUME NEW c \in Calls, NEW policy \in Policies, StartBinds(c, policy)
      PROVE  Holding'
  <2>1. Len(runs') = Len(runs) + 1 /\ slot' = slot
      BY <1>4 DEF StartBinds, TypeOK
  <2>2. \A d \in Calls : d # c => calls'[d] = calls[d]
      BY <1>4 DEF StartBinds, TypeOK
  <2>3. calls'[c].run = Len(runs) + 1
      BY <1>4 DEF StartBinds, TypeOK
  <2> QED BY <1>1, <1>2, <2>1, <2>2, <2>3 DEF Holding
<1>5. ASSUME NEW c \in Calls, StartStores(c) PROVE Holding'
  <2>1. slot' = calls[c].run /\ calls[c].at = "store" /\ runs' = runs
      BY <1>5 DEF StartStores
  <2>2. \A d \in Calls : calls'[d].at = "store" => calls'[d] = calls[d]
      BY <1>5 DEF StartStores, TypeOK
  <2> QED BY <2>1, <2>2 DEF Holding
<1>6. ASSUME NEW c \in Calls,
             Removes(c) \/ StartReads(c) \/ StartUnlinks(c) \/ StartFails(c)
               \/ LockCloses(c)
      PROVE  Holding'
  <2>1. UNCHANGED <<slot, runs>>
      BY <1>6 DEF Removes, StartReads, StartUnlinks, StartFails, LockCloses, agent
  <2>2. \A d \in Calls : calls'[d].at = "store" => calls'[d] = calls[d]
      BY <1>6 DEF Removes, StartReads, StartUnlinks, StartFails, LockCloses, TypeOK
  <2> QED BY <2>1, <2>2 DEF Holding
<1>7. CASE Unlock
    BY <1>7 DEF Unlock, Holding, agent
<1> QED BY <1>3, <1>4, <1>5, <1>6, <1>7 DEF CommandStep

\* A socket goes live with a start about to store its handle, and loses its
\* handle only to a command about to remove it.
LEMMA CommandDoor ==
    TypeOK /\ Holding /\ DoorHasAHandle /\ CommandStep => DoorHasAHandle'
<1> SUFFICES ASSUME TypeOK, Holding, DoorHasAHandle, CommandStep, Live(path)'
             PROVE  \/ slot' # None
                    \/ \E c \in Calls : calls'[c].at \in {"remove", "store"}
    BY DEF DoorHasAHandle
<1> USE DEF Goto, Return, Later, Idle, Call
<1>1. path' # None
    BY CommandType DEF Live, TypeOK
<1>2. ASSUME NEW c \in Calls, NEW kind \in {"start", "stop", "lock"},
             Take(c, kind)
      PROVE  \E d \in Calls : calls'[d].at \in {"remove", "store"}
  <2>1. CASE slot # None
      BY <1>2, <2>1 DEF Take, Stops, TypeOK
  <2>2. CASE slot = None
    <3>1. Live(path)
        BY <1>2, <2>2 DEF Take, Live
    <3>2. PICK d \in Calls : calls[d].at \in {"remove", "store"}
        BY <2>2, <3>1 DEF DoorHasAHandle
    <3>3. calls'[d] = calls[d]
        BY <1>2, <3>2 DEF Take, TypeOK
    <3> QED BY <3>2, <3>3
  <2> QED BY <2>1, <2>2
<1>3. ASSUME NEW c \in Calls, NEW policy \in Policies, StartBinds(c, policy)
      PROVE  calls'[c].at = "store"
    BY <1>3 DEF StartBinds, TypeOK
<1>4. ASSUME NEW c \in Calls, StartStores(c) PROVE slot' # None
  <2>1. slot' \in 1..Len(runs)
      BY <1>4 DEF StartStores, Holding
  <2> QED BY <2>1 DEF TypeOK
<1>5. ASSUME NEW c \in Calls, StartReads(c) \/ StartFails(c) \/ LockCloses(c)
      PROVE  \/ slot' # None
             \/ \E d \in Calls : calls'[d].at \in {"remove", "store"}
  <2>1. Live(path) /\ slot' = slot
      BY <1>5 DEF StartReads, StartFails, LockCloses, agent, Live
  <2>2. \A d \in Calls : calls[d].at \in {"remove", "store"} => calls'[d] = calls[d]
      BY <1>5 DEF StartReads, StartFails, LockCloses, TypeOK
  <2> QED BY <2>1, <2>2 DEF DoorHasAHandle
<1>6. ASSUME NEW c \in Calls, Removes(c) \/ StartUnlinks(c) PROVE FALSE
    BY <1>1, <1>6 DEF Removes, StartUnlinks
<1>7. CASE Unlock
    BY <1>7 DEF Unlock, DoorHasAHandle, Live, agent
<1> QED BY <1>2, <1>3, <1>4, <1>5, <1>6, <1>7 DEF CommandStep

-----------------------------------------------------------------------------
(* Steps of the connections.                                               *)

\* What a connection can become without touching the handshake or its guard.
Becomes(k) ==
    \/ conns'[k] = conns[k]
    \/ conns[k].at = "idle" /\ conns'[k] = Closed
    \/ /\ conns[k].at \in {"closed", "sign"}
       /\ \E r \in 1..Len(runs) : conns'[k] = Served(r)
    \/ conns[k].at = "wait" /\ conns'[k] = [conns[k] EXCEPT !.at = "expired"]
    \/ /\ conns[k].at = "idle"
       /\ \E key \in Keys :
            \/ conns'[k] = [conns[k] EXCEPT !.at = "ask", !.key = key]
            \/ /\ Authorized(k, key)
               /\ conns'[k] = [conns[k] EXCEPT !.at = "sign", !.key = key]

QuietStep ==
    \/ \E r \in Runs : AcceptFails(r)
    \/ \E k \in Conns :
         \/ Connects(k) \/ Disconnects(k) \/ Expires(k) \/ Signs(k)
         \/ \E key \in Keys : SignRequested(k, key)

\* A quiet step moves each connection in one of these ways.
LEMMA QuietBecomes ==
    TypeOK /\ Waiting /\ QuietStep => \A k \in Conns : Becomes(k)
<1> SUFFICES ASSUME TypeOK, Waiting, QuietStep, NEW k \in Conns PROVE Becomes(k)
    OBVIOUS
<1> USE DEF Becomes
<1>1. CASE \E r \in Runs : AcceptFails(r)
    BY <1>1 DEF AcceptFails
<1>2. ASSUME NEW n \in Conns, Connects(n) PROVE Becomes(k)
    BY <1>2 DEF Connects, Live, TypeOK
<1>3. ASSUME NEW n \in Conns, Disconnects(n) PROVE Becomes(k)
    BY <1>3 DEF Disconnects, TypeOK
<1>4. ASSUME NEW n \in Conns, Expires(n) PROVE Becomes(k)
    BY <1>4 DEF Expires, TypeOK
<1>5. ASSUME NEW n \in Conns, Signs(n) PROVE Becomes(k)
  <2>1. conns[n].run \in 1..Len(runs)
      BY <1>5 DEF Signs, Waiting
  <2> QED BY <1>5, <2>1 DEF Signs, Replies, TypeOK
<1>6. ASSUME NEW n \in Conns, NEW key \in Keys, SignRequested(n, key)
      PROVE  Becomes(k)
  <2>1. CASE k # n
      BY <1>6, <2>1 DEF SignRequested, TypeOK
  <2>2. CASE k = n /\ Authorized(k, key)
      BY <1>6, <2>2 DEF SignRequested, TypeOK
  <2>3. CASE k = n /\ ~Authorized(k, key)
      BY <1>6, <2>3 DEF SignRequested, TypeOK
  <2> QED BY <2>1, <2>2, <2>3
<1> QED BY <1>1, <1>2, <1>3, <1>4, <1>5, <1>6 DEF QuietStep

\* These steps leave the handshake, and every run's policy and approvals.
LEMMA QuietKeeps ==
    ASSUME TypeOK, QuietStep
    PROVE  /\ UNCHANGED <<asked, confirmVars>>
           /\ Len(runs') = Len(runs)
           /\ \A r \in 1..Len(runs) :
                /\ runs'[r].policy = runs[r].policy
                /\ runs'[r].approved = runs[r].approved
<1>1. CASE \E k \in Conns :
             \/ Connects(k) \/ Disconnects(k) \/ Expires(k) \/ Signs(k)
             \/ \E key \in Keys : SignRequested(k, key)
    BY <1>1 DEF Connects, Disconnects, Expires, Signs, SignRequested, agent
<1>2. ASSUME NEW r \in Runs, AcceptFails(r)
      PROVE  /\ UNCHANGED <<asked, confirmVars>>
             /\ Len(runs') = Len(runs)
             /\ \A q \in 1..Len(runs) :
                  /\ runs'[q].policy = runs[q].policy
                  /\ runs'[q].approved = runs[q].approved
  <2>1. \A q \in 1..Len(runs) : runs[q] \in Run
      BY DEF TypeOK
  <2>2. runs' = [runs EXCEPT ![r].accepting = FALSE]
      BY <1>2 DEF AcceptFails
  <2> QED BY <1>2, <2>1, <2>2 DEF AcceptFails, Run, TypeOK
<1> QED BY <1>1, <1>2 DEF QuietStep

\* What follows for one connection.
LEMMA QuietConn ==
    ASSUME TypeOK, Waiting, NEW k \in Conns, Becomes(k)
    PROVE  /\ conns'[k].at # "closed" => conns'[k].run \in 1..Len(runs)
           /\ conns'[k].at \in HasKey => conns'[k].key \in Keys
           /\ conns'[k].at \in HasId =>
                /\ conns[k].at \in HasId
                /\ conns'[k].id = conns[k].id
                /\ conns'[k].key = conns[k].key
                /\ conns'[k].run = conns[k].run
           /\ conns'[k].at = "remember" => conns'[k] = conns[k]
           /\ conns'[k].at = "sign" =>
                \/ conns'[k] = conns[k]
                \/ Authorized(k, conns'[k].key) /\ conns'[k].run = conns[k].run
           /\ conns[k].at \in {"wait", "expired"} =>
                /\ conns'[k].at \in {"wait", "expired"}
                /\ conns'[k].id = conns[k].id
<1>1. conns[k] \in Conn
    BY DEF TypeOK
<1>2. /\ conns[k].at # "closed" => conns[k].run \in 1..Len(runs)
      /\ conns[k].at \in HasKey => conns[k].key \in Keys
    BY DEF Waiting
<1>3. CASE conns'[k] = conns[k]
    BY <1>1, <1>2, <1>3
<1>4. CASE conns[k].at = "idle" /\ conns'[k] = Closed
    BY <1>4 DEF Closed
<1>5. CASE /\ conns[k].at \in {"closed", "sign"}
           /\ \E r \in 1..Len(runs) : conns'[k] = Served(r)
    BY <1>5 DEF Served
<1>6. CASE conns[k].at = "wait" /\ conns'[k] = [conns[k] EXCEPT !.at = "expired"]
    BY <1>1, <1>2, <1>6 DEF Conn
<1>7. ASSUME conns[k].at = "idle", NEW key \in Keys,
             conns'[k] = [conns[k] EXCEPT !.at = "ask", !.key = key]
      PROVE  conns'[k].at = "ask" /\ conns'[k].key = key
               /\ conns'[k].run = conns[k].run /\ conns'[k].id = conns[k].id
    BY <1>1, <1>7 DEF Conn
<1>8. ASSUME conns[k].at = "idle", NEW key \in Keys,
             conns'[k] = [conns[k] EXCEPT !.at = "sign", !.key = key]
      PROVE  conns'[k].at = "sign" /\ conns'[k].key = key
               /\ conns'[k].run = conns[k].run /\ conns'[k].id = conns[k].id
    BY <1>1, <1>8 DEF Conn
<1>9. CASE /\ conns[k].at = "idle"
           /\ \E key \in Keys :
                \/ conns'[k] = [conns[k] EXCEPT !.at = "ask", !.key = key]
                \/ /\ Authorized(k, key)
                   /\ conns'[k] = [conns[k] EXCEPT !.at = "sign", !.key = key]
    BY <1>2, <1>7, <1>8, <1>9
<1> QED BY <1>3, <1>4, <1>5, <1>6, <1>9 DEF Becomes

\* They preserve what the invariant says of connections.
LEMMA QuietIInv ==
    TypeOK /\ Waiting /\ Fresh /\ Honest /\ SignedWithConsent /\ ParkedIsAwaited
      /\ NoPromptIsStranded /\ QuietStep
    => /\ Waiting' /\ Fresh' /\ Honest' /\ SignedWithConsent'
       /\ ParkedIsAwaited' /\ NoPromptIsStranded'
<1> SUFFICES ASSUME TypeOK, Waiting, Fresh, Honest, SignedWithConsent,
                    ParkedIsAwaited, NoPromptIsStranded, QuietStep
             PROVE  /\ Waiting' /\ Fresh' /\ Honest' /\ SignedWithConsent'
                    /\ ParkedIsAwaited' /\ NoPromptIsStranded'
    OBVIOUS
<1>1. /\ asked' = asked /\ seq' = seq /\ confirms' = confirms
      /\ answers' = answers /\ current' = current /\ queue' = queue
      /\ replies' = replies /\ resumes' = resumes /\ yes' = yes
    BY QuietKeeps DEF confirmVars, handshake, dialog
<1>2. /\ Len(runs') = Len(runs)
      /\ \A r \in 1..Len(runs) :
           /\ runs'[r].policy = runs[r].policy
           /\ runs'[r].approved = runs[r].approved
    BY QuietKeeps
<1>3. \A k \in Conns : Becomes(k)
    BY QuietBecomes
<1>4. Fresh' /\ NoPromptIsStranded' /\ Honest'
    BY <1>1, <1>2 DEF Fresh, NoPromptIsStranded, Honest
<1>5. ASSUME NEW k \in Conns PROVE
        /\ conns'[k].at # "closed" => conns'[k].run \in 1..Len(runs)
        /\ conns'[k].at \in HasKey => conns'[k].key \in Keys
        /\ conns'[k].at \in HasId =>
             /\ conns'[k].id \in Ids
             /\ asked[conns'[k].id] =
                  [key |-> conns'[k].key, run |-> conns'[k].run]
        /\ conns'[k].at = "remember" =>
             conns'[k].id \in yes /\ runs'[conns'[k].run].policy = "session"
  <2>1. conns[k].at \in HasId =>
          /\ conns[k].id \in Ids
          /\ asked[conns[k].id] = [key |-> conns[k].key, run |-> conns[k].run]
      BY DEF Waiting
  <2>2. conns[k].at = "remember" =>
          /\ conns[k].id \in yes
          /\ conns[k].run \in 1..Len(runs)
          /\ runs[conns[k].run].policy = "session"
      BY DEF Waiting, RunOf
  <2> QED BY <1>2, <1>3, <2>1, <2>2, QuietConn
<1>6. Waiting'
    BY <1>1, <1>2, <1>5 DEF Waiting, RunOf
<1>7. ParkedIsAwaited'
  <2> SUFFICES ASSUME NEW id \in confirms
               PROVE  \E k \in Conns :
                        conns'[k].at \in {"wait", "expired"} /\ conns'[k].id = id
      BY <1>1 DEF ParkedIsAwaited
  <2> PICK k \in Conns : conns[k].at \in {"wait", "expired"} /\ conns[k].id = id
      BY DEF ParkedIsAwaited
  <2> QED BY <1>3, QuietConn
<1>8. SignedWithConsent'
  <2> SUFFICES ASSUME NEW k \in Conns, conns'[k].at = "sign"
               PROVE  \/ runs'[conns'[k].run].policy = "never"
                      \/ /\ runs'[conns'[k].run].policy = "always"
                         /\ conns'[k].id \in yes
                      \/ /\ runs'[conns'[k].run].policy = "session"
                         /\ \E id \in yes : asked[id] =
                              [key |-> conns'[k].key, run |-> conns'[k].run]
      BY <1>1 DEF SignedWithConsent, RunOf
  <2>1. conns'[k].run \in 1..Len(runs)
      BY <1>5
  <2>2. CASE conns'[k] = conns[k]
    <3>1. conns[k].at = "sign" /\ conns[k].run \in 1..Len(runs)
        BY <2>1, <2>2
    <3>2. runs'[conns[k].run].policy = runs[conns[k].run].policy
        BY <1>2, <3>1
    <3>3. \/ runs[conns[k].run].policy = "never"
          \/ /\ runs[conns[k].run].policy = "always"
             /\ conns[k].id \in yes
          \/ /\ runs[conns[k].run].policy = "session"
             /\ \E id \in yes : asked[id] =
                  [key |-> conns[k].key, run |-> conns[k].run]
        BY <3>1 DEF SignedWithConsent, RunOf
    <3> QED BY <2>2, <3>2, <3>3
  <2>3. CASE Authorized(k, conns'[k].key) /\ conns'[k].run = conns[k].run
    <3>1. \/ runs[conns[k].run].policy = "never"
          \/ /\ runs[conns[k].run].policy = "session"
             /\ conns'[k].key \in runs[conns[k].run].approved
        BY <2>3 DEF Authorized, RunOf
    <3> QED BY <1>2, <2>1, <2>3, <3>1 DEF Honest
  <2> QED BY <1>3, <2>2, <2>3, QuietConn
<1> QED BY <1>4, <1>6, <1>7, <1>8

\* A new request: its id is ahead of everything the invariant speaks of.
LEMMA AsksIInv ==
    ASSUME TypeOK, Waiting, Fresh, Honest, SignedWithConsent, ParkedIsAwaited,
           NEW k \in Conns, Asks(k)
    PROVE  Waiting' /\ Fresh' /\ Honest' /\ SignedWithConsent' /\ ParkedIsAwaited'
<1>0. PICK id \in Ids :
      /\ Request(id)
      /\ conns' = [conns EXCEPT ![k].at = "wait", ![k].id = id]
      /\ asked' = [asked EXCEPT ![id] =
                     [key |-> conns[k].key, run |-> conns[k].run]]
    BY DEF Asks
<1>1. /\ runs' = runs /\ answers' = answers /\ replies' = replies /\ yes' = yes
      /\ conns[k].at = "ask"
    BY <1>0 DEF Asks, Request, agent
<1>2. seq \in 0..MaxAsks /\ id = seq + 1 /\ seq' = id /\ confirms' = confirms \cup {id}
    BY <1>0 DEF Request, TypeOK, ConfirmTypeOK
<1>3. /\ \A n \in Conns : n # k => conns'[n] = conns[n]
      /\ conns'[k].at = "wait" /\ conns'[k].id = id
      /\ conns'[k].key = conns[k].key /\ conns'[k].run = conns[k].run
    BY <1>0 DEF TypeOK, Conn
<1>4. /\ asked'[id] = [key |-> conns[k].key, run |-> conns[k].run]
      /\ \A j \in Ids : j # id => asked'[j] = asked[j]
    BY <1>0 DEF TypeOK
\* What was asked before stays as it was.
<1>5. \A j \in Ids : asked[j] # None => asked'[j] = asked[j]
  <2>1. asked[id] = None
      BY <1>2 DEF Fresh
  <2> QED BY <1>4, <2>1
<1>6. None \notin [key : Keys, run : Runs]
    BY RequestNoneAssumption
<1>7. ASSUME NEW n \in Conns, conns[n].at \in HasId
      PROVE  /\ n # k /\ conns[n].id \in Ids
             /\ asked'[conns[n].id] = [key |-> conns[n].key, run |-> conns[n].run]
  <2>1. n # k
      BY <1>1, <1>7
  <2>2. /\ conns[n].id \in Ids /\ conns[n].key \in Keys
        /\ conns[n].run \in 1..Len(runs)
        /\ asked[conns[n].id] = [key |-> conns[n].key, run |-> conns[n].run]
      BY <1>7 DEF Waiting
  <2>3. conns[n].run \in Runs
      BY <2>2 DEF TypeOK
  <2>4. asked[conns[n].id] # None
      BY <1>6, <2>2, <2>3
  <2> QED BY <1>5, <2>1, <2>2, <2>4
<1>8. conns[k].key \in Keys /\ conns[k].run \in 1..Len(runs)
    BY <1>1 DEF Waiting
<1>9. Waiting'
  <2> SUFFICES ASSUME NEW n \in Conns
      PROVE /\ conns'[n].at # "closed" => conns'[n].run \in 1..Len(runs')
            /\ conns'[n].at \in HasKey => conns'[n].key \in Keys
            /\ conns'[n].at \in HasId =>
                 /\ conns'[n].id \in Ids
                 /\ asked'[conns'[n].id] =
                      [key |-> conns'[n].key, run |-> conns'[n].run]
            /\ conns'[n].at = "remember" =>
                 conns'[n].id \in yes' /\ runs'[conns'[n].run].policy = "session"
      BY DEF Waiting, RunOf
  <2>0. runs' = runs /\ yes' = yes
      BY <1>1
  <2>1. CASE n = k
    <3>1. conns'[k].run \in 1..Len(runs') /\ conns'[k].key \in Keys
        BY <1>3, <1>8, <2>0
    <3>2. asked'[conns'[k].id] = [key |-> conns'[k].key, run |-> conns'[k].run]
        BY <1>3, <1>4
    <3> QED BY <1>3, <2>1, <3>1, <3>2
  <2>2. CASE n # k
    <3>1. conns'[n] = conns[n]
        BY <1>3, <2>2
    <3>2. conns[n].at = "remember" =>
            conns[n].id \in yes /\ runs[conns[n].run].policy = "session"
        BY DEF Waiting, RunOf
    <3>3. /\ conns[n].at # "closed" => conns[n].run \in 1..Len(runs)
          /\ conns[n].at \in HasKey => conns[n].key \in Keys
        BY DEF Waiting
    <3>4. conns[n].at \in HasId =>
            /\ conns[n].id \in Ids
            /\ asked'[conns[n].id] = [key |-> conns[n].key, run |-> conns[n].run]
        BY <1>7
    <3> HIDE DEF HasKey, HasId, Ids
    <3> QED BY <2>0, <3>1, <3>2, <3>3, <3>4
  <2> QED BY <2>1, <2>2
<1>10. Fresh'
  <2> SUFFICES ASSUME NEW j \in Ids
      PROVE /\ asked'[j] # None => j <= id
            /\ j \in confirms' => j <= id
            /\ answers[j] # "none" => j <= id /\ j \notin confirms'
      BY <1>1, <1>2 DEF Fresh
  <2>1. /\ asked[j] # None => j <= seq
        /\ j \in confirms => j <= seq
        /\ answers[j] # "none" => j <= seq /\ j \notin confirms
      BY DEF Fresh
  <2> QED BY <1>2, <1>4, <2>1
<1>11. \A r \in 1..Len(runs) : \A key \in runs[r].approved :
         \E j \in yes : asked'[j] = [key |-> key, run |-> r]
  <2> SUFFICES ASSUME NEW r \in 1..Len(runs), NEW key \in runs[r].approved
      PROVE \E j \in yes : asked'[j] = [key |-> key, run |-> r]
      OBVIOUS
  <2>1. PICK j \in yes : asked[j] = [key |-> key, run |-> r]
      BY DEF Honest
  <2>2. j \in Ids /\ r \in Runs /\ runs[r] \in Run
      BY DEF TypeOK, ConfirmTypeOK
  <2>3. key \in Keys
      BY <2>2 DEF Run
  <2>4. asked[j] # None
      BY <1>6, <2>1, <2>2, <2>3
  <2> QED BY <1>5, <2>1, <2>2, <2>4
<1>12. Honest'
    BY <1>1, <1>11 DEF Honest
<1>13. SignedWithConsent'
  <2> SUFFICES ASSUME NEW n \in Conns, conns'[n].at = "sign"
      PROVE \/ runs'[conns'[n].run].policy = "never"
            \/ runs'[conns'[n].run].policy = "always" /\ conns'[n].id \in yes'
            \/ /\ runs'[conns'[n].run].policy = "session"
               /\ \E j \in yes' : asked'[j] =
                    [key |-> conns'[n].key, run |-> conns'[n].run]
      BY DEF SignedWithConsent, RunOf
  <2>0. runs' = runs /\ yes' = yes /\ conns'[n] = conns[n]
      BY <1>1, <1>3
  <2>1. conns[n].at = "sign"
      BY <1>3
  <2>2. conns[n].key \in Keys /\ conns[n].run \in 1..Len(runs)
      BY <2>1 DEF Waiting
  <2>3. conns[n].run \in Runs
      BY <2>2 DEF TypeOK
  <2>4. ASSUME NEW j \in yes,
               asked[j] = [key |-> conns[n].key, run |-> conns[n].run]
        PROVE  asked'[j] = [key |-> conns[n].key, run |-> conns[n].run]
    <3>1. j \in Ids
        BY DEF TypeOK, ConfirmTypeOK
    <3> QED BY <1>5, <1>6, <2>2, <2>3, <2>4, <3>1
  <2>5. \/ runs[conns[n].run].policy = "never"
        \/ runs[conns[n].run].policy = "always" /\ conns[n].id \in yes
        \/ /\ runs[conns[n].run].policy = "session"
           /\ \E j \in yes : asked[j] =
                [key |-> conns[n].key, run |-> conns[n].run]
      BY <2>1 DEF SignedWithConsent, RunOf
  <2>6. (\E j \in yes : asked[j] = [key |-> conns[n].key, run |-> conns[n].run])
        => \E j \in yes : asked'[j] = [key |-> conns[n].key, run |-> conns[n].run]
      BY <2>4
  <2> QED BY <2>0, <2>5, <2>6
<1>14. ParkedIsAwaited'
  <2> SUFFICES ASSUME NEW j \in confirms'
      PROVE \E n \in Conns : conns'[n].at \in {"wait", "expired"} /\ conns'[n].id = j
      BY DEF ParkedIsAwaited
  <2>1. CASE j = id
      BY <1>3, <2>1
  <2>2. CASE j \in confirms
    <3> PICK n \in Conns : conns[n].at \in {"wait", "expired"} /\ conns[n].id = j
        BY <2>2 DEF ParkedIsAwaited
    <3> QED BY <1>1, <1>3
  <2> QED BY <1>2, <2>1, <2>2
<1> QED BY <1>9, <1>10, <1>12, <1>13, <1>14

\* A connection that is answered, gives up or fails to ask: back to serving, or
\* on to the signature the user allowed.
Concludes(k) ==
    /\ \A n \in Conns : n # k => conns'[n] = conns[n]
    /\ \/ conns[k].at # "closed" /\ conns'[k] = Served(conns[k].run)
       \/ /\ conns[k].at = "wait"
          /\ conns[k].id \in yes
          /\ RunOf(k).policy = "session"
          /\ conns'[k] = [conns[k] EXCEPT !.at = "remember"]
       \/ /\ conns[k].at = "wait"
          /\ conns[k].id \in yes
          /\ RunOf(k).policy # "session"
          /\ conns'[k] = [conns[k] EXCEPT !.at = "sign"]

\* Neither way back to serving nor the way to a granted signature breaks what
\* is known of connections.
LEMMA ConcludesIInv ==
    ASSUME TypeOK, Waiting, SignedWithConsent, NEW k \in Conns, Concludes(k),
           UNCHANGED <<runs, asked, yes>>
    PROVE  Waiting' /\ SignedWithConsent'
<1>1. \/ conns[k] \in Conn /\ RunOf(k).policy \in {"never", "session", "always"}
      \/ conns[k].at = "closed"
  <2>1. conns[k].at # "closed" => conns[k].run \in 1..Len(runs)
      BY DEF Waiting
  <2>2. conns[k].at # "closed" => runs[conns[k].run] \in Run
      BY <2>1 DEF TypeOK
  <2> QED BY <2>2 DEF TypeOK, RunOf, Run
<1>2. /\ conns[k].at # "closed" => conns[k].run \in 1..Len(runs)
      /\ conns[k].at = "wait" =>
           /\ conns[k].key \in Keys
           /\ conns[k].id \in Ids
           /\ asked[conns[k].id] = [key |-> conns[k].key, run |-> conns[k].run]
    BY DEF Waiting
<1>3. \/ conns'[k].at = "idle" /\ conns'[k].run \in 1..Len(runs)
      \/ /\ conns'[k].at = "remember" /\ RunOf(k).policy = "session"
         /\ conns[k].at = "wait" /\ conns[k].id \in yes
         /\ conns'[k].run = conns[k].run /\ conns'[k].key = conns[k].key
         /\ conns'[k].id = conns[k].id
      \/ /\ conns'[k].at = "sign" /\ RunOf(k).policy \in {"never", "always"}
         /\ conns[k].at = "wait" /\ conns[k].id \in yes
         /\ conns'[k].run = conns[k].run /\ conns'[k].key = conns[k].key
         /\ conns'[k].id = conns[k].id
    BY <1>1, <1>2 DEF Concludes, Served, Conn, TypeOK
<1>4. Waiting'
  <2> SUFFICES ASSUME NEW n \in Conns
      PROVE /\ conns'[n].at # "closed" => conns'[n].run \in 1..Len(runs')
            /\ conns'[n].at \in HasKey => conns'[n].key \in Keys
            /\ conns'[n].at \in HasId =>
                 /\ conns'[n].id \in Ids
                 /\ asked'[conns'[n].id] =
                      [key |-> conns'[n].key, run |-> conns'[n].run]
            /\ conns'[n].at = "remember" =>
                 conns'[n].id \in yes' /\ runs'[conns'[n].run].policy = "session"
      BY DEF Waiting, RunOf
  <2>1. CASE n = k
      BY <1>2, <1>3, <2>1 DEF RunOf
  <2>2. CASE n # k
    <3>1. conns'[n] = conns[n]
        BY <2>2 DEF Concludes
    <3> QED BY <3>1 DEF Waiting, RunOf
  <2> QED BY <2>1, <2>2
<1>5. SignedWithConsent'
  <2> SUFFICES ASSUME NEW n \in Conns, conns'[n].at = "sign"
      PROVE \/ runs'[conns'[n].run].policy = "never"
            \/ runs'[conns'[n].run].policy = "always" /\ conns'[n].id \in yes'
            \/ /\ runs'[conns'[n].run].policy = "session"
               /\ \E j \in yes' : asked'[j] =
                    [key |-> conns'[n].key, run |-> conns'[n].run]
      BY DEF SignedWithConsent, RunOf
  <2>1. CASE n = k
      BY <1>3, <2>1 DEF RunOf
  <2>2. CASE n # k
    <3>1. conns'[n] = conns[n]
        BY <2>2 DEF Concludes
    <3> QED BY <3>1 DEF SignedWithConsent, RunOf
  <2> QED BY <2>1, <2>2
<1> QED BY <1>4, <1>5

\* The answer taken from its channel is the user's.
LEMMA HearsIInv ==
    ASSUME IInv, NEW k \in Conns, Hears(k)
    PROVE  Waiting' /\ Fresh' /\ Honest' /\ SignedWithConsent' /\ ParkedIsAwaited'
<1> USE DEF IInv
<1>1. /\ conns[k].at = "wait" /\ answers[conns[k].id] # "none"
      /\ UNCHANGED <<runs, asked, seq, confirms, replies, yes>>
      /\ answers' = [answers EXCEPT ![conns[k].id] = "none"]
    BY DEF Hears, Answered, Hear, Dropped, dialog, agent
<1>2. conns[k].id \in Ids
    BY <1>1 DEF Waiting
<1>3. Granted(conns[k].id) => conns[k].id \in yes
    BY <1>2 DEF Granted, Honest
<1>4. Concludes(k)
    BY <1>1, <1>3 DEF Hears, Concludes, Replies, TypeOK
<1>5. Waiting' /\ SignedWithConsent'
    BY <1>1, <1>4, ConcludesIInv
<1>6. \A id \in Ids : answers'[id] \in {answers[id], "none"}
    BY <1>1, <1>2 DEF TypeOK, ConfirmTypeOK
<1>7. Fresh' /\ Honest'
    BY <1>1, <1>6 DEF Fresh, Honest
<1>8. ParkedIsAwaited'
  <2> SUFFICES ASSUME NEW id \in confirms
      PROVE \E n \in Conns : conns'[n].at \in {"wait", "expired"} /\ conns'[n].id = id
      BY <1>1 DEF ParkedIsAwaited
  <2>1. PICK n \in Conns : conns[n].at \in {"wait", "expired"} /\ conns[n].id = id
      BY DEF ParkedIsAwaited
  <2>2. conns[k].id \notin confirms
      BY <1>1, <1>2 DEF Fresh
  <2>3. conns'[n] = conns[n]
      BY <1>4, <2>1, <2>2 DEF Concludes
  <2> QED BY <2>1, <2>3
<1> QED BY <1>5, <1>7, <1>8

\* A request that gives up takes its own entry along.
LEMMA CleansUpIInv ==
    ASSUME IInv, NEW k \in Conns, CleansUp(k)
    PROVE  Waiting' /\ Fresh' /\ Honest' /\ SignedWithConsent' /\ ParkedIsAwaited'
<1> USE DEF IInv
<1>1. /\ conns[k].at = "expired"
      /\ UNCHANGED <<runs, asked, seq, replies, yes>>
      /\ confirms' = confirms \ {conns[k].id}
      /\ answers' = [answers EXCEPT ![conns[k].id] = "none"]
    BY DEF CleansUp, GiveUp, Unparked, Dropped, dialog, agent
<1>2. Concludes(k)
    BY <1>1 DEF CleansUp, Concludes, Replies, TypeOK
<1>3. Waiting' /\ SignedWithConsent'
    BY <1>1, <1>2, ConcludesIInv
<1>4. \A id \in Ids : answers'[id] \in {answers[id], "none"}
    BY <1>1 DEF TypeOK, ConfirmTypeOK
<1>5. Fresh' /\ Honest'
    BY <1>1, <1>4 DEF Fresh, Honest
<1>6. ParkedIsAwaited'
  <2> SUFFICES ASSUME NEW id \in confirms, id # conns[k].id
      PROVE \E n \in Conns : conns'[n].at \in {"wait", "expired"} /\ conns'[n].id = id
      BY <1>1 DEF ParkedIsAwaited
  <2>1. PICK n \in Conns : conns[n].at \in {"wait", "expired"} /\ conns[n].id = id
      BY DEF ParkedIsAwaited
  <2>2. conns'[n] = conns[n]
      BY <1>2, <2>1 DEF Concludes
  <2> QED BY <2>1, <2>2
<1> QED BY <1>3, <1>5, <1>6

\* A request whose event could not be emitted.
LEMMA AskFailsIInv ==
    ASSUME IInv, NEW k \in Conns, AskFails(k)
    PROVE  Waiting' /\ Fresh' /\ Honest' /\ SignedWithConsent' /\ ParkedIsAwaited'
<1> USE DEF IInv
<1>1. /\ conns[k].at = "ask" /\ seq' = seq + 1
      /\ UNCHANGED <<runs, asked, confirms, answers, replies, yes>>
    BY DEF AskFails, RequestFails, dialog, agent
<1>2. Concludes(k)
    BY <1>1 DEF AskFails, Concludes, Replies, TypeOK
<1>3. Waiting' /\ SignedWithConsent'
    BY <1>1, <1>2, ConcludesIInv
<1>4. seq \in Nat
    BY DEF TypeOK, ConfirmTypeOK
<1>5. Fresh' /\ Honest'
    BY <1>1, <1>4 DEF Fresh, Honest
<1>6. ParkedIsAwaited'
    BY <1>1, <1>2 DEF ParkedIsAwaited, Concludes
<1> QED BY <1>3, <1>5, <1>6

\* Only a granted request is remembered, for the run that asked.
LEMMA RemembersIInv ==
    ASSUME IInv, NEW k \in Conns, Remembers(k)
    PROVE  Waiting' /\ Fresh' /\ Honest' /\ SignedWithConsent' /\ ParkedIsAwaited'
<1> USE DEF IInv
<1>1. /\ conns[k].at = "remember"
      /\ UNCHANGED <<asked, seq, confirms, answers, replies, yes>>
      /\ runs' = [runs EXCEPT ![conns[k].run].approved = @ \cup {conns[k].key}]
      /\ conns' = [conns EXCEPT ![k].at = "sign"]
    BY DEF Remembers, confirmVars, handshake, dialog
<1>2. /\ conns[k].run \in 1..Len(runs) /\ conns[k].key \in Keys
      /\ conns[k].id \in Ids /\ conns[k].id \in yes
      /\ asked[conns[k].id] = [key |-> conns[k].key, run |-> conns[k].run]
      /\ runs[conns[k].run].policy = "session"
    BY <1>1 DEF Waiting, RunOf
<1>3. /\ \A n \in Conns : n # k => conns'[n] = conns[n]
      /\ conns'[k].at = "sign" /\ conns'[k].run = conns[k].run
      /\ conns'[k].key = conns[k].key /\ conns'[k].id = conns[k].id
    BY <1>1 DEF TypeOK, Conn
<1>4. /\ Len(runs') = Len(runs)
      /\ \A r \in 1..Len(runs) :
           /\ runs'[r].policy = runs[r].policy
           /\ runs'[r].approved \subseteq runs[r].approved \cup
                (IF r = conns[k].run THEN {conns[k].key} ELSE {})
  <2>1. \A r \in 1..Len(runs) : runs[r] \in Run
      BY DEF TypeOK
  <2> QED BY <1>1, <1>2, <2>1 DEF Run, TypeOK
<1>5. Waiting'
  <2> SUFFICES ASSUME NEW n \in Conns
      PROVE /\ conns'[n].at # "closed" => conns'[n].run \in 1..Len(runs')
            /\ conns'[n].at \in HasKey => conns'[n].key \in Keys
            /\ conns'[n].at \in HasId =>
                 /\ conns'[n].id \in Ids
                 /\ asked'[conns'[n].id] =
                      [key |-> conns'[n].key, run |-> conns'[n].run]
            /\ conns'[n].at = "remember" =>
                 conns'[n].id \in yes' /\ runs'[conns'[n].run].policy = "session"
      BY DEF Waiting, RunOf
  <2>0. asked' = asked /\ yes' = yes
      BY <1>1
  <2>1. CASE n = k
      BY <1>2, <1>3, <1>4, <2>1
  <2>2. CASE n # k
    <3>1. conns'[n] = conns[n]
        BY <1>3, <2>2
    <3>2. /\ conns[n].at # "closed" => conns[n].run \in 1..Len(runs)
          /\ conns[n].at \in HasKey => conns[n].key \in Keys
          /\ conns[n].at \in HasId =>
               /\ conns[n].id \in Ids
               /\ asked[conns[n].id] = [key |-> conns[n].key, run |-> conns[n].run]
        BY DEF Waiting
    <3>3. conns[n].at = "remember" =>
            conns[n].id \in yes /\ runs[conns[n].run].policy = "session"
        BY DEF Waiting, RunOf
    <3> QED BY <1>4, <2>0, <3>1, <3>2, <3>3
  <2> QED BY <2>1, <2>2
<1>6. Fresh'
    BY <1>1 DEF Fresh
<1>7. ParkedIsAwaited'
    BY <1>1, <1>3 DEF ParkedIsAwaited
<1>8. ASSUME NEW r \in 1..Len(runs'), NEW key \in runs'[r].approved
      PROVE  \E id \in yes : asked[id] = [key |-> key, run |-> r]
  <2>1. CASE key \in runs[r].approved
      BY <1>4, <2>1 DEF Honest
  <2>2. CASE r = conns[k].run /\ key = conns[k].key
      BY <1>2, <2>2
  <2> QED BY <1>4, <2>1, <2>2
<1>9. Honest'
    BY <1>1, <1>8 DEF Honest
<1>10. SignedWithConsent'
  <2> SUFFICES ASSUME NEW n \in Conns, conns'[n].at = "sign"
      PROVE \/ runs'[conns'[n].run].policy = "never"
            \/ runs'[conns'[n].run].policy = "always" /\ conns'[n].id \in yes'
            \/ /\ runs'[conns'[n].run].policy = "session"
               /\ \E j \in yes' : asked'[j] =
                    [key |-> conns'[n].key, run |-> conns'[n].run]
      BY DEF SignedWithConsent, RunOf
  <2>0. asked' = asked /\ yes' = yes
      BY <1>1
  <2>1. CASE n = k
      BY <1>2, <1>3, <1>4, <2>0, <2>1
  <2>2. CASE n # k
    <3>1. conns'[n] = conns[n] /\ conns[n].at = "sign"
        BY <1>3, <2>2
    <3>2. conns[n].run \in 1..Len(runs)
        BY <3>1 DEF Waiting
    <3>3. \/ runs[conns[n].run].policy = "never"
          \/ runs[conns[n].run].policy = "always" /\ conns[n].id \in yes
          \/ /\ runs[conns[n].run].policy = "session"
             /\ \E j \in yes : asked[j] =
                  [key |-> conns[n].key, run |-> conns[n].run]
        BY <3>1 DEF SignedWithConsent, RunOf
    <3> QED BY <1>4, <2>0, <3>1, <3>2, <3>3
  <2> QED BY <2>1, <2>2
<1> QED BY <1>5, <1>6, <1>7, <1>9, <1>10

\* No connection step touches the slot or the commands, brings a listener up, or
\* takes a request off the dialog's queue.
LEMMA ConnDoor ==
    ASSUME IInv, ConnStep
    PROVE  Holding' /\ DoorHasAHandle' /\ NoPromptIsStranded'
<1> USE DEF IInv
<1>1. UNCHANGED <<slot, calls, path, current, queue, replies, resumes>>
    BY DEF ConnStep, AcceptFails, Connects, Disconnects, SignRequested, Asks,
           AskFails, Hears, Expires, CleansUp, Remembers, Signs, Request,
           RequestFails, Hear, GiveUp, confirmVars, handshake, dialog, agent
<1>2. /\ Len(runs') = Len(runs)
      /\ \A r \in 1..Len(runs) : runs'[r].accepting => runs[r].accepting
  <2>0. \A r \in 1..Len(runs) : runs[r] \in Run
      BY DEF TypeOK
  <2>1. ASSUME NEW r \in Runs, AcceptFails(r)
        PROVE  /\ Len(runs') = Len(runs)
               /\ \A q \in 1..Len(runs) : runs'[q].accepting => runs[q].accepting
    <3>1. r \in 1..Len(runs) /\ runs' = [runs EXCEPT ![r].accepting = FALSE]
        BY <2>1 DEF AcceptFails, Live
    <3> QED BY <2>0, <3>1 DEF Run, TypeOK
  <2>2. ASSUME NEW k \in Conns, Remembers(k)
        PROVE  /\ Len(runs') = Len(runs)
               /\ \A q \in 1..Len(runs) : runs'[q].accepting => runs[q].accepting
    <3>1. /\ conns[k].run \in 1..Len(runs)
          /\ runs' = [runs EXCEPT ![conns[k].run].approved = @ \cup {conns[k].key}]
        BY <2>2 DEF Remembers, Waiting
    <3> QED BY <2>0, <3>1 DEF Run, TypeOK
  <2>3. \/ UNCHANGED runs
        \/ \E r \in Runs : AcceptFails(r)
        \/ \E k \in Conns : Remembers(k)
      BY DEF ConnStep, Connects, Disconnects, SignRequested, Asks, AskFails,
             Hears, Expires, CleansUp, Signs, agent
  <2> QED BY <2>1, <2>2, <2>3
<1>3. Live(path)' => Live(path)
    BY <1>1, <1>2 DEF Live
<1>4. Holding' /\ NoPromptIsStranded'
    BY <1>1, <1>2 DEF Holding, NoPromptIsStranded
<1>5. DoorHasAHandle'
    BY <1>1, <1>3 DEF DoorHasAHandle
<1> QED BY <1>4, <1>5

\* Every connection step preserves the invariant.
LEMMA ConnIInv == IInv /\ ConnStep => IInv'
<1> SUFFICES ASSUME IInv, ConnStep PROVE IInv'
    OBVIOUS
<1>1. TypeOK' /\ Holding' /\ DoorHasAHandle' /\ NoPromptIsStranded'
    BY ConnType, ConnDoor DEF IInv
<1>2. Waiting' /\ Fresh' /\ Honest' /\ SignedWithConsent' /\ ParkedIsAwaited'
  <2>1. CASE QuietStep
      BY <2>1, QuietIInv DEF IInv
  <2>2. ASSUME NEW k \in Conns,
               Asks(k) \/ AskFails(k) \/ Hears(k) \/ CleansUp(k) \/ Remembers(k)
        PROVE  Waiting' /\ Fresh' /\ Honest' /\ SignedWithConsent' /\ ParkedIsAwaited'
    <3>1. CASE Asks(k)
        BY <3>1, AsksIInv DEF IInv
    <3>2. CASE AskFails(k)
        BY <3>2, AskFailsIInv
    <3>3. CASE Hears(k)
        BY <3>3, HearsIInv
    <3>4. CASE CleansUp(k)
        BY <3>4, CleansUpIInv
    <3>5. CASE Remembers(k)
        BY <3>5, RemembersIInv
    <3> QED BY <2>2, <3>1, <3>2, <3>3, <3>4, <3>5
  <2>3. \/ QuietStep
        \/ \E k \in Conns :
             Asks(k) \/ AskFails(k) \/ Hears(k) \/ CleansUp(k) \/ Remembers(k)
      BY DEF ConnStep, QuietStep
  <2> QED BY <2>1, <2>2, <2>3
<1> QED BY <1>1, <1>2 DEF IInv

-----------------------------------------------------------------------------
(* Steps of the dialog and of the answers.                                 *)

\* A queued request always has somebody to bring it on screen.
LEMMA DialogStranded ==
    ConfirmTypeOK /\ NoPromptIsStranded /\ DialogStep => NoPromptIsStranded'
<1> SUFFICES ASSUME ConfirmTypeOK, NoPromptIsStranded, DialogStep, queue' # <<>>
             PROVE  (current # None \/ replies # {} \/ resumes > 0)'
    BY DEF NoPromptIsStranded
<1> HIDE DEF Ids
<1>1. CASE EventArrives
  <2>1. CASE current # None
      BY <1>1, <2>1 DEF EventArrives
  <2>2. CASE current = None
    <3>1. Head(inbox) \in Ids
        BY <1>1, QueueType DEF EventArrives, ConfirmTypeOK
    <3> QED BY <1>1, <2>2, <3>1 DEF EventArrives
  <2> QED BY <2>1, <2>2
<1>2. CASE \E ok \in BOOLEAN : Responds(ok)
    BY <1>2 DEF Responds
<1>3. CASE ShowsNext
  <2>1. queue # <<>>
      BY <1>3 DEF ShowsNext
  <2>2. Head(queue) \in Ids
      BY <2>1, QueueType DEF ConfirmTypeOK
  <2> QED BY <1>3, <2>1, <2>2 DEF ShowsNext
<1>4. CASE BackendResponds
  <2>1. resumes \in Nat /\ resumes' = resumes + 1
      BY <1>4 DEF BackendResponds, Resumed, ConfirmTypeOK
  <2> QED BY <2>1
<1> QED BY <1>1, <1>2, <1>3, <1>4 DEF DialogStep

\* The window invents no yes: the dialog's comes from the button, the channel's
\* from a reply, and a channel is filled once, when its entry leaves the map.
LEMMA DialogHonest ==
    ASSUME ConfirmTypeOK, Fresh, Honest, DialogStep, UNCHANGED <<runs, asked>>
    PROVE  /\ Fresh' /\ Honest'
           /\ yes \subseteq yes' /\ confirms' \subseteq confirms
<1>1. CASE EventArrives \/ ShowsNext
  <2>1. UNCHANGED <<seq, confirms, answers, replies, yes>>
      BY <1>1 DEF EventArrives, ShowsNext, handshake
  <2> QED BY <2>1 DEF Fresh, Honest
<1>2. ASSUME NEW ok \in BOOLEAN, Responds(ok)
      PROVE  /\ Fresh' /\ Honest'
             /\ yes \subseteq yes' /\ confirms' \subseteq confirms
  <2>1. /\ UNCHANGED <<seq, confirms, answers>>
        /\ replies' = replies \cup {[id |-> current, ok |-> ok]}
        /\ yes' = IF ok THEN yes \cup {current} ELSE yes
      BY <1>2 DEF Responds, handshake
  <2>2. yes \subseteq yes'
      BY <2>1
  <2>3. \A reply \in replies' : reply.ok => reply.id \in yes'
      BY <2>1, <2>2 DEF Honest
  <2>4. \A id \in Ids : answers'[id] = "yes" => id \in yes'
      BY <2>1, <2>2 DEF Honest
  <2>5. \A r \in 1..Len(runs) : \A key \in runs[r].approved :
          \E id \in yes' : asked[id] = [key |-> key, run |-> r]
      BY <2>2 DEF Honest
  <2> QED BY <2>1, <2>2, <2>3, <2>4, <2>5 DEF Fresh, Honest
<1>3. CASE BackendResponds
  <2>0. PICK reply \in replies :
          /\ replies' = replies \ {reply}
          /\ confirms' = confirms \ {reply.id}
          /\ answers' = IF reply.id \in confirms
                          THEN [answers EXCEPT ![reply.id] =
                                  IF reply.ok THEN "yes" ELSE "no"]
                          ELSE answers
          /\ UNCHANGED <<seq, yes>>
      BY <1>3 DEF BackendResponds
  <2>1. reply.ok => reply.id \in yes
      BY DEF Honest
  <2>2. \A id \in Ids : answers'[id] # answers[id] =>
          /\ id = reply.id /\ id \in confirms
          /\ answers'[id] = "yes" => reply.ok
      BY <2>0 DEF ConfirmTypeOK
  <2>3. \A id \in Ids : answers'[id] = "yes" => id \in yes'
      BY <2>0, <2>1, <2>2 DEF Honest
  <2>4. Honest'
      BY <2>0, <2>3 DEF Honest
  <2>5. Fresh'
      BY <2>0, <2>2 DEF Fresh
  <2> QED BY <2>0, <2>4, <2>5
<1> QED BY <1>1, <1>2, <1>3 DEF DialogStep

\* The dialog and the answers preserve the invariant.
LEMMA DialogIInv == IInv /\ DialogMoves => IInv'
<1> SUFFICES ASSUME IInv, DialogMoves PROVE IInv'
    OBVIOUS
<1> USE DEF IInv
<1>1. /\ DialogStep
      /\ UNCHANGED <<open, slot, runs, path, calls, conns, asked>>
    BY DEF DialogMoves, agent
<1>2. TypeOK'
  <2>1. ConfirmTypeOK'
      BY <1>1, DialogType DEF TypeOK
  <2> QED BY <1>1, <2>1 DEF TypeOK
<1>3. NoPromptIsStranded'
    BY <1>1, DialogStranded DEF TypeOK
<1>4. Fresh' /\ Honest' /\ yes \subseteq yes' /\ confirms' \subseteq confirms
    BY <1>1, DialogHonest DEF TypeOK
<1>5. Waiting' /\ SignedWithConsent'
    BY <1>1, <1>4 DEF Waiting, SignedWithConsent, RunOf
<1>6. ParkedIsAwaited'
    BY <1>1, <1>4 DEF ParkedIsAwaited
<1>7. Holding' /\ DoorHasAHandle'
    BY <1>1 DEF Holding, DoorHasAHandle, Live
<1> QED BY <1>2, <1>3, <1>4, <1>5, <1>6, <1>7

-----------------------------------------------------------------------------
(* The theorems.                                                           *)

\* A command preserves the invariant.
LEMMA CommandIInv == IInv /\ CommandStep => IInv'
BY CommandType, CommandHonest, CommandHolding, CommandDoor DEF IInv

\* The invariant is inductive, and holds of every state the agent reaches.
THEOREM Invariance == Spec => []IInv
<1>1. IInv /\ [Next]_vars => IInv'
  <2> SUFFICES ASSUME IInv, [Next]_vars PROVE IInv'
      OBVIOUS
  <2>1. CASE Next
      BY <2>1, CommandIInv, ConnIInv, DialogIInv DEF Next
  <2>2. CASE UNCHANGED vars
      BY <2>2 DEF vars, agent, confirmVars, handshake, dialog, IInv, TypeOK,
             ConfirmTypeOK, Waiting, Fresh, Honest, Holding, SignedWithConsent,
             DoorHasAHandle, ParkedIsAwaited, NoPromptIsStranded, RunOf, Live
  <2> QED BY <2>1, <2>2
<1> QED BY <1>1, InitIInv, PTL DEF Spec

\* Every variable keeps its type.
THEOREM TypeCorrect == Spec => []TypeOK
<1>1. IInv => TypeOK
    BY DEF IInv
<1> QED BY <1>1, Invariance, PTL

\* No signature without the consent the run's policy asks for, however many
\* agents, connections, requests and answers are under way.
THEOREM ConsentHolds == Spec => []SignedWithConsent
<1>1. IInv => SignedWithConsent
    BY DEF IInv
<1> QED BY <1>1, Invariance, PTL

\* A socket that answers can always be shut, whatever commands run together.
THEOREM DoorIsHeld == Spec => []DoorHasAHandle
<1>1. IInv => DoorHasAHandle
    BY DEF IInv
<1> QED BY <1>1, Invariance, PTL

\* The confirmation map holds only requests somebody waits for.
THEOREM NothingLeftParked == Spec => []ParkedIsAwaited
<1>1. IInv => ParkedIsAwaited
    BY DEF IInv
<1> QED BY <1>1, Invariance, PTL

\* A queued request always has somebody to bring it on screen.
THEOREM NothingStranded == Spec => []NoPromptIsStranded
<1>1. IInv => NoPromptIsStranded
    BY DEF IInv
<1> QED BY <1>1, Invariance, PTL
=============================================================================
