--------------------------- MODULE FoldersProofs ---------------------------
(***************************************************************************)
(* Proofs about Folders, for any tree of folders and any number of         *)
(* concurrent commands.                                                    *)
(*                                                                         *)
(* What memory and the log say is carried there by invocations, so the     *)
(* invariants need what an invocation holds: names the server has had, and *)
(* for a batch how its plan, what of it is sent and its rows fit together. *)
(* A row can be marked on the strength of its batch and folder alone only  *)
(* because a batch that would rename one folder twice has no rows.         *)
(***************************************************************************)
EXTENDS Folders, TLAPS

ServerNamesServed ==
    \A f \in Folders : server.names[f] # None => server.names[f] \in had[f]

CacheServed == cache # None => \A e \in cache.folders : e.path \in had[e.folder]

\* What an invocation holds of names the server has had, h.
Served(call, h) ==
    /\ call.at \in {"create.splice", "rename.splice", "path.mark"}
         => call.path \in h[call.folder]
    /\ call.at = "sync.apply" => \A f \in Folders :
         call.answer.names[f] # None => call.answer.names[f] \in h[f]
    /\ \A r \in call.plan \ call.todo :
         \/ r.new \in h[r.was.folder]
         \/ call.at = "path.sent" /\ call.folder = r.was.folder /\ call.path = r.new
    /\ \A row \in call.rows : row.original.path \in h[row.folder]

\* How the parts of a batch fit together.
Planned(call) ==
    /\ call.todo \subseteq call.plan
    /\ call.at \in {"path.sent", "path.mark"} =>
         \E r \in call.plan \ call.todo :
            r.was.folder = call.folder /\ r.new = call.path
    /\ \A row \in call.rows :
         /\ row.op = call.op /\ ~row.applied
         /\ row.original.folder = row.folder
         /\ \E r \in call.plan : r.was.folder = row.folder /\ r.new = row.new

\* A row of a batch in log l is for a folder that the batch renames once.
Logged(call, l) ==
    \A row \in l : \A r, q \in call.plan :
        /\ row.op = call.op
        /\ r.was.folder = row.folder
        /\ q.was.folder = row.folder
        => r = q /\ r.new = row.new

CallsFit ==
    \A c \in Calls :
        /\ Served(calls[c], had)
        /\ Planned(calls[c])
        /\ Logged(calls[c], log)

\* Batches have numbers of their own.
NumbersAreFresh ==
    /\ \A c \in Calls : calls[c].op <= begun
    /\ \A row \in log : row.op <= begun
    /\ \A c, d \in Calls :
         c # d /\ calls[c].op = calls[d].op => calls[c].op = 0

IInv ==
    /\ TypeOK
    /\ ServerNamesServed
    /\ ShowsOnlyServedNames
    /\ CacheServed
    /\ LogIsTrue
    /\ CallsFit
    /\ NumbersAreFresh
    /\ UnsentIsUnapplied

USE NoneAssumption, BoundAssumption
USE DEF Server, Home, Vault

\* Initially every invariant holds.
LEMMA InitIInv == Init => IInv
<1> SUFFICES ASSUME Init PROVE IInv
    OBVIOUS
<1> USE StartAssumption DEF Init, Idle
<1>1. TypeOK
  <2>1. Idle \in Call /\ Holds(Idle)
      BY DEF Call, Steps, Holds
  <2>2. server \in Server
      OBVIOUS
  <2>3. had \in [Folders -> SUBSET Paths]
      OBVIOUS
  <2>4. open \in BOOLEAN
      BY Zenon
  <2>5. calls \in [Calls -> Call] /\ \A c \in Calls : Holds(calls[c])
      BY <2>1
  <2>6. begun \in 0..MaxCommands
      OBVIOUS
  <2> QED BY <2>2, <2>3, <2>4, <2>5, <2>6 DEF TypeOK
<1>2. ServerNamesServed /\ ShowsOnlyServedNames /\ CacheServed
    BY DEF ServerNamesServed, ShowsOnlyServedNames, CacheServed
<1>3. LogIsTrue /\ UnsentIsUnapplied /\ NumbersAreFresh
    BY DEF LogIsTrue, UnsentIsUnapplied, NumbersAreFresh
<1>4. CallsFit
    BY DEF CallsFit, Served, Planned, Logged
<1> QED BY <1>1, <1>2, <1>3, <1>4 DEF IInv

-----------------------------------------------------------------------------
(* Steps of invocations that leave the log alone.                          *)

\* The server's history of names only grows.
Grows ==
    /\ had' \in [Folders -> SUBSET Paths]
    /\ \A f \in Folders : had[f] \subseteq had'[f]
    /\ begun' \in 0..MaxCommands
    /\ begun <= begun'

\* Where an invocation at call may go: on with its batch, home, or into a batch
\* with the next number.
MayFollow(next, call) ==
    \/ next.op = call.op /\ next.plan = call.plan /\ next.todo \subseteq call.todo
    \/ next.op = 0 /\ next.plan = {} /\ next.todo = {}
    \/ next.op = begun + 1

CallPart ==
    /\ calls \in [Calls -> Call]
    /\ \A c \in Calls : Holds(calls[c])
    /\ CallsFit
    /\ NumbersAreFresh
    /\ UnsentIsUnapplied

\* An invocation may go to any record that holds what its next step needs.
LEMMA GoesTo ==
    ASSUME IInv, Grows, log' = log, NEW c \in Calls, NEW next \in Call,
           calls' = [calls EXCEPT ![c] = next],
           Holds(next), Served(next, had'), Planned(next),
           next.op <= begun', MayFollow(next, calls[c])
    PROVE  CallPart'
<1> USE DEF IInv, Grows
<1>1. calls' \in [Calls -> Call] /\ calls'[c] = next
    BY DEF TypeOK
<1>2. ASSUME NEW d \in Calls, d # c PROVE calls'[d] = calls[d]
    BY <1>2 DEF TypeOK
<1>3. \A row \in log : row.op \in 1..begun
    BY DEF TypeOK, Row, NumbersAreFresh
<1>4. \A d \in Calls : Holds(calls'[d])
    BY <1>1, <1>2 DEF TypeOK
<1>5. CallsFit'
  <2>1. ASSUME NEW d \in Calls, d # c PROVE Served(calls[d], had')
    <3> calls[d] \in Call /\ Served(calls[d], had)
        BY DEF TypeOK, CallsFit
    <3>1. calls[d].at \in {"create.splice", "rename.splice", "path.mark"}
            => calls[d].path \in had'[calls[d].folder]
        BY DEF TypeOK, Served, Holds
    <3>2. calls[d].at = "sync.apply" => \A f \in Folders :
            calls[d].answer.names[f] # None => calls[d].answer.names[f] \in had'[f]
        BY DEF Served
    <3>3. \A r \in calls[d].plan \ calls[d].todo :
            \/ r.new \in had'[r.was.folder]
            \/ /\ calls[d].at = "path.sent"
               /\ calls[d].folder = r.was.folder /\ calls[d].path = r.new
        BY DEF Served, Call, Renaming, Entry
    <3>4. \A row \in calls[d].rows : row.original.path \in had'[row.folder]
        BY DEF Served, Call, Row
    <3> QED BY <3>1, <3>2, <3>3, <3>4 DEF Served
  <2>2. Logged(next, log)
      BY <1>3 DEF MayFollow, Logged, CallsFit, TypeOK
  <2> QED BY <1>1, <1>2, <2>1, <2>2 DEF CallsFit
<1>6. NumbersAreFresh'
  <2>1. \A d \in Calls : calls[d].op \in 0..begun
      BY DEF NumbersAreFresh, TypeOK, Call
  <2>2. \A d \in Calls : calls'[d].op <= begun'
      BY <1>1, <1>2, <2>1 DEF TypeOK
  <2>3. \A row \in log' : row.op <= begun'
      BY <1>3 DEF TypeOK
  <2>4. ASSUME NEW d \in Calls, d # c, next.op = calls[d].op PROVE next.op = 0
      BY <2>1, <2>4 DEF MayFollow, NumbersAreFresh, TypeOK
  <2>5. ASSUME NEW a \in Calls, NEW b \in Calls, a # b, calls'[a].op = calls'[b].op
        PROVE  calls'[a].op = 0
    <3>1. CASE a = c
        BY <1>1, <1>2, <2>4, <2>5, <3>1
    <3>2. CASE b = c
        BY <1>1, <1>2, <2>4, <2>5, <3>2
    <3>3. CASE a # c /\ b # c
        BY <1>2, <2>5, <3>3 DEF NumbersAreFresh
    <3> QED BY <3>1, <3>2, <3>3
  <2> QED BY <2>2, <2>3, <2>5 DEF NumbersAreFresh
<1>7. UnsentIsUnapplied'
  <2>1. ASSUME NEW r \in next.todo, NEW row \in log,
               row.op = next.op, row.folder = r.was.folder
        PROVE  ~row.applied
      BY <1>3, <2>1 DEF MayFollow, UnsentIsUnapplied, TypeOK
  <2> QED BY <1>1, <1>2, <2>1 DEF UnsentIsUnapplied
<1> QED BY <1>1, <1>4, <1>5, <1>6, <1>7 DEF CallPart

\* Names the server has had stay names it has had.
LEMMA NamesStay ==
    ASSUME IInv, Grows, vault' = vault, cache' = cache, log' = log
    PROVE  ShowsOnlyServedNames' /\ CacheServed' /\ LogIsTrue'
<1> USE DEF IInv, Grows
<1>1. ShowsOnlyServedNames' /\ CacheServed'
    BY DEF ShowsOnlyServedNames, CacheServed, TypeOK, Entry
<1>2. LogIsTrue'
    BY DEF LogIsTrue, TypeOK, Row
<1> QED BY <1>1, <1>2

\* Nothing but one invocation, and the count of commands, moves.
LEMMA OnlyCallMoves ==
    ASSUME IInv, NEW c \in Calls, NEW next \in Call,
           calls' = [calls EXCEPT ![c] = next],
           Holds(next), Served(next, had), Planned(next),
           next.op <= begun', MayFollow(next, calls[c]),
           begun' \in 0..MaxCommands, begun <= begun',
           UNCHANGED <<server, open, vault, cache, log, had>>
    PROVE  IInv'
<1>1. Grows
    BY DEF Grows, IInv, TypeOK
<1>2. CallPart'
    BY <1>1, GoesTo
<1>3. ShowsOnlyServedNames' /\ CacheServed' /\ LogIsTrue'
    BY <1>1, NamesStay
<1>4. TypeOK'
    BY <1>2 DEF CallPart, IInv, TypeOK
<1>5. ServerNamesServed'
    BY DEF IInv, ServerNamesServed
<1> QED BY <1>2, <1>3, <1>4, <1>5 DEF CallPart, IInv

\* Home fits everywhere.
LEMMA IdleFits ==
    ASSUME TypeOK, NEW c \in Calls, NEW h
    PROVE  /\ Idle \in Call /\ Holds(Idle) /\ Served(Idle, h) /\ Planned(Idle)
           /\ Idle.op = 0 /\ MayFollow(Idle, calls[c])
<1> USE DEF Idle
<1>1. Idle \in Call
    BY DEF Call, Steps
<1> QED BY <1>1 DEF Holds, Served, Planned, MayFollow

\* An invocation that returns leaves everything fitting.
LEMMA ReturnsIInv ==
    ASSUME IInv, NEW c \in Calls, Return(c),
           UNCHANGED <<server, open, vault, cache, log, begun, had>>
    PROVE  IInv'
<1>1. PICK next : next = Idle
    OBVIOUS
<1>2. begun' \in 0..MaxCommands /\ begun <= begun' /\ next.op <= begun'
    BY <1>1 DEF IInv, TypeOK, Idle
<1> QED
    BY <1>1, <1>2, IdleFits, OnlyCallMoves DEF Return, IInv

\* A command that begins with no batch of its own.
LEMMA StartsIInv ==
    ASSUME IInv, NEW c \in Calls, NEW next \in Call, Starts(c, next),
           Holds(next), next.plan = {}, next.todo = {}, next.rows = {}, next.op = 0,
           next.at \in {"create.sent", "delete.sent", "rename.sent", "move.sent"}
    PROVE  IInv'
<1>1. Served(next, had) /\ Planned(next) /\ MayFollow(next, calls[c])
    BY DEF Served, Planned, MayFollow
<1>2. begun' \in 0..MaxCommands /\ begun <= begun' /\ next.op <= begun'
    BY DEF IInv, TypeOK, Starts, CanStart
<1> QED BY <1>1, <1>2, OnlyCallMoves DEF Starts

\* create_folder, delete_folder, rename_folder and move_cipher_to_folder begin.
LEMMA StartStepsIInv ==
    ASSUME IInv, NEW c \in Calls,
           \/ \E path \in Typed : CreateStart(c, path)
           \/ \E f \in Known : DeleteStart(c, f)
           \/ \E f \in Known, path \in Typed : RenameStart(c, f, path)
           \/ \E i \in Items, f \in Known \cup {None} : MoveStart(c, i, f)
    PROVE  IInv'
<1> USE TypedAssumption
<1>1. CASE \E path \in Typed : CreateStart(c, path)
  <2>1. PICK path \in Typed : CreateStart(c, path)
      BY <1>1
  <2>2. PICK next : next = [Idle EXCEPT !.at = "create.sent", !.path = path]
      OBVIOUS
  <2>3. next = [at |-> "create.sent", folder |-> None, item |-> None, path |-> path,
                op |-> 0, plan |-> {}, todo |-> {}, rows |-> {}, answer |-> None]
      BY <2>2 DEF Idle
  <2>4. next \in Call
      BY <2>3 DEF Call, Steps
  <2>5. Holds(next)
      BY <2>3 DEF Holds
  <2> QED BY <2>1, <2>2, <2>3, <2>4, <2>5, StartsIInv DEF CreateStart
<1>2. CASE \E f \in Known : DeleteStart(c, f)
  <2>1. PICK f \in Known : DeleteStart(c, f)
      BY <1>2
  <2>2. PICK next : next = [Idle EXCEPT !.at = "delete.sent", !.folder = f]
      OBVIOUS
  <2>3. next = [at |-> "delete.sent", folder |-> f, item |-> None, path |-> None,
                op |-> 0, plan |-> {}, todo |-> {}, rows |-> {}, answer |-> None]
      BY <2>2 DEF Idle
  <2>4. next \in Call
      BY <2>3 DEF Call, Steps, Known
  <2>5. Holds(next)
      BY <2>3 DEF Holds, Known
  <2> QED BY <2>1, <2>2, <2>3, <2>4, <2>5, StartsIInv DEF DeleteStart
<1>3. CASE \E f \in Known, path \in Typed : RenameStart(c, f, path)
  <2>1. PICK f \in Known, path \in Typed : RenameStart(c, f, path)
      BY <1>3
  <2>2. PICK next : next = [Idle EXCEPT !.at = "rename.sent", !.folder = f,
                                        !.path = path]
      OBVIOUS
  <2>3. next = [at |-> "rename.sent", folder |-> f, item |-> None, path |-> path,
                op |-> 0, plan |-> {}, todo |-> {}, rows |-> {}, answer |-> None]
      BY <2>2 DEF Idle
  <2>4. next \in Call
      BY <2>3 DEF Call, Steps, Known
  <2>5. next.at = "rename.sent" /\ next.folder \in Folders /\ next.path \in Paths
      BY <2>3 DEF Known
  <2>6. Holds(next)
      BY <2>5 DEF Holds
  <2>7. Starts(c, next)
      BY <2>1, <2>2 DEF RenameStart
  <2>8. next.plan = {} /\ next.todo = {} /\ next.rows = {} /\ next.op = 0
      BY <2>3
  <2> QED BY <2>4, <2>5, <2>6, <2>7, <2>8, StartsIInv
<1>4. CASE \E i \in Items, f \in Known \cup {None} : MoveStart(c, i, f)
  <2>1. PICK i \in Items, f \in Known \cup {None} : MoveStart(c, i, f)
      BY <1>4
  <2>2. PICK next : next = [Idle EXCEPT !.at = "move.sent", !.item = i,
                                        !.folder = f]
      OBVIOUS
  <2>3. next = [at |-> "move.sent", folder |-> f, item |-> i, path |-> None,
                op |-> 0, plan |-> {}, todo |-> {}, rows |-> {}, answer |-> None]
      BY <2>2 DEF Idle
  <2>4. next \in Call
      BY <2>3 DEF Call, Steps, Known
  <2>5. next.at = "move.sent" /\ next.item \in Items
      BY <2>3
  <2>6. Holds(next)
      BY <2>5 DEF Holds
  <2>7. Starts(c, next)
      BY <2>1, <2>2 DEF MoveStart
  <2>8. next.plan = {} /\ next.todo = {} /\ next.rows = {} /\ next.op = 0
      BY <2>3
  <2> QED BY <2>4, <2>5, <2>6, <2>7, <2>8, StartsIInv
<1> QED BY <1>1, <1>2, <1>3, <1>4

-----------------------------------------------------------------------------
(* The server's steps.                                                     *)

\* The server takes a request, and the invocation hears of it or fails.
LEMMA ServerMovesOn ==
    ASSUME IInv, Grows, begun' = begun, NEW c \in Calls, NEW next \in Call,
           calls' = [calls EXCEPT ![c] = next],
           Holds(next), Served(next, had'), Planned(next),
           next.op <= begun, MayFollow(next, calls[c]),
           server' \in Server, ServerNamesServed',
           UNCHANGED <<open, vault, cache, log>>
    PROVE  IInv'
<1>1. CallPart'
    BY GoesTo
<1>2. ShowsOnlyServedNames' /\ CacheServed' /\ LogIsTrue'
    BY NamesStay
<1>3. TypeOK'
    BY <1>1 DEF CallPart, IInv, TypeOK, Grows
<1> QED BY <1>1, <1>2, <1>3 DEF CallPart, IInv

\* A folder is created under the name asked for.
LEMMA ServerCreatesIInv == ASSUME IInv, NEW c \in Calls, ServerCreates(c) PROVE IInv'
<1>1. PICK f \in Folders \ Known :
        /\ server' = [server EXCEPT !.names[f] = calls[c].path]
        /\ had' = [had EXCEPT ![f] = {calls[c].path}]
        /\ \/ calls' = [calls EXCEPT ![c].at = "create.splice", ![c].folder = f]
           \/ Return(c)
    BY DEF ServerCreates
<1>2. calls[c] \in Call /\ calls[c].at = "create.sent" /\ calls[c].path \in Paths
    BY DEF IInv, TypeOK, Holds, ServerCreates
<1>3. had[f] = {}
    BY DEF Known
<1>4. Grows /\ begun' = begun
    BY <1>1, <1>2, <1>3 DEF Grows, IInv, TypeOK, ServerCreates
<1>5. server' \in Server
    BY <1>1, <1>2 DEF IInv, TypeOK
<1>6. ServerNamesServed'
    BY <1>1, <1>2, <1>4 DEF ServerNamesServed, IInv, TypeOK, Grows
<1>7. UNCHANGED <<open, vault, cache, log>>
    BY DEF ServerCreates
<1>8. CASE Return(c)
  <2>1. PICK next : next = Idle
      OBVIOUS
  <2>2. next.op <= begun
      BY <2>1 DEF Idle, IInv, TypeOK
  <2> QED BY <1>4, <1>5, <1>6, <1>7, <1>8, <2>1, <2>2, IdleFits, ServerMovesOn
          DEF Return, IInv
<1>9. CASE calls' = [calls EXCEPT ![c].at = "create.splice", ![c].folder = f]
  <2>1. PICK next : next = [calls[c] EXCEPT !.at = "create.splice", !.folder = f]
      OBVIOUS
  <2>2. next \in Call
      BY <1>2, <2>1 DEF Call, Steps
  <2>3. /\ next.at = "create.splice" /\ next.folder = f /\ next.path = calls[c].path
        /\ next.op = calls[c].op /\ next.plan = calls[c].plan
        /\ next.todo = calls[c].todo /\ next.rows = calls[c].rows
      BY <1>2, <2>1 DEF Call
  <2>4. Holds(next) /\ MayFollow(next, calls[c])
      BY <1>2, <2>3 DEF Holds, MayFollow
  <2>5. Served(next, had')
    <3>1. next.path \in had'[next.folder]
        BY <1>1, <1>2, <2>3 DEF IInv, TypeOK
    <3>2. \A r \in next.plan \ next.todo : r.new \in had'[r.was.folder]
        BY <1>2, <1>4, <2>3 DEF IInv, CallsFit, Served, Grows, Call, Renaming, Entry
    <3>3. \A row \in next.rows : row.original.path \in had'[row.folder]
        BY <1>2, <1>4, <2>3 DEF IInv, CallsFit, Served, Grows, Call, Row
    <3> QED BY <2>3, <3>1, <3>2, <3>3 DEF Served
  <2>6. Planned(next)
      BY <2>3 DEF Planned, IInv, CallsFit
  <2>7. next.op <= begun /\ calls' = [calls EXCEPT ![c] = next]
      BY <1>9, <2>1, <2>3 DEF IInv, NumbersAreFresh
  <2> QED BY <1>4, <1>5, <1>6, <1>7, <2>2, <2>4, <2>5, <2>6, <2>7, ServerMovesOn
<1> QED BY <1>1, <1>8, <1>9

\* A folder takes the name asked for, of rename_folder or of a batch.
LEMMA RenamedIInv ==
    ASSUME IInv, NEW c \in Calls, NEW step,
           \/ calls[c].at = "rename.sent" /\ step = "rename.splice"
           \/ calls[c].at = "path.sent" /\ step = "path.mark",
           Renamed(c, step)
    PROVE  IInv'
<1>1. /\ calls[c] \in Call /\ calls[c].folder \in Folders /\ calls[c].path \in Paths
      /\ Served(calls[c], had) /\ Planned(calls[c])
    BY DEF IInv, TypeOK, Holds, CallsFit
<1>2. /\ server' = [server EXCEPT !.names[calls[c].folder] = calls[c].path]
      /\ had' = [had EXCEPT ![calls[c].folder] = @ \cup {calls[c].path}]
      /\ UNCHANGED <<open, vault, cache, log>>
      /\ begun' = begun
      /\ Goto(c, step) \/ Return(c)
    BY DEF Renamed
<1>3. Grows
    BY <1>1, <1>2 DEF Grows, IInv, TypeOK
<1>4. server' \in Server
    BY <1>1, <1>2 DEF IInv, TypeOK
<1>5. ServerNamesServed'
    BY <1>1, <1>2, <1>3 DEF ServerNamesServed, IInv, TypeOK, Grows
<1>6. CASE Return(c)
  <2>1. PICK next : next = Idle
      OBVIOUS
  <2>2. next.op <= begun
      BY <2>1 DEF Idle, IInv, TypeOK
  <2> QED BY <1>2, <1>3, <1>4, <1>5, <1>6, <2>1, <2>2, IdleFits, ServerMovesOn
          DEF Return, IInv
<1>7. CASE Goto(c, step)
  <2>1. PICK next : next = [calls[c] EXCEPT !.at = step]
      OBVIOUS
  <2>2. next \in Call
      BY <1>1, <2>1 DEF Call, Steps
  <2>3. /\ next.at = step /\ next.folder = calls[c].folder /\ next.path = calls[c].path
        /\ next.op = calls[c].op /\ next.plan = calls[c].plan
        /\ next.todo = calls[c].todo /\ next.rows = calls[c].rows
      BY <1>1, <2>1 DEF Call
  <2>4. Holds(next) /\ MayFollow(next, calls[c])
      BY <1>1, <2>3 DEF Holds, MayFollow, IInv, TypeOK
  <2>5. Served(next, had')
    <3>1. next.path \in had'[next.folder]
        BY <1>1, <1>2, <2>3 DEF IInv, TypeOK
    <3>2. \A r \in next.plan \ next.todo : r.new \in had'[r.was.folder]
      <4> SUFFICES ASSUME NEW r \in next.plan \ next.todo
                   PROVE  r.new \in had'[r.was.folder]
          OBVIOUS
      <4>1. r.was.folder \in Folders
          BY <1>1, <2>3 DEF Call, Renaming, Entry
      <4>2. CASE r.new \in had[r.was.folder]
          BY <1>3, <4>1, <4>2 DEF Grows
      <4>3. CASE calls[c].folder = r.was.folder /\ calls[c].path = r.new
          BY <2>3, <3>1, <4>3
      <4> QED BY <1>1, <2>3, <4>2, <4>3 DEF Served
    <3>3. \A row \in next.rows : row.original.path \in had'[row.folder]
        BY <1>1, <1>3, <2>3 DEF Served, Grows, Call, Row
    <3> QED BY <2>3, <3>1, <3>2, <3>3 DEF Served
  <2>6. Planned(next)
      BY <1>1, <2>3 DEF Planned
  <2>7. next.op <= begun /\ calls' = [calls EXCEPT ![c] = next]
      BY <1>7, <2>1, <2>3 DEF IInv, NumbersAreFresh, Goto
  <2> QED BY <1>2, <1>3, <1>4, <1>5, <2>2, <2>4, <2>5, <2>6, <2>7, ServerMovesOn
<1> QED BY <1>2, <1>6, <1>7

\* A folder is deleted, or an item moved: no name changes.
LEMMA ServerKeepsNamesIInv ==
    ASSUME IInv, NEW c \in Calls, ServerDeletes(c) \/ ServerMoves(c)
    PROVE  IInv'
<1>1. calls[c] \in Call
    BY DEF IInv, TypeOK
<1>2. PICK step \in {"delete.splice", "move.splice"} :
        /\ \/ calls[c].at = "delete.sent" /\ step = "delete.splice"
           \/ calls[c].at = "move.sent" /\ step = "move.splice"
        /\ Goto(c, step) \/ Return(c)
  <2>1. CASE ServerDeletes(c)
      BY <2>1 DEF ServerDeletes
  <2>2. CASE ServerMoves(c)
      BY <2>2 DEF ServerMoves
  <2> QED BY <2>1, <2>2
<1>3. UNCHANGED <<open, vault, cache, log, begun, had>>
    BY DEF ServerDeletes, ServerMoves
<1>4. Grows /\ begun' = begun
    BY <1>3 DEF Grows, IInv, TypeOK
<1>5. /\ server' \in Server
      /\ \A f \in Folders : server'.names[f] \in {server.names[f], None}
  <2>1. CASE ServerDeletes(c)
    <3>1. calls[c].folder \in Folders
        BY <2>1 DEF IInv, TypeOK, Holds, ServerDeletes
    <3> QED BY <2>1, <3>1 DEF IInv, TypeOK, ServerDeletes, Detached
  <2>2. CASE ServerMoves(c)
    <3>1. calls[c].item \in Items /\ calls[c].folder \in Folders \cup {None}
        BY <1>1, <2>2 DEF IInv, TypeOK, Holds, ServerMoves, Call
    <3> QED BY <2>2, <3>1 DEF IInv, TypeOK, ServerMoves
  <2> QED BY <2>1, <2>2
<1>6. ServerNamesServed'
    BY <1>3, <1>5 DEF IInv, ServerNamesServed
<1>7. CASE Return(c)
  <2>1. PICK next : next = Idle
      OBVIOUS
  <2>2. next.op <= begun
      BY <2>1 DEF Idle, IInv, TypeOK
  <2> QED BY <1>3, <1>4, <1>5, <1>6, <1>7, <2>1, <2>2, IdleFits, ServerMovesOn
          DEF Return, IInv
<1>8. CASE Goto(c, step)
  <2>1. PICK next : next = [calls[c] EXCEPT !.at = step]
      OBVIOUS
  <2>2. next \in Call
      BY <1>1, <2>1 DEF Call, Steps
  <2>3. /\ next.at = step /\ next.folder = calls[c].folder /\ next.item = calls[c].item
        /\ next.op = calls[c].op /\ next.plan = calls[c].plan
        /\ next.todo = calls[c].todo /\ next.rows = calls[c].rows
      BY <1>1, <2>1 DEF Call
  <2>4. Holds(next) /\ MayFollow(next, calls[c])
      BY <1>2, <2>3 DEF Holds, MayFollow, IInv, TypeOK
  <2>5. Served(next, had') /\ Planned(next)
      BY <1>2, <1>3, <2>3 DEF Served, Planned, IInv, CallsFit
  <2>6. next.op <= begun /\ calls' = [calls EXCEPT ![c] = next]
      BY <1>8, <2>1, <2>3 DEF IInv, NumbersAreFresh, Goto
  <2> QED BY <1>3, <1>4, <1>5, <1>6, <2>2, <2>4, <2>5, <2>6, ServerMovesOn
<1> QED BY <1>2, <1>7, <1>8

-----------------------------------------------------------------------------
(* What commands write into memory.                                        *)

\* A command ends and leaves names the server has had.
LEMMA SplicesIInv ==
    ASSUME IInv, NEW c \in Calls, Return(c),
           vault' \in Vault \cup {None}, cache' \in {cache, vault'},
           ShowsOnlyServedNames',
           UNCHANGED <<server, open, log, begun, had>>
    PROVE  IInv'
<1>1. PICK next : next = Idle
    OBVIOUS
<1>2. Grows /\ next.op <= begun'
    BY <1>1 DEF IInv, TypeOK, Idle, Grows
<1>3. CallPart'
    BY <1>1, <1>2, IdleFits, GoesTo DEF Return, IInv
<1>4. ServerNamesServed' /\ LogIsTrue'
    BY DEF IInv, ServerNamesServed, LogIsTrue
<1>5. CacheServed'
    BY DEF IInv, CacheServed, ShowsOnlyServedNames
<1>6. TypeOK'
    BY <1>3 DEF CallPart, IInv, TypeOK
<1> QED BY <1>3, <1>4, <1>5, <1>6 DEF CallPart, IInv

\* The new folder is pushed under the name the server took.
LEMMA CreateSplicesIInv == ASSUME IInv, NEW c \in Calls, CreateSplices(c) PROVE IInv'
<1>1. /\ calls[c].folder \in Folders /\ calls[c].path \in Paths
      /\ calls[c].path \in had[calls[c].folder]
    BY DEF IInv, TypeOK, Holds, CallsFit, Served, CreateSplices
<1>2. CASE vault = None
    BY <1>2, ReturnsIInv DEF CreateSplices, Splices
<1>3. CASE vault # None
  <2>1. PICK e : e = [folder |-> calls[c].folder, path |-> calls[c].path,
                      form |-> "clear", from |-> "create"]
      OBVIOUS
  <2>2. vault' = [vault EXCEPT !.folders = @ \cup {e}]
      BY <1>3, <2>1 DEF CreateSplices, Splices
  <2>3. e \in Entry /\ e.path \in had[e.folder]
      BY <1>1, <2>1 DEF Entry
  <2>4. vault' \in Vault /\ vault'.folders = vault.folders \cup {e}
      BY <1>3, <2>2, <2>3 DEF IInv, TypeOK
  <2>5. ShowsOnlyServedNames'
      BY <1>3, <2>3, <2>4 DEF ShowsOnlyServedNames, IInv, CreateSplices, Splices
  <2> QED BY <2>4, <2>5, SplicesIInv DEF CreateSplices, Splices
<1> QED BY <1>2, <1>3

\* A deleted folder's entries go.
LEMMA DeleteSplicesIInv == ASSUME IInv, NEW c \in Calls, DeleteSplices(c) PROVE IInv'
<1>1. CASE vault = None
    BY <1>1, ReturnsIInv DEF DeleteSplices, Splices
<1>2. CASE vault # None
  <2>1. vault' \in Vault /\ vault'.folders \subseteq vault.folders
      BY <1>2 DEF IInv, TypeOK, DeleteSplices, Splices, Detached
  <2>2. ShowsOnlyServedNames'
      BY <1>2, <2>1 DEF ShowsOnlyServedNames, IInv, DeleteSplices, Splices
  <2> QED BY <2>1, <2>2, SplicesIInv DEF DeleteSplices, Splices
<1> QED BY <1>1, <1>2

\* Every entry of a renamed folder takes the name the server took.
LEMMA RenameSplicesIInv == ASSUME IInv, NEW c \in Calls, RenameSplices(c) PROVE IInv'
<1>1. /\ calls[c].folder \in Folders /\ calls[c].path \in Paths
      /\ calls[c].path \in had[calls[c].folder]
    BY DEF IInv, TypeOK, Holds, CallsFit, Served, RenameSplices
<1>2. CASE vault = None
    BY <1>2, ReturnsIInv DEF RenameSplices, Splices
<1>3. CASE vault # None
  <2> DEFINE after(e) == IF e.folder = calls[c].folder
                           THEN Named(e, calls[c].path, "clear") ELSE e
  <2>1. vault \in Vault /\ vault' = [vault EXCEPT !.folders = {after(e) : e \in @}]
      BY <1>3 DEF IInv, TypeOK, RenameSplices, Splices
  <2>2. ASSUME NEW e \in vault.folders
        PROVE  after(e) \in Entry /\ after(e).path \in had[after(e).folder]
      BY <1>1, <1>3, <2>1 DEF IInv, ShowsOnlyServedNames, Entry, Named
  <2> HIDE DEF after
  <2>3. vault' \in Vault /\ vault'.folders = {after(e) : e \in vault.folders}
      BY <2>1, <2>2
  <2>4. ShowsOnlyServedNames'
      BY <2>2, <2>3 DEF ShowsOnlyServedNames, RenameSplices, Splices
  <2> QED BY <2>3, <2>4, SplicesIInv DEF RenameSplices, Splices
<1> QED BY <1>2, <1>3

\* An item's folder is no folder's name.
LEMMA MoveSplicesIInv == ASSUME IInv, NEW c \in Calls, MoveSplices(c) PROVE IInv'
<1>1. calls[c].item \in Items /\ calls[c].folder \in Folders \cup {None}
    BY DEF IInv, TypeOK, Holds, Call, MoveSplices
<1>2. CASE vault = None
    BY <1>2, ReturnsIInv DEF MoveSplices, Splices
<1>3. CASE vault # None
  <2>1. vault' \in Vault /\ vault'.folders = vault.folders
      BY <1>1, <1>3 DEF IInv, TypeOK, MoveSplices, Splices
  <2>2. ShowsOnlyServedNames'
      BY <1>3, <2>1 DEF ShowsOnlyServedNames, IInv, MoveSplices, Splices
  <2> QED BY <2>1, <2>2, SplicesIInv DEF MoveSplices, Splices
<1> QED BY <1>2, <1>3

\* A batch whose every request was answered stamps its names.
LEMMA BatchSplicesIInv == ASSUME IInv, NEW c \in Calls, BatchSplices(c) PROVE IInv'
<1>1. /\ calls[c] \in Call
      /\ \A r \in calls[c].plan : r \in Renaming /\ r.new \in had[r.was.folder]
    BY DEF IInv, TypeOK, CallsFit, Served, Call, BatchSplices
<1>2. CASE vault = None
    BY <1>2, ReturnsIInv DEF BatchSplices, Splices
<1>3. CASE vault # None
  <2> DEFINE last(e) == RenamingsOf(e, c)
             after(e) == IF last(e) = {} THEN {e}
                         ELSE {Named(e, r.new, "cipher") : r \in last(e)}
  <2>1. vault \in Vault
        /\ vault' = [vault EXCEPT !.folders = UNION {after(e) : e \in @}]
      BY <1>3 DEF IInv, TypeOK, BatchSplices, Splices
  <2>2. ASSUME NEW e \in vault.folders, NEW d \in after(e)
        PROVE  d \in Entry /\ d.path \in had[d.folder]
    <3>1. e \in Entry /\ e.path \in had[e.folder]
        BY <1>3, <2>1 DEF IInv, ShowsOnlyServedNames
    <3>2. CASE d = e
        BY <3>1, <3>2
    <3>3. CASE d # e
      <4>1. PICK r \in last(e) : d = Named(e, r.new, "cipher")
          BY <3>3
      <4>2. r \in calls[c].plan /\ r.was.folder = e.folder
          BY <4>1 DEF RenamingsOf, Outcome
      <4>3. r.new \in Paths /\ r.new \in had[e.folder]
          BY <1>1, <4>2 DEF Renaming
      <4> QED BY <3>1, <4>1, <4>3 DEF Named, Entry
    <3> QED BY <3>2, <3>3
  <2> HIDE DEF after
  <2>3. vault' \in Vault /\ vault'.folders = UNION {after(e) : e \in vault.folders}
      BY <2>1, <2>2
  <2>4. \A d \in vault'.folders : d.path \in had[d.folder]
      BY <2>2, <2>3
  <2>5. ShowsOnlyServedNames'
      BY <2>4 DEF ShowsOnlyServedNames, BatchSplices, Splices
  <2> QED BY <2>3, <2>5, SplicesIInv DEF BatchSplices, Splices
<1> QED BY <1>2, <1>3

-----------------------------------------------------------------------------
(* A batch.                                                                *)

\* A batch begins: its number is new, and nothing of its plan is sent.
LEMMA BatchStartIInv ==
    ASSUME IInv, NEW c \in Calls, NEW source, NEW base, BatchStart(c, source, base)
    PROVE  IInv'
<1>1. PICK plan : plan = Plan(vault.folders, source, base)
    OBVIOUS
<1>2. PICK next : next = [Idle EXCEPT !.at = "path.read", !.op = begun + 1,
                                      !.plan = plan, !.todo = plan]
    OBVIOUS
<1>3. /\ vault # None /\ \A r \in plan : r.new \in Paths
      /\ Starts(c, next)
    BY <1>1, <1>2 DEF BatchStart
<1>4. plan \subseteq Renaming
  <2>1. vault.folders \subseteq Entry
      BY <1>3 DEF IInv, TypeOK
  <2> QED BY <1>1, <1>3, <2>1 DEF Plan, Renaming
<1>5. begun \in 0..MaxCommands /\ begun' = begun + 1 /\ begun' \in 0..MaxCommands
    BY <1>3 DEF IInv, TypeOK, Starts, CanStart
<1>6. next = [at |-> "path.read", folder |-> None, item |-> None, path |-> None,
              op |-> begun + 1, plan |-> plan, todo |-> plan, rows |-> {},
              answer |-> None]
    BY <1>2 DEF Idle
<1>7. next \in Call
    BY <1>4, <1>5, <1>6 DEF Call, Steps
<1>8. Holds(next) /\ Served(next, had) /\ Planned(next) /\ MayFollow(next, calls[c])
    BY <1>5, <1>6 DEF Holds, Served, Planned, MayFollow
<1>9. /\ next.op <= begun' /\ begun <= begun'
      /\ calls' = [calls EXCEPT ![c] = next]
      /\ UNCHANGED <<server, open, vault, cache, log, had>>
    BY <1>3, <1>5, <1>6 DEF Starts
<1> QED BY <1>5, <1>7, <1>8, <1>9, OnlyCallMoves

\* The rows of a batch get the names that are in memory.
LEMMA BatchReadsIInv == ASSUME IInv, NEW c \in Calls, BatchReads(c) PROVE IInv'
<1>1. CASE vault = None
    BY <1>1, ReturnsIInv DEF BatchReads
<1>2. CASE vault # None
  <2>1. PICK rows : rows =
          {NewRow(calls[c].op, m[1], m[2]) :
             m \in {n \in calls[c].plan \X Found(vault.folders) :
                      n[1].was.folder = n[2].folder}}
      OBVIOUS
  <2>2. PICK next : next = [calls[c] EXCEPT !.at = "path.save", !.rows = rows]
      OBVIOUS
  <2>3. calls[c] \in Call /\ calls[c].at = "path.read" /\ calls[c].op # 0
        /\ vault.folders \subseteq Entry
      BY <1>2 DEF IInv, TypeOK, Holds, BatchReads
  <2>4. ASSUME NEW row \in rows
        PROVE  /\ row \in Row /\ row.op = calls[c].op /\ ~row.applied
               /\ row.original.folder = row.folder
               /\ row.original.path \in had[row.folder]
               /\ \E r \in calls[c].plan : r.was.folder = row.folder /\ r.new = row.new
    <3>1. PICK r \in calls[c].plan, e \in Found(vault.folders) :
            r.was.folder = e.folder /\ row = NewRow(calls[c].op, r, e)
        BY <2>1
    <3>2. e \in vault.folders /\ e \in Entry /\ r \in Renaming
        BY <2>3, <3>1 DEF Found, Call
    <3>3. calls[c].op \in 1..MaxCommands
        BY <2>3 DEF Call
    <3>4. /\ row.op = calls[c].op /\ row.folder = r.was.folder /\ row.original = e
          /\ row.new = r.new /\ row.applied = FALSE
        BY <3>1 DEF NewRow
    <3>5. row \in Row
        BY <3>1, <3>2, <3>3 DEF NewRow, Row, Renaming, Entry
    <3> QED BY <1>2, <3>1, <3>2, <3>4, <3>5 DEF IInv, ShowsOnlyServedNames
  <2>5. next \in Call
      BY <2>2, <2>3, <2>4 DEF Call, Steps
  <2>6. /\ next.at = "path.save" /\ next.op = calls[c].op /\ next.plan = calls[c].plan
        /\ next.todo = calls[c].todo /\ next.rows = rows
      BY <2>2, <2>3 DEF Call
  <2>7. Holds(next) /\ MayFollow(next, calls[c])
      BY <2>3, <2>6 DEF Holds, MayFollow
  <2>8. Served(next, had) /\ Planned(next)
      BY <2>3, <2>4, <2>6 DEF Served, Planned, IInv, CallsFit
  <2>9. calls' = [calls EXCEPT ![c] = next]
      BY <1>2, <2>1, <2>2 DEF BatchReads
  <2>10. next.op <= begun' /\ begun' \in 0..MaxCommands /\ begun <= begun'
      BY <2>6 DEF BatchReads, IInv, NumbersAreFresh, TypeOK
  <2> QED BY <2>5, <2>7, <2>8, <2>9, <2>10, OnlyCallMoves DEF BatchReads
<1> QED BY <1>1, <1>2

\* One renaming goes out.
LEMMA BatchSendsIInv == ASSUME IInv, NEW c \in Calls, BatchSends(c) PROVE IInv'
<1>1. PICK r \in calls[c].todo :
        calls' = [calls EXCEPT ![c].at = "path.sent", ![c].folder = r.was.folder,
                               ![c].path = r.new, ![c].todo = @ \ {r}]
    BY DEF BatchSends
<1>2. PICK next : next = [calls[c] EXCEPT !.at = "path.sent", !.folder = r.was.folder,
                                          !.path = r.new, !.todo = @ \ {r}]
    OBVIOUS
<1>3. /\ calls[c] \in Call /\ calls[c].at = "path.next" /\ calls[c].op # 0
      /\ Served(calls[c], had) /\ Planned(calls[c])
    BY DEF IInv, TypeOK, Holds, CallsFit, BatchSends
<1>4. r \in Renaming /\ r.was.folder \in Folders /\ r.new \in Paths /\ r \in calls[c].plan
    BY <1>3 DEF Call, Planned, Renaming, Entry
<1>5. next \in Call
    BY <1>2, <1>3, <1>4 DEF Call, Steps
<1>6. /\ next.at = "path.sent" /\ next.folder = r.was.folder /\ next.path = r.new
      /\ next.op = calls[c].op /\ next.plan = calls[c].plan
      /\ next.todo = calls[c].todo \ {r} /\ next.rows = calls[c].rows
    BY <1>2, <1>3 DEF Call
<1>7. Holds(next) /\ MayFollow(next, calls[c])
    BY <1>3, <1>4, <1>6 DEF Holds, MayFollow
<1>8. Served(next, had)
    BY <1>3, <1>6 DEF Served
<1>9. Planned(next)
    BY <1>3, <1>4, <1>6 DEF Planned
<1>10. calls' = [calls EXCEPT ![c] = next]
    BY <1>1, <1>2
<1>11. next.op <= begun' /\ begun' \in 0..MaxCommands /\ begun <= begun'
    BY <1>6 DEF BatchSends, IInv, NumbersAreFresh, TypeOK
<1> QED BY <1>5, <1>7, <1>8, <1>9, <1>10, <1>11, OnlyCallMoves DEF BatchSends

\* A batch that writes the log goes on to its next renaming.
LEMMA WritesLogIInv ==
    ASSUME IInv, NEW c \in Calls, calls[c].at \in {"path.save", "path.mark"},
           NEW next \in Call, calls' = [calls EXCEPT ![c] = next],
           next.at = "path.next", next.rows \subseteq calls[c].rows,
           next.op = calls[c].op, next.plan = calls[c].plan,
           next.todo = calls[c].todo,
           log' \subseteq Row, LogIsTrue', \A row \in log' : row.op <= begun,
           \A d \in Calls : Logged(calls[d], log'),
           \A d \in Calls : \A r \in calls[d].todo : \A row \in log' :
             row.op = calls[d].op /\ row.folder = r.was.folder => ~row.applied,
           UNCHANGED <<server, open, vault, cache, begun, had>>
    PROVE  IInv'
<1> USE DEF IInv
<1>1. calls' \in [Calls -> Call] /\ calls'[c] = next
    BY DEF TypeOK
<1>2. \A d \in Calls :
        /\ d # c => calls'[d] = calls[d]
        /\ calls'[d].op = calls[d].op /\ calls'[d].plan = calls[d].plan
        /\ calls'[d].todo = calls[d].todo
    BY <1>1 DEF TypeOK
<1>3. Holds(next)
    BY DEF TypeOK, Holds
<1>4. Served(next, had) /\ Planned(next)
  <2>1. Served(calls[c], had) /\ Planned(calls[c])
      BY DEF CallsFit
  <2>2. \A r \in next.plan \ next.todo : r.new \in had[r.was.folder]
      BY <2>1 DEF Served
  <2> QED BY <2>1, <2>2 DEF Served, Planned
<1>5. TypeOK'
    BY <1>1, <1>2, <1>3 DEF TypeOK
<1>6. CallsFit'
  <2>1. \A d \in Calls : Logged(calls'[d], log')
      BY <1>2 DEF Logged
  <2>2. \A d \in Calls : Served(calls'[d], had) /\ Planned(calls'[d])
      BY <1>1, <1>2, <1>4 DEF CallsFit
  <2> QED BY <2>1, <2>2 DEF CallsFit
<1>7. NumbersAreFresh' /\ UnsentIsUnapplied'
    BY <1>2 DEF NumbersAreFresh, UnsentIsUnapplied
<1>8. ServerNamesServed' /\ ShowsOnlyServedNames' /\ CacheServed'
    BY DEF ServerNamesServed, ShowsOnlyServedNames, CacheServed
<1> QED BY <1>5, <1>6, <1>7, <1>8

\* A write that fails leaves the log as it was.
LEMMA LogKept ==
    ASSUME IInv, log' = log, had' = had
    PROVE  /\ log' \subseteq Row /\ LogIsTrue' /\ \A row \in log' : row.op <= begun
           /\ \A d \in Calls : Logged(calls[d], log')
           /\ \A d \in Calls : \A r \in calls[d].todo : \A row \in log' :
                row.op = calls[d].op /\ row.folder = r.was.folder => ~row.applied
<1> USE DEF IInv
<1>1. log' \subseteq Row /\ LogIsTrue'
    BY DEF TypeOK, LogIsTrue
<1>2. \A row \in log' : row.op <= begun
    BY DEF NumbersAreFresh
<1>3. \A d \in Calls : Logged(calls[d], log')
    BY DEF CallsFit
<1>4. \A d \in Calls : \A r \in calls[d].todo : \A row \in log' :
        row.op = calls[d].op /\ row.folder = r.was.folder => ~row.applied
    BY DEF UnsentIsUnapplied
<1> QED BY <1>1, <1>2, <1>3, <1>4

\* The rows are saved, or nothing is.
LEMMA BatchSavesIInv == ASSUME IInv, NEW c \in Calls, BatchSaves(c) PROVE IInv'
<1>1. PICK next : next = [calls[c] EXCEPT !.at = "path.next", !.rows = {}]
    OBVIOUS
<1>2. /\ calls[c] \in Call /\ calls[c].at = "path.save" /\ calls[c].op # 0
      /\ Served(calls[c], had) /\ Planned(calls[c]) /\ Logged(calls[c], log)
    BY DEF IInv, TypeOK, Holds, CallsFit, BatchSaves
<1>3. next \in Call /\ calls' = [calls EXCEPT ![c] = next]
  <2>1. next \in Call
      BY <1>1, <1>2 DEF Call, Steps
  <2>2. calls' = [calls EXCEPT ![c] = next]
      BY <1>1 DEF BatchSaves
  <2> QED BY <2>1, <2>2
<1>4. /\ next.at = "path.next" /\ next.rows = {} /\ next.op = calls[c].op
      /\ next.plan = calls[c].plan /\ next.todo = calls[c].todo
    BY <1>1, <1>2 DEF Call
<1>5. CASE log' = log
  <2>1. UNCHANGED <<server, open, vault, cache, log, begun, had>>
      BY <1>5 DEF BatchSaves
  <2> QED BY <1>2, <1>3, <1>4, <2>1, LogKept, WritesLogIInv
<1>6. CASE FitsTable(calls[c]) /\ log' = log \cup calls[c].rows
  <2>1. ASSUME NEW row \in calls[c].rows
        PROVE  /\ row \in Row /\ row.op = calls[c].op /\ ~row.applied
               /\ row.original.folder = row.folder
               /\ row.original.path \in had[row.folder]
      BY <1>2 DEF Call, Served, Planned
  <2>2. log' \subseteq Row /\ LogIsTrue'
    <3>1. log' \subseteq Row
        BY <1>6, <2>1 DEF IInv, TypeOK
    <3>2. LogIsTrue'
        BY <1>6, <2>1 DEF IInv, LogIsTrue, BatchSaves
    <3> QED BY <3>1, <3>2
  <2>3. \A row \in log' : row.op <= begun
      BY <1>6, <2>1 DEF IInv, NumbersAreFresh
  <2>4. ASSUME NEW d \in Calls, d # c PROVE calls[d].op # calls[c].op
      BY <1>2, <2>4 DEF IInv, NumbersAreFresh
  <2>5. ASSUME NEW d \in Calls PROVE Logged(calls[d], log')
    <3>1. Logged(calls[d], log)
        BY DEF IInv, CallsFit
    <3>2. CASE d # c
        BY <1>6, <2>1, <2>4, <3>1, <3>2 DEF Logged
    <3>3. CASE d = c
      <4>1. ASSUME NEW row \in calls[c].rows, NEW r \in calls[c].plan,
                   NEW q \in calls[c].plan,
                   r.was.folder = row.folder, q.was.folder = row.folder
            PROVE  r = q /\ r.new = row.new
        <5>1. PICK p \in calls[c].plan : p.was.folder = row.folder /\ p.new = row.new
            BY <1>2 DEF Planned
        <5>2. r = p /\ q = p
            BY <1>6, <4>1, <5>1 DEF FitsTable
        <5> QED BY <5>1, <5>2
      <4> QED BY <1>6, <3>1, <3>3, <4>1 DEF Logged
    <3> QED BY <3>2, <3>3
  <2>6. ASSUME NEW d \in Calls, NEW r \in calls[d].todo, NEW row \in log',
               row.op = calls[d].op, row.folder = r.was.folder
        PROVE  ~row.applied
      BY <1>6, <2>1, <2>6 DEF IInv, UnsentIsUnapplied
  <2>7. UNCHANGED <<server, open, vault, cache, begun, had>>
      BY DEF BatchSaves
  <2> QED BY <1>2, <1>3, <1>4, <2>2, <2>3, <2>5, <2>6, <2>7, WritesLogIInv
<1> QED BY <1>5, <1>6 DEF BatchSaves

\* The row of the folder that was sent is marked, or its write fails.
LEMMA BatchMarksIInv == ASSUME IInv, NEW c \in Calls, BatchMarks(c) PROVE IInv'
<1>1. PICK next : next = [calls[c] EXCEPT !.at = "path.next"]
    OBVIOUS
<1>2. /\ calls[c] \in Call /\ calls[c].at = "path.mark" /\ calls[c].op # 0
      /\ calls[c].path \in had[calls[c].folder]
      /\ Planned(calls[c]) /\ Logged(calls[c], log)
    BY DEF IInv, TypeOK, Holds, CallsFit, Served, BatchMarks
<1>3. next \in Call /\ calls' = [calls EXCEPT ![c] = next]
    BY <1>1, <1>2 DEF Call, Steps, BatchMarks, Goto
<1>4. /\ next.at = "path.next" /\ next.rows = calls[c].rows /\ next.op = calls[c].op
      /\ next.plan = calls[c].plan /\ next.todo = calls[c].todo
    BY <1>1, <1>2 DEF Call
<1>5. CASE log' = log
  <2>1. UNCHANGED <<server, open, vault, cache, log, begun, had>>
      BY <1>5 DEF BatchMarks
  <2> QED BY <1>2, <1>3, <1>4, <2>1, LogKept, WritesLogIInv
<1>6. CASE log' = RowApplied(calls[c])
  <2>1. PICK p \in calls[c].plan \ calls[c].todo :
          p.was.folder = calls[c].folder /\ p.new = calls[c].path
      BY <1>2 DEF Planned
  <2>2. ASSUME NEW row \in log'
        PROVE  \E old \in log :
                 /\ row \in Row /\ row.op = old.op /\ row.folder = old.folder
                 /\ row.original = old.original /\ row.new = old.new
                 /\ row.applied => \/ old.applied
                                   \/ /\ old.op = calls[c].op
                                      /\ old.folder = calls[c].folder
    <3>1. PICK old \in log :
            row = IF old.op = calls[c].op /\ old.folder = calls[c].folder
                    THEN [old EXCEPT !.applied = TRUE] ELSE old
        BY <1>6 DEF RowApplied
    <3>2. old \in Row
        BY DEF IInv, TypeOK
    <3> QED BY <3>1, <3>2 DEF Row
  <2>3. log' \subseteq Row
      BY <2>2
  <2>4. LogIsTrue'
    <3> SUFFICES ASSUME NEW row \in log'
                 PROVE  /\ row.original.folder = row.folder
                        /\ row.original.path \in had[row.folder]
                        /\ row.applied => row.new \in had[row.folder]
        BY DEF LogIsTrue, BatchMarks
    <3>1. PICK old \in log :
            /\ row.op = old.op /\ row.folder = old.folder
            /\ row.original = old.original /\ row.new = old.new
            /\ row.applied => \/ old.applied
                              \/ old.op = calls[c].op /\ old.folder = calls[c].folder
        BY <2>2
    <3>2. CASE old.op = calls[c].op /\ old.folder = calls[c].folder
      <4>1. p.new = old.new
          BY <1>2, <2>1, <3>2 DEF Logged
      <4> QED BY <1>2, <2>1, <3>1, <3>2, <4>1 DEF IInv, LogIsTrue
    <3>3. CASE ~(old.op = calls[c].op /\ old.folder = calls[c].folder)
        BY <3>1, <3>3 DEF IInv, LogIsTrue
    <3> QED BY <3>2, <3>3
  <2>5. \A row \in log' : row.op <= begun
      BY <2>2 DEF IInv, NumbersAreFresh
  <2>6. \A d \in Calls : Logged(calls[d], log')
    <3>1. \A d \in Calls : Logged(calls[d], log)
        BY DEF IInv, CallsFit
    <3> QED BY <2>2, <3>1 DEF Logged
  <2>7. ASSUME NEW d \in Calls, NEW r \in calls[d].todo, NEW row \in log',
               row.op = calls[d].op, row.folder = r.was.folder
        PROVE  ~row.applied
    <3>1. PICK old \in log :
            /\ row.op = old.op /\ row.folder = old.folder
            /\ row.applied => \/ old.applied
                              \/ old.op = calls[c].op /\ old.folder = calls[c].folder
        BY <2>2
    <3>2. ~old.applied
        BY <2>7, <3>1 DEF IInv, UnsentIsUnapplied
    <3>3. ASSUME old.op = calls[c].op, old.folder = calls[c].folder PROVE FALSE
      <4>1. d = c
          BY <1>2, <2>7, <3>1, <3>3 DEF IInv, NumbersAreFresh
      <4>2. r \in calls[c].plan
          BY <1>2, <4>1 DEF Planned
      <4>3. r.was.folder = old.folder /\ p.was.folder = old.folder
          BY <2>1, <2>7, <3>1, <3>3
      <4>4. r = p
          BY <1>2, <3>3, <4>2, <4>3 DEF Logged
      <4> QED BY <2>1, <4>1, <4>4
    <3> QED BY <3>1, <3>2, <3>3
  <2>8. UNCHANGED <<server, open, vault, cache, begun, had>>
      BY DEF BatchMarks
  <2> QED BY <1>2, <1>3, <1>4, <2>3, <2>4, <2>5, <2>6, <2>7, <2>8, WritesLogIInv
<1> QED BY <1>5, <1>6 DEF BatchMarks

-----------------------------------------------------------------------------
(* Syncs and the session.                                                  *)

\* A sync begins.
LEMMA SyncStartIInv == ASSUME IInv, NEW c \in Calls, SyncStart(c) PROVE IInv'
<1>1. PICK next : next = [Idle EXCEPT !.at = "sync.sent"]
    OBVIOUS
<1>2. next = [at |-> "sync.sent", folder |-> None, item |-> None, path |-> None,
              op |-> 0, plan |-> {}, todo |-> {}, rows |-> {}, answer |-> None]
    BY <1>1 DEF Idle
<1>3. next \in Call
    BY <1>2 DEF Call, Steps
<1>4. Holds(next) /\ Served(next, had) /\ Planned(next) /\ MayFollow(next, calls[c])
    BY <1>2 DEF Holds, Served, Planned, MayFollow
<1>5. calls' = [calls EXCEPT ![c] = next]
    BY <1>1 DEF SyncStart, Goto, IInv, TypeOK
<1>6. next.op <= begun' /\ begun' \in 0..MaxCommands /\ begun <= begun'
    BY <1>2 DEF SyncStart, IInv, TypeOK
<1> QED BY <1>3, <1>4, <1>5, <1>6, OnlyCallMoves DEF SyncStart

\* The server answers a sync with the names it has.
LEMMA ServerAnswersIInv == ASSUME IInv, NEW c \in Calls, ServerAnswers(c) PROVE IInv'
<1>1. PICK next : next = [calls[c] EXCEPT !.at = "sync.apply", !.answer = server]
    OBVIOUS
<1>2. /\ calls[c] \in Call /\ calls[c].at = "sync.sent"
      /\ Served(calls[c], had) /\ Planned(calls[c])
    BY DEF IInv, TypeOK, CallsFit, ServerAnswers
<1>3. next \in Call
    BY <1>1, <1>2 DEF Call, Steps, IInv, TypeOK
<1>4. /\ next.at = "sync.apply" /\ next.answer = server /\ next.op = calls[c].op
      /\ next.plan = calls[c].plan /\ next.todo = calls[c].todo
      /\ next.rows = calls[c].rows
    BY <1>1, <1>2 DEF Call
<1>5. Holds(next) /\ MayFollow(next, calls[c])
    BY <1>4 DEF Holds, MayFollow, IInv, TypeOK
<1>6. Served(next, had) /\ Planned(next)
    BY <1>2, <1>4 DEF Served, Planned, IInv, ServerNamesServed
<1>7. calls' = [calls EXCEPT ![c] = next]
    BY <1>1 DEF ServerAnswers
<1>8. next.op <= begun' /\ begun' \in 0..MaxCommands /\ begun <= begun'
    BY <1>4 DEF ServerAnswers, IInv, NumbersAreFresh, TypeOK
<1> QED BY <1>3, <1>5, <1>6, <1>7, <1>8, OnlyCallMoves DEF ServerAnswers

\* The answer becomes the vault, and the cache if it can be written.
LEMMA SyncAppliesIInv == ASSUME IInv, NEW c \in Calls, SyncApplies(c) PROVE IInv'
<1>1. calls[c].answer \in Server /\ Served(calls[c], had)
    BY DEF IInv, TypeOK, Holds, CallsFit, SyncApplies
<1>2. CASE ~open
    BY <1>2, ReturnsIInv DEF SyncApplies
<1>3. CASE open
  <2>1. vault' = Decoded(calls[c].answer) /\ cache' \in {cache, vault'}
      BY <1>3 DEF SyncApplies
  <2>2. ASSUME NEW e \in vault'.folders
        PROVE  e \in Entry /\ e.path \in had[e.folder]
    <3>1. PICK f \in Folders :
            /\ calls[c].answer.names[f] # None
            /\ e = [folder |-> f, path |-> calls[c].answer.names[f],
                    form |-> "cipher", from |-> "sync"]
        BY <2>1 DEF Decoded
    <3>2. calls[c].answer.names[f] \in Paths
        BY <1>1, <3>1
    <3> QED BY <1>1, <3>1, <3>2 DEF Served, SyncApplies, Entry
  <2>3. vault' \in Vault
      BY <1>1, <2>1, <2>2 DEF Decoded
  <2>4. ShowsOnlyServedNames'
      BY <2>2 DEF ShowsOnlyServedNames, SyncApplies
  <2> QED BY <2>1, <2>3, <2>4, SplicesIInv DEF SyncApplies
<1> QED BY <1>2, <1>3

\* A vault appears from the cache or goes away, and a logout empties the disk.
LEMMA SessionIInv ==
    ASSUME IInv, LoadsCached \/ Unlock \/ Lock \/ Logout PROVE IInv'
<1>1. /\ open' \in BOOLEAN /\ vault' \in {cache, None} /\ cache' \in {cache, None}
      /\ log' \in {log, {}} /\ UNCHANGED <<server, calls, begun, had>>
  <2>1. CASE LoadsCached
      BY <2>1, Zenon DEF LoadsCached, IInv, TypeOK
  <2>2. CASE Unlock
      BY <2>2, Zenon DEF Unlock
  <2>3. CASE Lock
      BY <2>3, Zenon DEF Lock
  <2>4. CASE Logout
      BY <2>4, Zenon DEF Logout
  <2> QED BY <2>1, <2>2, <2>3, <2>4
<1> USE DEF IInv
<1>2. TypeOK'
  <2>1. vault' \in Vault \cup {None} /\ cache' \in Vault \cup {None}
      BY <1>1 DEF TypeOK
  <2>2. log' \subseteq Row
      BY <1>1 DEF TypeOK
  <2> QED BY <1>1, <2>1, <2>2 DEF TypeOK
<1>3. ServerNamesServed' /\ ShowsOnlyServedNames' /\ CacheServed'
    BY <1>1 DEF ServerNamesServed, ShowsOnlyServedNames, CacheServed
<1>4. LogIsTrue' /\ UnsentIsUnapplied' /\ NumbersAreFresh'
    BY <1>1 DEF LogIsTrue, UnsentIsUnapplied, NumbersAreFresh
<1>5. CallsFit'
    BY <1>1 DEF CallsFit, Logged
<1> QED BY <1>2, <1>3, <1>4, <1>5

\* A crash leaves the server and the disk.
LEMMA CrashIInv == ASSUME IInv, Crash PROVE IInv'
<1> USE DEF IInv, Crash
<1>1. \A c \in Calls : calls'[c] = Idle
    OBVIOUS
<1>2. Idle \in Call /\ Holds(Idle)
    BY DEF Idle, Call, Steps, Holds
<1>3. TypeOK'
    BY <1>2 DEF TypeOK
<1>4. ServerNamesServed' /\ ShowsOnlyServedNames' /\ CacheServed' /\ LogIsTrue'
    BY DEF ServerNamesServed, ShowsOnlyServedNames, CacheServed, LogIsTrue
<1>5. CallsFit' /\ UnsentIsUnapplied'
    BY <1>1 DEF CallsFit, Served, Planned, Logged, UnsentIsUnapplied, Idle
<1>6. NumbersAreFresh'
    BY <1>1 DEF NumbersAreFresh, Idle, TypeOK
<1> QED BY <1>3, <1>4, <1>5, <1>6

-----------------------------------------------------------------------------
(* Theorems.                                                               *)

\* Every step keeps every invariant.
LEMMA NextIInv == IInv /\ [Next]_vars => IInv'
<1> SUFFICES ASSUME IInv, [Next]_vars PROVE IInv'
    OBVIOUS
<1>1. ASSUME NEW c \in Calls, FolderStep(c) PROVE IInv'
  <2>1. CASE ServerRenames(c)
      BY <2>1, RenamedIInv DEF ServerRenames
  <2> QED BY <1>1, <2>1, StartStepsIInv, ServerCreatesIInv, CreateSplicesIInv,
             ServerKeepsNamesIInv, DeleteSplicesIInv, RenameSplicesIInv,
             MoveSplicesIInv DEF FolderStep
<1>2. ASSUME NEW c \in Calls, BatchStep(c) PROVE IInv'
  <2>1. CASE ServerRenamesNext(c)
      BY <2>1, RenamedIInv DEF ServerRenamesNext
  <2>2. CASE \/ \E source \in Paths, parent \in Paths \cup {<<>>} :
                  MoveFolderPath(c, source, parent)
             \/ \E source \in Paths, base \in Typed :
                  RenameFolderPath(c, source, base)
      BY <2>2, BatchStartIInv DEF MoveFolderPath, RenameFolderPath
  <2> QED BY <1>2, <2>1, <2>2, BatchReadsIInv, BatchSavesIInv, BatchSendsIInv,
             BatchMarksIInv, BatchSplicesIInv DEF BatchStep
<1>3. ASSUME NEW c \in Calls,
             SyncStart(c) \/ ServerAnswers(c) \/ SyncApplies(c) \/ RequestFails(c)
      PROVE  IInv'
    BY <1>3, SyncStartIInv, ServerAnswersIInv, SyncAppliesIInv, ReturnsIInv
       DEF RequestFails, Failed
<1>4. CASE UNCHANGED vars
    BY <1>4 DEF vars, IInv, TypeOK, ServerNamesServed, ShowsOnlyServedNames,
       CacheServed, LogIsTrue, CallsFit, NumbersAreFresh, UnsentIsUnapplied
<1> QED BY <1>1, <1>2, <1>3, <1>4, SessionIInv, CrashIInv DEF Next

\* The inductive invariant holds in every state of every behaviour.
THEOREM Invariance == Spec => []IInv
BY InitIInv, NextIInv, PTL DEF Spec

\* Every variable has its type, and every invocation holds what its next step
\* reads: no splice, send or mark meets a missing folder or name.
THEOREM TypeCorrect == Spec => []TypeOK
<1>1. IInv => TypeOK
    BY DEF IInv
<1> QED BY <1>1, Invariance, PTL

\* The vault in memory shows a folder only under names the server has taken for it.
THEOREM OnlyServedNamesAreShown == Spec => []ShowsOnlyServedNames
<1>1. IInv => ShowsOnlyServedNames
    BY DEF IInv
<1> QED BY <1>1, Invariance, PTL

\* The operation log tells the name each folder had, and says applied only of what
\* the server took.
THEOREM LogTellsTheTruth == Spec => []LogIsTrue
<1>1. IInv => LogIsTrue
    BY DEF IInv
<1> QED BY <1>1, Invariance, PTL

\* What is still to be sent is still to be applied.
THEOREM UnsentStaysUnapplied == Spec => []UnsentIsUnapplied
<1>1. IInv => UnsentIsUnapplied
    BY DEF IInv
<1> QED BY <1>1, Invariance, PTL
-----------------------------------------------------------------------------
(* Names in clear text: where one can be before it is logged.  LogIsEncrypted *)
(* fails; this is how far.                                                 *)

\* The cascade, which makes names of its own and of names it decrypted, leaves
\* only encrypted ones for a later batch to log.
LoggedClearIsTyped ==
    \A row \in log : row.original.form = "clear" => row.original.path \in Typed

ClearIsTyped(entries) == \A e \in entries : e.form = "clear" => e.path \in Typed

\* The names an invocation will stamp, and the rows it will save.
HoldsTyped(call) ==
    /\ call.at \in {"create.sent", "create.splice", "rename.sent", "rename.splice"}
         => call.path \in Typed
    /\ ClearIsTyped({row.original : row \in call.rows})

Typing ==
    /\ vault # None => ClearIsTyped(vault.folders)
    /\ cache # None => ClearIsTyped(cache.folders)
    /\ \A c \in Calls : HoldsTyped(calls[c])
    /\ LoggedClearIsTyped

\* One invocation moves to what is typed, and so does what is stored.
LEMMA MovesTyped ==
    ASSUME TypeOK, Typing, NEW c \in Calls, NEW next, HoldsTyped(next),
           calls' = [calls EXCEPT ![c] = next],
           vault' # None => ClearIsTyped(vault'.folders),
           cache' # None => ClearIsTyped(cache'.folders),
           LoggedClearIsTyped'
    PROVE  Typing'
<1>1. calls \in [Calls -> Call]
    BY DEF TypeOK
<1>2. \A d \in Calls : HoldsTyped(calls'[d])
    BY <1>1 DEF Typing
<1> QED BY <1>2 DEF Typing, ClearIsTyped

\* Most steps leave what is stored as it is.
LEMMA CallTyped ==
    ASSUME TypeOK, Typing, NEW c \in Calls, NEW next, HoldsTyped(next),
           calls' = [calls EXCEPT ![c] = next], UNCHANGED <<vault, cache, log>>
    PROVE  Typing'
<1>1. /\ vault' # None => ClearIsTyped(vault'.folders)
      /\ cache' # None => ClearIsTyped(cache'.folders)
    BY DEF Typing
<1>2. LoggedClearIsTyped'
    BY DEF Typing, LoggedClearIsTyped
<1> QED BY <1>1, <1>2, MovesTyped

\* Going home asks for nothing.
LEMMA ReturnTyped ==
    ASSUME TypeOK, Typing, NEW c \in Calls, Return(c),
           vault' # None => ClearIsTyped(vault'.folders),
           cache' # None => ClearIsTyped(cache'.folders), log' = log
    PROVE  Typing'
<1>1. HoldsTyped(Idle)
    BY DEF HoldsTyped, Idle, ClearIsTyped
<1>2. LoggedClearIsTyped'
    BY DEF Typing, LoggedClearIsTyped
<1>3. PICK next : next = Idle
    OBVIOUS
<1> QED BY <1>1, <1>2, <1>3, MovesTyped DEF Return

\* A step on, with the name and the rows of before, to a step that stamps a name
\* only where the last one would.
LEMMA GotoTyped ==
    ASSUME TypeOK, Typing, NEW c \in Calls, NEW step,
           calls' = [calls EXCEPT ![c].at = step], UNCHANGED <<vault, cache, log>>,
           \/ step \notin {"create.sent", "create.splice", "rename.sent",
                           "rename.splice"}
           \/ calls[c].at = "rename.sent"
    PROVE  Typing'
<1>1. calls[c] \in Call /\ HoldsTyped(calls[c])
    BY DEF TypeOK, Typing
<1>2. PICK next : next = [calls[c] EXCEPT !.at = step]
    OBVIOUS
<1>3. next.at = step /\ next.path = calls[c].path /\ next.rows = calls[c].rows
    BY <1>1, <1>2 DEF Call
<1>4. HoldsTyped(next)
    BY <1>1, <1>3 DEF HoldsTyped
<1> QED BY <1>2, <1>4, CallTyped

\* A command begins, with what its user typed or with a batch.
LEMMA StartsTyped ==
    ASSUME TypeOK, Typing, NEW c \in Calls, NEW next, Starts(c, next),
           next.rows = {},
           \/ next.at \notin {"create.sent", "create.splice", "rename.sent",
                              "rename.splice"}
           \/ next.path \in Typed
    PROVE  Typing'
<1>1. HoldsTyped(next)
    BY DEF HoldsTyped, ClearIsTyped
<1> QED BY <1>1, CallTyped DEF Starts

\* The single commands stamp what was asked for.
LEMMA FolderStepTyped ==
    ASSUME TypeOK, Typing, NEW c \in Calls, FolderStep(c) PROVE Typing'
<1>c. calls[c] \in Call /\ HoldsTyped(calls[c]) /\ vault \in Vault \cup {None}
    BY DEF TypeOK, Typing
<1>1. CASE \E path \in Typed : CreateStart(c, path)
  <2>1. PICK path \in Typed : CreateStart(c, path)
      BY <1>1
  <2>2. PICK next : next = [Idle EXCEPT !.at = "create.sent", !.path = path]
      OBVIOUS
  <2>3. next.rows = {} /\ next.path \in Typed
      BY <2>2 DEF Idle
  <2> QED BY <2>1, <2>2, <2>3, StartsTyped DEF CreateStart
<1>2. CASE \E f \in Known : DeleteStart(c, f)
  <2>1. PICK f \in Known : DeleteStart(c, f)
      BY <1>2
  <2>2. PICK next : next = [Idle EXCEPT !.at = "delete.sent", !.folder = f]
      OBVIOUS
  <2>3. next.rows = {} /\ next.at = "delete.sent"
      BY <2>2 DEF Idle
  <2> QED BY <2>1, <2>2, <2>3, StartsTyped DEF DeleteStart
<1>3. CASE \E f \in Known, path \in Typed : RenameStart(c, f, path)
  <2>1. PICK f \in Known, path \in Typed : RenameStart(c, f, path)
      BY <1>3
  <2>2. PICK next : next = [Idle EXCEPT !.at = "rename.sent", !.folder = f,
                                        !.path = path]
      OBVIOUS
  <2>3. next.rows = {} /\ next.path \in Typed
      BY <2>2 DEF Idle
  <2> QED BY <2>1, <2>2, <2>3, StartsTyped DEF RenameStart
<1>4. CASE \E i \in Items, f \in Known \cup {None} : MoveStart(c, i, f)
  <2>1. PICK i \in Items, f \in Known \cup {None} : MoveStart(c, i, f)
      BY <1>4
  <2>2. PICK next : next = [Idle EXCEPT !.at = "move.sent", !.item = i,
                                        !.folder = f]
      OBVIOUS
  <2>3. next.rows = {} /\ next.at = "move.sent"
      BY <2>2 DEF Idle
  <2> QED BY <2>1, <2>2, <2>3, StartsTyped DEF MoveStart
<1>5. CASE ServerCreates(c)
  <2>1. /\ calls[c].at = "create.sent" /\ UNCHANGED <<vault, cache, log>>
        /\ \/ \E f \in Folders : calls' =
                [calls EXCEPT ![c].at = "create.splice", ![c].folder = f]
           \/ Return(c)
      BY <1>5 DEF ServerCreates
  <2>2. CASE Return(c)
      BY <2>1, <2>2, ReturnTyped DEF Typing
  <2>3. ASSUME NEW f \in Folders,
               calls' = [calls EXCEPT ![c].at = "create.splice", ![c].folder = f]
        PROVE  Typing'
    <3>1. PICK next : next = [calls[c] EXCEPT !.at = "create.splice", !.folder = f]
        OBVIOUS
    <3>2. next.path = calls[c].path /\ next.rows = calls[c].rows
        BY <1>c, <3>1 DEF Call
    <3>3. HoldsTyped(next)
        BY <1>c, <2>1, <3>2 DEF HoldsTyped
    <3>4. calls' = [calls EXCEPT ![c] = next]
        BY <2>3, <3>1
    <3> QED BY <2>1, <3>3, <3>4, CallTyped
  <2> QED BY <2>1, <2>2, <2>3
<1>6. CASE CreateSplices(c)
  <2>1. calls[c].path \in Typed
      BY <1>c, <1>6 DEF CreateSplices, HoldsTyped
  <2>2. PICK e : e = [folder |-> calls[c].folder, path |-> calls[c].path,
                      form |-> "clear", from |-> "create"]
      OBVIOUS
  <2>3. vault' = IF vault = None THEN None
                 ELSE [vault EXCEPT !.folders = @ \cup {e}]
      BY <1>6, <2>2 DEF CreateSplices, Splices
  <2>4. vault' # None => ClearIsTyped(vault'.folders)
      BY <1>c, <2>1, <2>2, <2>3 DEF Typing, ClearIsTyped
  <2> QED BY <1>6, <2>4, ReturnTyped DEF CreateSplices, Splices, Typing
<1>7. CASE ServerDeletes(c) \/ ServerMoves(c)
  <2>1. /\ UNCHANGED <<vault, cache, log>>
        /\ Goto(c, "delete.splice") \/ Goto(c, "move.splice") \/ Return(c)
      BY <1>7 DEF ServerDeletes, ServerMoves
  <2> QED BY <2>1, GotoTyped, ReturnTyped DEF Goto, Typing
<1>8. CASE DeleteSplices(c)
  <2>1. vault' # None => ClearIsTyped(vault'.folders)
      BY <1>8 DEF DeleteSplices, Splices, Typing, ClearIsTyped
  <2> QED BY <1>8, <2>1, ReturnTyped DEF DeleteSplices, Splices, Typing
<1>9. CASE ServerRenames(c)
  <2>1. /\ UNCHANGED <<vault, cache, log>> /\ calls[c].at = "rename.sent"
        /\ Goto(c, "rename.splice") \/ Return(c)
      BY <1>9 DEF ServerRenames, Renamed
  <2> QED BY <2>1, GotoTyped, ReturnTyped DEF Goto, Typing
<1>10. CASE RenameSplices(c)
  <2>1. calls[c].path \in Typed
      BY <1>c, <1>10 DEF RenameSplices, HoldsTyped
  <2>2. ASSUME vault # None
        PROVE  vault'.folders = {IF e.folder = calls[c].folder
                 THEN Named(e, calls[c].path, "clear") ELSE e : e \in vault.folders}
      BY <1>c, <1>10, <2>2 DEF RenameSplices, Splices
  <2>3. ASSUME vault # None, NEW e \in vault'.folders, e.form = "clear"
        PROVE  e.path \in Typed
    <3>1. PICK d \in vault.folders :
            e = IF d.folder = calls[c].folder
                  THEN Named(d, calls[c].path, "clear") ELSE d
        BY <2>2, <2>3
    <3>2. d \in Entry
        BY <1>c, <2>3
    <3> QED BY <2>1, <2>3, <3>1, <3>2 DEF Named, Entry, Typing, ClearIsTyped
  <2>4. vault' # None => ClearIsTyped(vault'.folders)
      BY <1>10, <2>3 DEF RenameSplices, Splices, ClearIsTyped
  <2> QED BY <1>10, <2>4, ReturnTyped DEF RenameSplices, Splices, Typing
<1>11. CASE MoveSplices(c)
  <2>1. vault' # None => ClearIsTyped(vault'.folders)
      BY <1>c, <1>11 DEF MoveSplices, Splices, Typing, ClearIsTyped
  <2> QED BY <1>11, <2>1, ReturnTyped DEF MoveSplices, Splices, Typing
<1> QED BY <1>1, <1>2, <1>3, <1>4, <1>5, <1>6, <1>7, <1>8, <1>9, <1>10, <1>11
        DEF FolderStep

\* A batch begins.
LEMMA BatchStartTyped ==
    ASSUME TypeOK, Typing, NEW c \in Calls, NEW source, NEW base,
           BatchStart(c, source, base)
    PROVE  Typing'
<1>1. PICK plan : Starts(c, [Idle EXCEPT !.at = "path.read", !.op = begun + 1,
                                         !.plan = plan, !.todo = plan])
    BY DEF BatchStart
<1>2. PICK next : next = [Idle EXCEPT !.at = "path.read", !.op = begun + 1,
                                      !.plan = plan, !.todo = plan]
    OBVIOUS
<1>3. next.rows = {} /\ next.at = "path.read"
    BY <1>2 DEF Idle
<1> QED BY <1>1, <1>2, <1>3, StartsTyped

\* A batch copies what the vault shows into its rows and the log, and leaves only
\* encrypted names behind.
LEMMA BatchStepTyped ==
    ASSUME TypeOK, Typing, NEW c \in Calls, BatchStep(c) PROVE Typing'
<1>c. calls[c] \in Call /\ HoldsTyped(calls[c]) /\ vault \in Vault \cup {None}
    BY DEF TypeOK, Typing
<1>1. CASE \/ \E source \in Paths, parent \in Paths \cup {<<>>} :
                MoveFolderPath(c, source, parent)
           \/ \E source \in Paths, base \in Typed : RenameFolderPath(c, source, base)
    BY <1>1, BatchStartTyped DEF MoveFolderPath, RenameFolderPath
<1>2. CASE BatchReads(c)
  <2>1. CASE vault = None
      BY <1>2, <2>1, ReturnTyped DEF BatchReads, Typing
  <2>2. CASE vault # None
    <3>1. PICK rows : /\ rows = {NewRow(calls[c].op, m[1], m[2]) :
                          m \in {n \in calls[c].plan \X Found(vault.folders) :
                                   n[1].was.folder = n[2].folder}}
                      /\ calls' = [calls EXCEPT ![c].at = "path.save",
                                                ![c].rows = rows]
        BY <1>2, <2>2 DEF BatchReads
    <3>2. \A row \in rows : row.original \in vault.folders
        BY <3>1 DEF NewRow, Found
    <3>3. PICK next : next = [calls[c] EXCEPT !.at = "path.save", !.rows = rows]
        OBVIOUS
    <3>4. next.at = "path.save" /\ next.rows = rows
        BY <1>c, <3>3 DEF Call
    <3>5. HoldsTyped(next)
        BY <2>2, <3>2, <3>4 DEF HoldsTyped, Typing, ClearIsTyped
    <3>6. calls' = [calls EXCEPT ![c] = next]
        BY <3>1, <3>3
    <3> QED BY <1>2, <3>5, <3>6, CallTyped DEF BatchReads
  <2> QED BY <2>1, <2>2
<1>3. CASE BatchSaves(c)
  <2>1. PICK next : next = [calls[c] EXCEPT !.at = "path.next", !.rows = {}]
      OBVIOUS
  <2>2. next.at = "path.next" /\ next.rows = {}
      BY <1>c, <2>1 DEF Call
  <2>3. HoldsTyped(next)
      BY <2>2 DEF HoldsTyped, ClearIsTyped
  <2>4. log' \in {log, log \cup calls[c].rows}
      BY <1>3 DEF BatchSaves
  <2>5. LoggedClearIsTyped'
      BY <1>c, <2>4 DEF LoggedClearIsTyped, Typing, HoldsTyped, ClearIsTyped
  <2>6. /\ vault' # None => ClearIsTyped(vault'.folders)
        /\ cache' # None => ClearIsTyped(cache'.folders)
      BY <1>3 DEF BatchSaves, Typing
  <2>7. calls' = [calls EXCEPT ![c] = next]
      BY <1>3, <2>1 DEF BatchSaves
  <2> QED BY <2>3, <2>5, <2>6, <2>7, MovesTyped
<1>4. CASE BatchSends(c)
  <2>1. PICK r \in calls[c].todo :
          calls' = [calls EXCEPT ![c].at = "path.sent",
                                 ![c].folder = r.was.folder,
                                 ![c].path = r.new, ![c].todo = @ \ {r}]
      BY <1>4 DEF BatchSends
  <2>2. PICK next : next = [calls[c] EXCEPT !.at = "path.sent",
                              !.folder = r.was.folder,
                              !.path = r.new, !.todo = @ \ {r}]
      OBVIOUS
  <2>3. next.at = "path.sent" /\ next.rows = calls[c].rows
      BY <1>c, <2>2 DEF Call
  <2>4. HoldsTyped(next)
      BY <1>c, <2>3 DEF HoldsTyped
  <2>5. calls' = [calls EXCEPT ![c] = next]
      BY <2>1, <2>2
  <2> QED BY <1>4, <2>4, <2>5, CallTyped DEF BatchSends
<1>5. CASE ServerRenamesNext(c)
  <2>1. /\ UNCHANGED <<vault, cache, log>>
        /\ Goto(c, "path.mark") \/ Return(c)
      BY <1>5 DEF ServerRenamesNext, Renamed
  <2> QED BY <2>1, GotoTyped, ReturnTyped DEF Goto, Typing
<1>6. CASE BatchMarks(c)
  <2>1. /\ UNCHANGED <<vault, cache>> /\ log' \in {log, RowApplied(calls[c])}
        /\ calls' = [calls EXCEPT ![c].at = "path.next"]
      BY <1>6 DEF BatchMarks, Goto
  <2>2. ASSUME NEW row \in log' PROVE \E old \in log : row.original = old.original
      BY <2>1 DEF RowApplied, TypeOK, Row
  <2>3. LoggedClearIsTyped'
      BY <2>2 DEF LoggedClearIsTyped, Typing
  <2>4. PICK next : next = [calls[c] EXCEPT !.at = "path.next"]
      OBVIOUS
  <2>5. next.at = "path.next" /\ next.rows = calls[c].rows
      BY <1>c, <2>4 DEF Call
  <2>6. HoldsTyped(next)
      BY <1>c, <2>5 DEF HoldsTyped
  <2>7. calls' = [calls EXCEPT ![c] = next]
      BY <2>1, <2>4
  <2> QED BY <2>1, <2>3, <2>6, <2>7, MovesTyped DEF Typing
<1>7. CASE BatchSplices(c)
  <2>1. ASSUME vault # None
        PROVE  vault'.folders = UNION {LET last == RenamingsOf(e, c) IN
                 IF last = {} THEN {e}
                 ELSE {Named(e, r.new, "cipher") : r \in last} : e \in vault.folders}
      BY <1>c, <1>7, <2>1 DEF BatchSplices, Splices
  <2>2. ASSUME vault # None, NEW e \in vault'.folders, e.form = "clear"
        PROVE  e \in vault.folders
    <3>1. PICK d \in vault.folders :
            \/ e = d
            \/ \E r \in RenamingsOf(d, c) : e = Named(d, r.new, "cipher")
        BY <2>1, <2>2
    <3>2. d \in Entry
        BY <1>c, <2>2
    <3> QED BY <2>2, <3>1, <3>2 DEF Named, Entry
  <2>3. vault' # None => ClearIsTyped(vault'.folders)
      BY <1>7, <2>2 DEF BatchSplices, Splices, Typing, ClearIsTyped
  <2> QED BY <1>7, <2>3, ReturnTyped DEF BatchSplices, Splices, Typing
<1> QED BY <1>1, <1>2, <1>3, <1>4, <1>5, <1>6, <1>7 DEF BatchStep

\* What a sync brings is encrypted, and so is the cache it writes.
LEMMA SyncStepTyped ==
    ASSUME TypeOK, Typing, NEW c \in Calls,
           SyncStart(c) \/ ServerAnswers(c) \/ SyncApplies(c) \/ RequestFails(c)
    PROVE  Typing'
<1>c. calls[c] \in Call /\ HoldsTyped(calls[c])
    BY DEF TypeOK, Typing
<1>1. CASE SyncStart(c)
    BY <1>1, GotoTyped DEF SyncStart, Goto
<1>2. CASE ServerAnswers(c)
  <2>1. PICK next : next = [calls[c] EXCEPT !.at = "sync.apply", !.answer = server]
      OBVIOUS
  <2>2. next.at = "sync.apply" /\ next.rows = calls[c].rows
      BY <1>c, <2>1 DEF Call
  <2>3. HoldsTyped(next)
      BY <1>c, <2>2 DEF HoldsTyped
  <2>4. calls' = [calls EXCEPT ![c] = next]
      BY <1>2, <2>1 DEF ServerAnswers
  <2> QED BY <1>2, <2>3, <2>4, CallTyped DEF ServerAnswers
<1>3. CASE SyncApplies(c)
  <2>1. ClearIsTyped(Decoded(calls[c].answer).folders)
      BY DEF Decoded, ClearIsTyped
  <2>2. /\ vault' \in {vault, Decoded(calls[c].answer)}
        /\ cache' \in {cache, Decoded(calls[c].answer)}
      BY <1>3 DEF SyncApplies
  <2>3. /\ vault' # None => ClearIsTyped(vault'.folders)
        /\ cache' # None => ClearIsTyped(cache'.folders)
      BY <2>1, <2>2 DEF Typing
  <2> QED BY <1>3, <2>3, ReturnTyped DEF SyncApplies
<1>4. CASE RequestFails(c)
    BY <1>4, ReturnTyped DEF RequestFails, Failed, Typing
<1> QED BY <1>1, <1>2, <1>3, <1>4

\* A vault appears from the cache or goes away, and a logout empties the disk.
LEMMA SessionTyped ==
    ASSUME TypeOK, Typing, LoadsCached \/ Unlock \/ Lock \/ Logout \/ Crash
    PROVE  Typing'
<1>1. /\ vault' \in {cache, None} /\ cache' \in {cache, None} /\ log' \in {log, {}}
    BY Zenon DEF LoadsCached, Unlock, Lock, Logout, Crash
<1>2. /\ vault' # None => ClearIsTyped(vault'.folders)
      /\ cache' # None => ClearIsTyped(cache'.folders)
    BY <1>1 DEF Typing
<1>3. LoggedClearIsTyped'
    BY <1>1 DEF LoggedClearIsTyped, Typing
<1>4. HoldsTyped(Idle)
    BY DEF HoldsTyped, Idle, ClearIsTyped
<1>5. \A c \in Calls : calls'[c] \in {calls[c], Idle}
    BY DEF LoadsCached, Unlock, Lock, Logout, Crash
<1>6. \A c \in Calls : HoldsTyped(calls'[c])
    BY <1>4, <1>5 DEF Typing
<1> QED BY <1>2, <1>3, <1>6 DEF Typing, ClearIsTyped

\* Every step keeps clear names the typed ones.
LEMMA NextTyped == TypeOK /\ Typing /\ [Next]_vars => Typing'
<1> SUFFICES ASSUME TypeOK, Typing, [Next]_vars PROVE Typing'
    OBVIOUS
<1>1. CASE UNCHANGED vars
  <2>1. UNCHANGED <<vault, cache, log, calls>>
      BY <1>1 DEF vars
  <2> QED BY <2>1 DEF Typing, LoggedClearIsTyped
<1> QED BY <1>1, FolderStepTyped, BatchStepTyped, SyncStepTyped, SessionTyped DEF Next

\* A name in clear text that the log puts on disk is one a user typed into
\* create_folder or rename_folder: apply_folder_path_rename adds none of its own.
THEOREM ClearNamesAreTyped == Spec => []LoggedClearIsTyped
<1>1. Init => Typing
    BY DEF Init, Typing, HoldsTyped, Idle, ClearIsTyped, LoggedClearIsTyped
<1>2. Typing => LoggedClearIsTyped
    BY DEF Typing
<1>3. TypeOK /\ Typing /\ [Next]_vars => Typing'
    BY NextTyped
<1> QED BY <1>1, <1>2, <1>3, TypeCorrect, PTL DEF Spec
-----------------------------------------------------------------------------
(* Paths: what a cascade does to the tree that is in the names.             *)

\* The names a plan renames: the node and what lies under it.
Reaches(source, path) == path = source \/ IsUnder(path, source)

\* A prefix, position by position.
LEMMA UnderIsPointwise ==
    ASSUME NEW p \in Seq(Segments), NEW s \in Seq(Segments)
    PROVE  Reaches(s, p) <=>
             Len(s) <= Len(p) /\ \A n \in 1..Len(s) : p[n] = s[n]
<1>1. s = SubSeq(s, 1, Len(s))
    OBVIOUS
<1>2. ASSUME Len(s) <= Len(p)
      PROVE  /\ SubSeq(p, 1, Len(s)) \in Seq(Segments)
             /\ Len(SubSeq(p, 1, Len(s))) = Len(s)
             /\ \A n \in 1..Len(s) : SubSeq(p, 1, Len(s))[n] = p[n]
    BY <1>2
<1>3. ASSUME Len(s) <= Len(p), \A n \in 1..Len(s) : p[n] = s[n]
      PROVE  s = SubSeq(p, 1, Len(s))
    BY <1>2, <1>3
<1>4. ASSUME Len(s) <= Len(p), s = SubSeq(p, 1, Len(s))
      PROVE  \A n \in 1..Len(s) : p[n] = s[n]
    BY <1>2, <1>4
<1> QED BY <1>1, <1>3, <1>4 DEF Reaches, IsUnder, IsStrictPrefix, IsPrefix

LEMMA ConcatIsPointwise ==
    ASSUME NEW b \in Seq(Segments), NEW t \in Seq(Segments)
    PROVE  /\ b \o t \in Seq(Segments) /\ Len(b \o t) = Len(b) + Len(t)
           /\ \A n \in 1..Len(b) : (b \o t)[n] = b[n]
           /\ \A n \in 1..Len(t) : (b \o t)[Len(b) + n] = t[n]
<1>1. b \o t \in Seq(Segments) /\ Len(b \o t) = Len(b) + Len(t)
    OBVIOUS
<1>2. ASSUME NEW n \in 1..Len(b) PROVE (b \o t)[n] = b[n]
    OBVIOUS
<1>3. ASSUME NEW n \in 1..Len(t) PROVE (b \o t)[Len(b) + n] = t[n]
    OBVIOUS
<1> QED BY <1>1, <1>2, <1>3

\* What follows the source is kept, behind the base.
Follows(x, p, s, b) ==
    /\ x \in Seq(Segments)
    /\ Len(x) = Len(b) + Len(p) - Len(s)
    /\ \A n \in 1..Len(b) : x[n] = b[n]
    /\ \A n \in 1..(Len(p) - Len(s)) : x[Len(b) + n] = p[Len(s) + n]

LEMMA RebasedIs ==
    ASSUME NEW p \in Seq(Segments), NEW s \in Seq(Segments), NEW b \in Seq(Segments),
           Reaches(s, p)
    PROVE  Follows(Rebased(p, s, b), p, s, b)
<1> DEFINE rest == SubSeq(p, Len(s) + 1, Len(p))
<1>1. Len(s) <= Len(p)
    BY UnderIsPointwise
<1>2. /\ rest \in Seq(Segments) /\ Len(rest) = Len(p) - Len(s)
      /\ \A n \in 1..(Len(p) - Len(s)) : rest[n] = p[Len(s) + n]
    BY <1>1
<1> HIDE DEF rest
<1> DEFINE q == b \o rest
<1>3. /\ q \in Seq(Segments) /\ Len(q) = Len(b) + Len(rest)
      /\ \A n \in 1..Len(b) : q[n] = b[n]
      /\ \A n \in 1..Len(rest) : q[Len(b) + n] = rest[n]
    BY <1>2, ConcatIsPointwise
<1>4. Rebased(p, s, b) = q
    BY DEF Rebased, rest
<1> HIDE DEF q
<1>5. Len(b) + Len(rest) = Len(b) + Len(p) - Len(s)
    BY <1>1, <1>2
<1> QED BY <1>2, <1>3, <1>4, <1>5 DEF Follows

LEMMA SamePath ==
    ASSUME NEW p \in Seq(Segments), NEW q \in Seq(Segments), Len(p) = Len(q),
           \A n \in 1..Len(p) : p[n] = q[n]
    PROVE  p = q
    OBVIOUS

LEMMA RebasedLandsUnder ==
    ASSUME NEW p \in Seq(Segments), NEW s \in Seq(Segments), NEW b \in Seq(Segments),
           Reaches(s, p)
    PROVE  Reaches(b, Rebased(p, s, b))
<1> DEFINE q == Rebased(p, s, b)
<1>1. Len(s) <= Len(p)
    BY UnderIsPointwise
<1>2. Follows(q, p, s, b)
    BY RebasedIs
<1> HIDE DEF q
<1>3. Reaches(b, q)
    BY <1>1, <1>2, UnderIsPointwise DEF Follows
<1> QED BY <1>3 DEF q

\* Renaming back gives the name that was.
LEMMA RebasedBack ==
    ASSUME NEW p \in Seq(Segments), NEW s \in Seq(Segments), NEW b \in Seq(Segments),
           Reaches(s, p)
    PROVE  Rebased(Rebased(p, s, b), b, s) = p
<1> DEFINE q == Rebased(p, s, b)
           r == Rebased(q, b, s)
<1>1. /\ Len(s) <= Len(p) /\ \A n \in 1..Len(s) : p[n] = s[n]
    BY UnderIsPointwise
<1>2. Follows(q, p, s, b) /\ Reaches(b, q)
    BY RebasedIs, RebasedLandsUnder
<1> HIDE DEF q
<1>q. q \in Seq(Segments)
    BY <1>2 DEF Follows
<1>3. Follows(r, q, b, s)
    BY <1>2, <1>q, RebasedIs
<1> HIDE DEF r
<1>4. Len(r) = Len(p)
    BY <1>1, <1>2, <1>3 DEF Follows
<1>5. ASSUME NEW n \in 1..Len(p) PROVE r[n] = p[n]
  <2>1. CASE n <= Len(s)
      BY <2>1, <1>1, <1>3 DEF Follows
  <2>2. CASE n > Len(s)
    <3> DEFINE m == n - Len(s)
    <3>1. m \in 1..(Len(p) - Len(s)) /\ n = Len(s) + m
        BY <2>2, <1>1
    <3>2. Len(p) - Len(s) = Len(q) - Len(b)
        BY <1>1, <1>2 DEF Follows
    <3> HIDE DEF m
    <3> QED BY <3>1, <3>2, <1>2, <1>3 DEF Follows
  <2> QED BY <2>1, <2>2, <1>1
<1>6. r = p
    BY <1>3, <1>4, <1>5, SamePath DEF Follows
<1> QED BY <1>6 DEF r, q

\* One name under another stays so, and no other comes under it.
LEMMA RebasedKeepsTree ==
    ASSUME NEW p \in Seq(Segments), NEW q \in Seq(Segments), NEW s \in Seq(Segments),
           NEW b \in Seq(Segments), Reaches(s, p), Reaches(s, q), Reaches(p, q)
    PROVE  Reaches(Rebased(p, s, b), Rebased(q, s, b))
<1> DEFINE x == Rebased(p, s, b)
           y == Rebased(q, s, b)
<1>1. /\ Len(s) <= Len(p) /\ Len(p) <= Len(q)
      /\ \A n \in 1..Len(p) : q[n] = p[n]
    BY UnderIsPointwise
<1>2. Follows(x, p, s, b)
    BY RebasedIs
<1>3. Follows(y, q, s, b)
    BY RebasedIs
<1> HIDE DEF x, y
<1>4. Len(x) <= Len(y)
    BY <1>1, <1>2, <1>3 DEF Follows
<1>5. ASSUME NEW n \in 1..Len(x) PROVE y[n] = x[n]
  <2>1. CASE n <= Len(b)
      BY <2>1, <1>2, <1>3 DEF Follows
  <2>2. CASE n > Len(b)
    <3> DEFINE m == n - Len(b)
    <3>1. /\ m \in 1..(Len(p) - Len(s)) /\ m \in 1..(Len(q) - Len(s))
          /\ n = Len(b) + m /\ Len(s) + m \in 1..Len(p)
        BY <2>2, <1>1, <1>2 DEF Follows
    <3> HIDE DEF m
    <3> QED BY <3>1, <1>1, <1>2, <1>3 DEF Follows
  <2> QED BY <2>1, <2>2, <1>2 DEF Follows
<1>6. Reaches(x, y)
    BY <1>2, <1>3, <1>4, <1>5, UnderIsPointwise DEF Follows
<1> QED BY <1>6 DEF x, y

\* The tree is the one that was: nothing comes under a name that was not.
LEMMA TreeIsKept ==
    ASSUME NEW p \in Seq(Segments), NEW q \in Seq(Segments), NEW s \in Seq(Segments),
           NEW b \in Seq(Segments), Reaches(s, p), Reaches(s, q)
    PROVE  Reaches(p, q) <=> Reaches(Rebased(p, s, b), Rebased(q, s, b))
<1> DEFINE x == Rebased(p, s, b)
           y == Rebased(q, s, b)
<1>1. /\ x \in Seq(Segments) /\ y \in Seq(Segments)
      /\ Reaches(b, x) /\ Reaches(b, y)
      /\ Rebased(x, b, s) = p /\ Rebased(y, b, s) = q
    BY RebasedIs, RebasedLandsUnder, RebasedBack DEF Follows
<1>2. Reaches(p, q) => Reaches(x, y)
    BY RebasedKeepsTree
<1> HIDE DEF x, y
<1>3. Reaches(x, y) => Reaches(Rebased(x, b, s), Rebased(y, b, s))
    BY <1>1, RebasedKeepsTree
<1> QED BY <1>1, <1>2, <1>3 DEF x, y

\* A plan is one cascade: some node's names, moved behind some other name.
Cascades(plan, s, b) ==
    \A r \in plan : Reaches(s, r.was.path) /\ r.new = Rebased(r.was.path, s, b)
PlansCascade ==
    \A c \in Calls : \E s, b \in Seq(Segments) : Cascades(calls[c].plan, s, b)

\* Two folders of a batch are in the tree after it as they were before: none
\* comes under another that was not, and no two get one name.
PlansKeepTheTree ==
    \A c \in Calls : \A r, q \in calls[c].plan :
        Reaches(r.was.path, q.was.path) <=> Reaches(r.new, q.new)

\* The cascade back gives every folder of a batch the name it had.
PlansCanBeUndone ==
    \A c \in Calls : \E s, b \in Seq(Segments) : \A r \in calls[c].plan :
        Reaches(b, r.new) /\ r.was.path = Rebased(r.new, b, s)

\* A batch begins with a plan, and keeps it until it ends.
LEMMA StepsKeepPlan ==
    ASSUME TypeOK, [Next]_vars, NEW c \in Calls
    PROVE  \/ calls'[c].plan \in {calls[c].plan, {}}
           \/ \E s \in Paths, b \in Seq(Segments) :
                vault # None /\ calls'[c].plan = Plan(vault.folders, s, b)
<1>c. calls \in [Calls -> Call] /\ calls[c] \in Call
    BY DEF TypeOK
<1>i. Idle.plan = {}
    BY DEF Idle
<1>r. ASSUME NEW d \in Calls, Return(d) PROVE calls'[c].plan \in {calls[c].plan, {}}
    BY <1>c, <1>i, <1>r DEF Return
<1>g. ASSUME NEW d \in Calls, NEW step, Goto(d, step)
      PROVE  calls'[c].plan = calls[c].plan
    BY <1>c, <1>g DEF Goto, Call
<1>1. CASE UNCHANGED vars
    BY <1>1 DEF vars
<1>2. CASE \E d \in Calls : FolderStep(d)
  <2>1. PICK d \in Calls : FolderStep(d)
      BY <1>2
  <2>2. CASE \/ \E path \in Typed : CreateStart(d, path)
             \/ \E f \in Known : DeleteStart(d, f)
             \/ \E f \in Known, path \in Typed : RenameStart(d, f, path)
             \/ \E i \in Items, f \in Known \cup {None} : MoveStart(d, i, f)
    <3>1. ASSUME NEW path, CreateStart(d, path)
          PROVE  calls'[c].plan \in {calls[c].plan, {}}
        BY <1>c, <3>1 DEF CreateStart, Starts, Idle
    <3>2. ASSUME NEW f, DeleteStart(d, f)
          PROVE  calls'[c].plan \in {calls[c].plan, {}}
        BY <1>c, <3>2 DEF DeleteStart, Starts, Idle
    <3>3. ASSUME NEW f, NEW path, RenameStart(d, f, path)
          PROVE  calls'[c].plan \in {calls[c].plan, {}}
        BY <1>c, <3>3 DEF RenameStart, Starts, Idle
    <3>4. ASSUME NEW i, NEW f, MoveStart(d, i, f)
          PROVE  calls'[c].plan \in {calls[c].plan, {}}
        BY <1>c, <3>4 DEF MoveStart, Starts, Idle
    <3> QED BY <2>2, <3>1, <3>2, <3>3, <3>4
  <2>3. CASE ServerCreates(d)
      BY <1>c, <1>i, <2>3 DEF ServerCreates, Return, Call
  <2>4. CASE \/ CreateSplices(d) \/ DeleteSplices(d) \/ RenameSplices(d)
             \/ MoveSplices(d)
      BY <2>4, <1>r DEF CreateSplices, DeleteSplices, RenameSplices, MoveSplices, Splices
  <2>5. CASE ServerDeletes(d) \/ ServerRenames(d) \/ ServerMoves(d)
      BY <2>5, <1>r, <1>g DEF ServerDeletes, ServerRenames, Renamed, ServerMoves
  <2> QED BY <2>1, <2>2, <2>3, <2>4, <2>5 DEF FolderStep
<1>3. CASE \E d \in Calls : BatchStep(d)
  <2>1. PICK d \in Calls : BatchStep(d)
      BY <1>3
  <2>2. ASSUME NEW s \in Paths, NEW b \in Seq(Segments), BatchStart(d, s, b)
        PROVE  \/ calls'[c].plan \in {calls[c].plan, {}}
               \/ \E t \in Paths, a \in Seq(Segments) :
                    vault # None /\ calls'[c].plan = Plan(vault.folders, t, a)
    <3> DEFINE plan == Plan(vault.folders, s, b)
    <3>1. /\ vault # None
          /\ calls' = [calls EXCEPT ![d] =
               [Idle EXCEPT !.at = "path.read", !.op = begun + 1,
                            !.plan = plan, !.todo = plan]]
        BY <2>2 DEF BatchStart, Starts
    <3> HIDE DEF plan
    <3>2. c = d => calls'[c].plan = plan
        BY <1>c, <3>1 DEF Idle
    <3>3. c # d => calls'[c].plan = calls[c].plan
        BY <1>c, <3>1
    <3> QED BY <3>1, <3>2, <3>3 DEF plan
  <2>3. CASE \E source \in Paths, parent \in Paths \cup {<<>>} :
               MoveFolderPath(d, source, parent)
    <3>1. ASSUME NEW s \in Paths, NEW parent \in Paths \cup {<<>>},
                 MoveFolderPath(d, s, parent)
          PROVE  MovedBase(s, parent) \in Seq(Segments)
      <4>1. s \in Seq(Segments) /\ s # <<>>
          BY PathsAssumption
      <4>2. <<>> \in Seq(Segments)
          OBVIOUS
      <4>3. parent \in Seq(Segments)
          BY <4>2, PathsAssumption, Zenon
      <4>4. s[Len(s)] \in Segments
          BY <4>1
      <4> QED BY <4>1, <4>3, <4>4 DEF MovedBase, Last
    <3>2. ASSUME NEW s \in Paths, NEW parent \in Paths \cup {<<>>},
                 MoveFolderPath(d, s, parent)
          PROVE  BatchStart(d, s, MovedBase(s, parent))
        BY <3>2, Zenon DEF MoveFolderPath
    <3> QED BY <2>3, <3>1, <3>2, <2>2
  <2>4. CASE \E source \in Paths, base \in Typed : RenameFolderPath(d, source, base)
      BY <2>4, <2>2, PathsAssumption, TypedAssumption DEF RenameFolderPath
  <2>5. CASE BatchReads(d)
    <3>1. PICK rows : \/ Return(d)
                      \/ calls' = [calls EXCEPT ![d].at = "path.save", ![d].rows = rows]
        BY <2>5 DEF BatchReads
    <3> QED BY <1>c, <1>r, <3>1 DEF Call
  <2>6. CASE BatchSaves(d)
      BY <1>c, <2>6 DEF BatchSaves, Call
  <2>7. CASE BatchSends(d)
      BY <1>c, <2>7 DEF BatchSends, Call
  <2>8. CASE ServerRenamesNext(d)
      BY <2>8, <1>r, <1>g DEF ServerRenamesNext, Renamed
  <2>9. CASE BatchMarks(d)
      BY <2>9, <1>g DEF BatchMarks
  <2>10. CASE BatchSplices(d)
      BY <2>10, <1>r DEF BatchSplices, Splices
  <2> QED BY <2>1, <2>3, <2>4, <2>5, <2>6, <2>7, <2>8, <2>9, <2>10 DEF BatchStep
<1>4. CASE \E d \in Calls : \/ SyncStart(d) \/ ServerAnswers(d) \/ SyncApplies(d)
                            \/ RequestFails(d)
  <2>1. PICK d \in Calls : \/ SyncStart(d) \/ ServerAnswers(d) \/ SyncApplies(d)
                           \/ RequestFails(d)
      BY <1>4
  <2>2. CASE SyncStart(d)
      BY <2>2, <1>g DEF SyncStart
  <2>3. CASE ServerAnswers(d)
      BY <1>c, <2>3 DEF ServerAnswers, Call
  <2>4. CASE SyncApplies(d)
      BY <2>4, <1>r DEF SyncApplies
  <2>5. CASE RequestFails(d)
      BY <2>5, <1>r DEF RequestFails, Failed
  <2> QED BY <2>1, <2>2, <2>3, <2>4, <2>5
<1>5. CASE LoadsCached \/ Unlock \/ Lock \/ Logout \/ Crash
    BY <1>5, <1>i DEF LoadsCached, Unlock, Lock, Logout, Crash
<1> QED BY <1>1, <1>2, <1>3, <1>4, <1>5 DEF Next

LEMMA PlanCascades ==
    ASSUME TypeOK, vault # None, NEW s \in Paths, NEW b \in Seq(Segments)
    PROVE  Cascades(Plan(vault.folders, s, b), s, b)
BY DEF Cascades, Plan, Reaches

LEMMA NextCascades == TypeOK /\ PlansCascade /\ [Next]_vars => PlansCascade'
<1> SUFFICES ASSUME TypeOK, PlansCascade, [Next]_vars, NEW c \in Calls
             PROVE  \E s, b \in Seq(Segments) : Cascades(calls'[c].plan, s, b)
    BY DEF PlansCascade, Cascades
<1>1. CASE calls'[c].plan = calls[c].plan
    BY <1>1 DEF PlansCascade
<1>2. CASE calls'[c].plan = {}
    BY <1>2, <<>> \in Seq(Segments) DEF Cascades
<1>3. CASE \E s \in Paths, b \in Seq(Segments) :
             vault # None /\ calls'[c].plan = Plan(vault.folders, s, b)
    BY <1>3, PlanCascades, PathsAssumption
<1> QED BY <1>1, <1>2, <1>3, StepsKeepPlan

LEMMA PlansAlwaysCascade == Spec => [](TypeOK /\ PlansCascade)
<1>1. Init => PlansCascade
  <2>1. Cascades({}, <<>>, <<>>) /\ <<>> \in Seq(Segments)
      BY DEF Cascades
  <2>2. ASSUME Init, NEW c \in Calls PROVE calls[c].plan = {}
      BY <2>2 DEF Init, Idle
  <2> QED BY <2>1, <2>2 DEF PlansCascade
<1> QED BY <1>1, NextCascades, TypeCorrect, PTL DEF Spec

\* The paths a plan renames are paths.
LEMMA PlannedPaths ==
    ASSUME TypeOK, NEW c \in Calls, NEW r \in calls[c].plan
    PROVE  r.was.path \in Seq(Segments)
<1>1. calls[c] \in Call
    BY DEF TypeOK
<1>2. r \in Renaming
    BY <1>1 DEF Call
<1>3. r.was.path \in Paths
    BY <1>2 DEF Renaming, Entry
<1> QED BY <1>3, PathsAssumption

\* A cascade moves a subtree as it is (plan_folder_renames).
THEOREM CascadesKeepTheTree == Spec => []PlansKeepTheTree
<1>1. ASSUME TypeOK, PlansCascade, NEW c \in Calls,
             NEW r \in calls[c].plan, NEW q \in calls[c].plan
      PROVE  Reaches(r.was.path, q.was.path) <=> Reaches(r.new, q.new)
  <2>1. PICK s \in Seq(Segments), b \in Seq(Segments) : Cascades(calls[c].plan, s, b)
      BY <1>1 DEF PlansCascade
  <2>2. r.was.path \in Seq(Segments) /\ q.was.path \in Seq(Segments)
      BY <1>1, PlannedPaths
  <2>3. /\ Reaches(s, r.was.path) /\ r.new = Rebased(r.was.path, s, b)
        /\ Reaches(s, q.was.path) /\ q.new = Rebased(q.was.path, s, b)
      BY <1>1, <2>1 DEF Cascades
  <2> QED BY <2>2, <2>3, TreeIsKept
<1>2. TypeOK /\ PlansCascade => PlansKeepTheTree
    BY <1>1 DEF PlansKeepTheTree
<1> QED BY <1>2, PlansAlwaysCascade, PTL

\* A cascade can be taken back by a cascade, which is what the operation log's
\* originals are kept for.
THEOREM CascadesCanBeUndone == Spec => []PlansCanBeUndone
<1>1. ASSUME TypeOK, PlansCascade, NEW c \in Calls
      PROVE  \E s, b \in Seq(Segments) : \A r \in calls[c].plan :
               Reaches(b, r.new) /\ r.was.path = Rebased(r.new, b, s)
  <2>1. PICK s \in Seq(Segments), b \in Seq(Segments) : Cascades(calls[c].plan, s, b)
      BY <1>1 DEF PlansCascade
  <2>2. ASSUME NEW r \in calls[c].plan
        PROVE  Reaches(b, r.new) /\ r.was.path = Rebased(r.new, b, s)
    <3>1. r.was.path \in Seq(Segments)
        BY <1>1, PlannedPaths
    <3>2. Reaches(s, r.was.path) /\ r.new = Rebased(r.was.path, s, b)
        BY <2>1 DEF Cascades
    <3> QED BY <3>1, <3>2, RebasedLandsUnder, RebasedBack
  <2> QED BY <2>2
<1>2. TypeOK /\ PlansCascade => PlansCanBeUndone
    BY <1>1 DEF PlansCanBeUndone
<1> QED BY <1>2, PlansAlwaysCascade, PTL
=============================================================================
