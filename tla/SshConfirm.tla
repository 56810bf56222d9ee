----------------------------- MODULE SshConfirm -----------------------------
(***************************************************************************)
(* The handshake by which the SSH agent asks the user for a signature: the *)
(* confirmation map in AppState, the event that carries a request to the   *)
(* window, and the dialog there, which shows one request at a time and     *)
(* queues the rest.                                                        *)
(*                                                                         *)
(* Two programs run it.  The Rust side parks a one-shot channel under an   *)
(* id and waits; the dialog is single-threaded JavaScript whose handlers   *)
(* run to their next await.  Events and command invocations travel between *)
(* them and take time.                                                     *)
(***************************************************************************)
EXTENDS Naturals, Sequences

CONSTANTS
    MaxAsks,  \* bound on the requests of one process life
    None

ASSUME MaxAsksAssumption == MaxAsks \in Nat
Ids == 1..MaxAsks
ASSUME NoneAssumption == None \notin Ids

VARIABLES
    seq,       \* ssh_confirm_seq: the last id given out
    confirms,  \* ssh_confirms: the ids whose channel is parked
    answers,   \* answers[id]: what the channel of id holds
    inbox,     \* emitted events the window has not handled yet
    current,   \* dialog: the request shown, or None
    queue,     \* dialog: requests waiting to be shown
    replies,   \* dialog: invocations the Rust side has not handled yet
    resumes,   \* dialog: answered respond() calls still to pass their await
    yes        \* history: requests the user approved while shown

handshake == <<seq, confirms, answers>>
dialog == <<inbox, current, queue, replies, resumes, yes>>
confirmVars == <<handshake, dialog>>

ConfirmTypeOK ==
    /\ seq \in 0..MaxAsks
    /\ confirms \subseteq Ids
    /\ answers \in [Ids -> {"none", "yes", "no"}]
    /\ inbox \in Seq(Ids)
    /\ current \in Ids \cup {None}
    /\ queue \in Seq(Ids)
    /\ replies \subseteq [id : Ids, ok : BOOLEAN]
    /\ resumes \in Nat
    /\ yes \subseteq Ids

ConfirmInit ==
    /\ seq = 0
    /\ confirms = {}
    /\ answers = [id \in Ids |-> "none"]
    /\ inbox = <<>>
    /\ current = None
    /\ queue = <<>>
    /\ replies = {}
    /\ resumes = 0
    /\ yes = {}

-----------------------------------------------------------------------------
(* request_confirmation, in the agent's connection task.                   *)

\* A new id, its channel, and the event.  Nobody knows the id before the event
\* leaves, so the three lock windows are one step.
Request(id) ==
    /\ seq < MaxAsks
    /\ id = seq + 1
    /\ seq' = id
    /\ confirms' = confirms \cup {id}
    /\ inbox' = Append(inbox, id)
    /\ UNCHANGED <<answers, current, queue, replies, resumes, yes>>

\* The event cannot be emitted: the channel is taken back.
RequestFails ==
    /\ seq < MaxAsks
    /\ seq' = seq + 1
    /\ UNCHANGED <<confirms, answers, dialog>>

Answered(id) == answers[id] # "none"
Granted(id) == answers[id] = "yes"

\* The channel is gone once its request has heard, or given up.
Dropped(id) == [answers EXCEPT ![id] = "none"]

Hear(id) ==
    /\ answers' = Dropped(id)
    /\ UNCHANGED <<seq, confirms, dialog>>

\* Slip: the channel stays parked after its request has given up.
LeftParked(id) == confirms

\* After the 30 s timeout.
Unparked(id) == confirms \ {id}

GiveUp(id) ==
    /\ confirms' = Unparked(id)
    /\ answers' = Dropped(id)
    /\ UNCHANGED <<seq, dialog>>

-----------------------------------------------------------------------------
(* respond_ssh_agent_confirm.                                              *)

\* Slip: an unknown id is an error, and respond() does not catch it.
ResumedIfParked(id) == resumes + (IF id \in confirms THEN 1 ELSE 0)

\* The invocation returns either way.
Resumed(id) == resumes + 1

BackendResponds ==
    \E reply \in replies :
        /\ replies' = replies \ {reply}
        /\ resumes' = Resumed(reply.id)
        /\ confirms' = confirms \ {reply.id}
        /\ answers' =
             IF reply.id \in confirms
               THEN [answers EXCEPT ![reply.id] =
                       IF reply.ok THEN "yes" ELSE "no"]
               ELSE answers
        /\ UNCHANGED <<seq, inbox, current, queue, yes>>

-----------------------------------------------------------------------------
(* The dialog.                                                             *)

\* The listener: queue the request behind the one on screen, or show it.
EventArrives ==
    /\ inbox # <<>>
    /\ inbox' = Tail(inbox)
    /\ IF current # None
         THEN queue' = Append(queue, Head(inbox)) /\ UNCHANGED current
         ELSE current' = Head(inbox) /\ UNCHANGED queue
    /\ UNCHANGED <<handshake, replies, resumes, yes>>

\* Slip: the close event answers for a dialog that shows nothing.
AnyTime == TRUE

HasPrompt == current # None

\* respond(), up to its await.  A denial is the button, Esc, the 30 s timer or
\* the close event of an earlier dialog; an approval is the button, 300 ms after
\* the dialog opened.
Responds(ok) ==
    /\ HasPrompt
    /\ replies' = replies \cup {[id |-> current, ok |-> ok]}
    /\ yes' = IF ok THEN yes \cup {current} ELSE yes
    /\ current' = None
    /\ UNCHANGED <<handshake, inbox, queue, resumes>>

\* respond(), after its await: the next request is shown, whatever a listener
\* put on screen meanwhile.
ShowsNext ==
    /\ resumes > 0
    /\ resumes' = resumes - 1
    /\ IF queue # <<>>
         THEN current' = Head(queue) /\ queue' = Tail(queue)
         ELSE UNCHANGED <<current, queue>>
    /\ UNCHANGED <<handshake, inbox, replies, yes>>

DialogStep ==
    \/ EventArrives
    \/ \E ok \in BOOLEAN : Responds(ok)
    \/ ShowsNext
    \/ BackendResponds

-----------------------------------------------------------------------------
(* Properties of the handshake alone.                                      *)

\* A request waiting in the dialog's queue has somebody to bring it on screen:
\* the request shown now, or a respond() that has not yet passed its await.
\* SshConfirmDialog.svelte shifts the queue nowhere else.
NoPromptIsStranded ==
    queue # <<>> => current # None \/ replies # {} \/ resumes > 0
=============================================================================
