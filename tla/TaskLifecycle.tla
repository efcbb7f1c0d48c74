--------------------------- MODULE TaskLifecycle ---------------------------
(***************************************************************************)
(* What the Runtime promises the subscribers of a session: the life of     *)
(* each task, and the stream of events that tells it.  Nothing here says   *)
(* how tasks are queued, executed, routed or cancelled; Runtime implements *)
(* this specification.                                                     *)
(*                                                                         *)
(* The outcome of a task is decided before it is announced, and announced  *)
(* exactly once, as the last event of the stream.                          *)
(***************************************************************************)
EXTENDS Sequences

CONSTANT Task

VARIABLES
  status,     \* status[t]: where task t is in its life
  stream      \* stream[t]: the events published about t, oldest first

lifeVars == <<status, stream>>

Outcome == {"completed", "failed", "cancelled"}

\* The event that announces each outcome.
Announcement ==
  [completed |-> "TASK_COMPLETED", failed |-> "TASK_FAILED",
   cancelled |-> "TASK_CANCELLED"]

Announced(t) ==
  /\ status[t] \in Outcome
  /\ stream[t] # <<>> /\ stream[t][Len(stream[t])] = Announcement[status[t]]

Tells(t, event) == stream' = [stream EXCEPT ![t] = Append(@, event)]

Becomes(t, next) == status' = [status EXCEPT ![t] = next]

LifeInit ==
  /\ status = [t \in Task |-> "absent"]
  /\ stream = [t \in Task |-> <<>>]

\* The task is accepted for execution.
Accept(t) ==
  /\ status[t] = "absent"
  /\ Becomes(t, "queued") /\ Tells(t, "TASK_QUEUED")

\* The task gets a record but is not accepted; only a cancel can end it.
Reject(t) ==
  /\ status[t] = "absent"
  /\ Becomes(t, "rejected") /\ UNCHANGED stream

Start(t) ==
  /\ status[t] = "queued"
  /\ Becomes(t, "running") /\ Tells(t, "TASK_STARTED")

Token(t) ==
  /\ status[t] = "running"
  /\ Tells(t, "TOKEN_DELTA") /\ UNCHANGED status

\* The outcome is decided.  Only a task that started can succeed or fail.
End(t) ==
  /\ \/ status[t] = "running" /\ \E outcome \in Outcome : Becomes(t, outcome)
     \/ status[t] \in {"queued", "rejected"} /\ Becomes(t, "cancelled")
  /\ UNCHANGED stream

Announce(t) ==
  /\ status[t] \in Outcome /\ ~Announced(t)
  /\ Tells(t, Announcement[status[t]])
  /\ UNCHANGED status

LifeNext ==
  \E t \in Task :
    Accept(t) \/ Reject(t) \/ Start(t) \/ Token(t) \/ End(t) \/ Announce(t)

LifeSpec == LifeInit /\ [][LifeNext]_lifeVars

\* Every accepted task starts or ends, every task that started ends, and every
\* outcome is announced: no subscriber waits for ever.
LifeFairness ==
  \A t \in Task :
    /\ (status[t] = "queued") ~> (status[t] \in {"running"} \cup Outcome)
    /\ (status[t] = "running") ~> (status[t] \in Outcome)
    /\ (status[t] \in Outcome) ~> Announced(t)
=============================================================================
