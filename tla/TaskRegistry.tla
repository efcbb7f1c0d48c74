---------------------------- MODULE TaskRegistry ----------------------------
(***************************************************************************)
(* The authoritative record of every server task                           *)
(* (runtime/app/task_registry.py).  One action per method that changes a   *)
(* record; a call the method refuses (it raises, or returns changed =      *)
(* False) leaves the registry as it was and is not an action.              *)
(*                                                                         *)
(* Every method runs under one RLock, so calls are atomic, and nothing     *)
(* stops a caller from making them in any order: that is RegistrySpec.     *)
(* A record keeps the fields the guards of the methods read; timestamps    *)
(* are reduced to whether they are set, texts and token counts left out.   *)
(***************************************************************************)
EXTENDS TaskIds, Integers

CONSTANTS
  NoTask,        \* None, where a task identifier is optional
  MaxAttempts    \* the max_attempts every create_retry call is made with

ASSUME RegistryAssumption ==
  /\ NoTask \notin Task
  /\ MaxAttempts \in Nat \ {0}

VARIABLES
  record,        \* _tasks
  retryChild     \* _retry_children: the one retry of a task, or NoTask

registryVars == <<record, retryChild>>

Terminal == {"completed", "failed", "cancelled"}

ErrorType == {"timeout", "router_unavailable", "provider"}

\* ALLOWED_TRANSITIONS.
AllowedTransitions ==
  [absent |-> {}, queued |-> {"running", "cancelled"}, running |-> Terminal,
   completed |-> {}, failed |-> {}, cancelled |-> {}]

TaskState == DOMAIN AllowedTransitions

Record ==
  [state : TaskState, attempt : Nat, retryOf : Task \cup {NoTask},
   enqueued : BOOLEAN,       \* enqueue_seq and enqueued_at are set
   routed : BOOLEAN,         \* worker_id and routing_decision_at are set
   firstToken : BOOLEAN,     \* first_token_at is set
   error : ErrorType \cup {"none"}]

\* An identifier that _id_factory has not handed out.
Blank ==
  [state |-> "absent", attempt |-> 0, retryOf |-> NoTask, enqueued |-> FALSE,
   routed |-> FALSE, firstToken |-> FALSE, error |-> "none"]

StateOf(t) == record[t].state

RegistryTypeOK ==
  /\ record \in [Task -> Record]
  /\ retryChild \in [Task -> Task \cup {NoTask}]

RegistryInit ==
  /\ record = [t \in Task |-> Blank]
  /\ retryChild = [t \in Task |-> NoTask]

-----------------------------------------------------------------------------

\* _create_internal: a queued record under an unused identifier.
Created(t, parent, attempt) ==
  /\ StateOf(t) = "absent"
  /\ record' = [record EXCEPT ![t] = [Blank EXCEPT !.state = "queued",
                                                    !.attempt = attempt,
                                                    !.retryOf = parent]]

\* create()
Create(t) ==
  /\ Created(t, NoTask, 1)
  /\ UNCHANGED retryChild

\* Mutant: a task may be retried again.
CreateRetryAgain(parent, t) ==
  /\ StateOf(parent) \in {"failed", "cancelled"}
  /\ record[parent].attempt < MaxAttempts
  /\ Created(t, parent, record[parent].attempt + 1)
  /\ retryChild' = [retryChild EXCEPT ![parent] = t]

\* create_retry(): once per failed or cancelled task, up to the attempt limit.
CreateRetry(parent, t) ==
  /\ StateOf(parent) \in {"failed", "cancelled"}
  /\ record[parent].attempt < MaxAttempts
  /\ retryChild[parent] = NoTask
  /\ Created(t, parent, record[parent].attempt + 1)
  /\ retryChild' = [retryChild EXCEPT ![parent] = t]

\* mark_enqueued()
MarkEnqueued(t) ==
  /\ StateOf(t) = "queued" /\ ~record[t].enqueued
  /\ record' = [record EXCEPT ![t].enqueued = TRUE]
  /\ UNCHANGED retryChild

\* Whether try_start() will start the task.
Startable(t) == StateOf(t) = "queued" /\ record[t].enqueued

\* try_start()
TryStart(t) ==
  /\ Startable(t)
  /\ record' = [record EXCEPT ![t].state = "running"]
  /\ UNCHANGED retryChild

\* mark_routed()
MarkRouted(t) ==
  /\ StateOf(t) = "running" /\ ~record[t].routed
  /\ record' = [record EXCEPT ![t].routed = TRUE]
  /\ UNCHANGED retryChild

\* mark_first_token(): idempotent while the task runs.
MarkFirstToken(t) ==
  /\ StateOf(t) = "running"
  /\ record' = [record EXCEPT ![t].firstToken = TRUE]
  /\ UNCHANGED retryChild

\* try_complete()
TryComplete(t) ==
  /\ StateOf(t) = "running"
  /\ record' = [record EXCEPT ![t].state = "completed"]
  /\ UNCHANGED retryChild

\* try_fail()
TryFail(t, error) ==
  /\ StateOf(t) = "running"
  /\ record' = [record EXCEPT ![t].state = "failed", ![t].error = error]
  /\ UNCHANGED retryChild

\* try_cancel()
TryCancel(t) ==
  /\ StateOf(t) \in {"queued", "running"}
  /\ record' = [record EXCEPT ![t].state = "cancelled"]
  /\ UNCHANGED retryChild

\* transition(): unlike try_start() it does not ask whether the task was
\* enqueued, and a failure it records is a provider failure.
Transition(t, next) ==
  /\ next \in AllowedTransitions[StateOf(t)]
  /\ record' = [record EXCEPT ![t].state = next,
                              ![t].error = IF next = "failed" THEN "provider" ELSE @]
  /\ UNCHANGED retryChild

RegistryNext ==
  \E t \in Task :
    \/ Create(t)
    \/ \E parent \in Task : CreateRetry(parent, t)
    \/ MarkEnqueued(t)
    \/ TryStart(t)
    \/ MarkRouted(t)
    \/ MarkFirstToken(t)
    \/ TryComplete(t)
    \/ \E error \in ErrorType : TryFail(t, error)
    \/ TryCancel(t)
    \/ \E next \in TaskState : Transition(t, next)

RegistrySpec == RegistryInit /\ [][RegistryNext]_registryVars

-----------------------------------------------------------------------------
(* Correctness, whatever the order of the calls.                           *)

\* Retries form disjoint chains: a task has at most one retry, each retry counts
\* one attempt more than the task it retries and stays within the limit, and
\* what was retried is over and did not succeed (task_registry.py:84-105).  Two
\* retry calls for one task, or a retry of a retry, must not break it.
RetryChains ==
  \A parent, t \in Task :
    /\ record[t].retryOf = parent <=> retryChild[parent] = t
    /\ record[t].retryOf = parent =>
         /\ StateOf(parent) \in {"failed", "cancelled"}
         /\ record[t].attempt = record[parent].attempt + 1
         /\ record[t].attempt <= MaxAttempts

\* What a record says about the past agrees with its state: a task is routed or
\* produces tokens only after it started, and carries an error type if and only
\* if it failed.
RecordCoherent ==
  \A t \in Task :
    /\ record[t].routed \/ record[t].firstToken =>
         StateOf(t) \in {"running"} \cup Terminal
    /\ record[t].error # "none" <=> StateOf(t) = "failed"
    /\ record[t].attempt = 0 <=> StateOf(t) = "absent"

\* A terminal record is never touched again: no call reopens a task, rewrites
\* its outcome or adds provenance to it (ALLOWED_TRANSITIONS and the guards).
TerminalIsFinal ==
  [][\A t \in Task : StateOf(t) \in Terminal => record'[t] = record[t]]_registryVars
=============================================================================
