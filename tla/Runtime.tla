------------------------------ MODULE Runtime ------------------------------
(***************************************************************************)
(* The Runtime service (runtime/app/main.py): the handlers that create,    *)
(* retry and cancel tasks, the coroutine that executes one, the reliable   *)
(* publication of its outcome and the shutdown of the application, on top  *)
(* of Scheduler (the queue, the slots and the execution handles) and       *)
(* TaskRegistry (the records).  Of the router only the leases are kept, of *)
(* the workers only how a request can end.                                 *)
(*                                                                         *)
(* Everything runs in one asyncio loop.  A step goes from one suspension   *)
(* to the next; the locks of the scheduler, the event bus and the router's *)
(* lease table are never held across an await, so taking one does not      *)
(* suspend.  A submission (registry, then scheduler) does not suspend at   *)
(* all: while `submitting' names a task, no other step is taken.           *)
(***************************************************************************)
EXTENDS Scheduler, TaskRegistry, Sequences

CONSTANTS
  Canceller,         \* cancel requests in progress at the same time
  ClockMayStepBack,  \* may the wall clock go back between two readings?
  AppStops           \* may the application shut down?
CONSTANT
  MaxDeltas          \* a bound for TLC: TOKEN_DELTA events per task

VARIABLES
  submitting,        \* the task whose POST handler is in progress, or NoTask
  exec,              \* exec[t]: where execute_task is suspended
  leases,            \* keys of the router's _leases
  outbox,            \* tasks whose terminal publication is scheduled
  log,               \* log[t]: events put on the bus for t, oldest first
  cancelOf,          \* cancelOf[c]: the task cancel request c waits for
  swept,             \* discarded tasks the lifespan has tried to cancel
  sweeping           \* the one whose publication it awaits, or NoTask

execVars == <<exec, leases>>
eventVars == <<outbox, log>>
sweepVars == <<swept, sweeping>>
runtimeVars == <<schedVars, registryVars, submitting, execVars, eventVars,
                 cancelOf, sweepVars>>

Event == {"TASK_QUEUED", "TASK_STARTED", "TOKEN_DELTA", "TASK_COMPLETED",
          "TASK_FAILED", "TASK_CANCELLED"}

\* The terminal event that is published for a task in a terminal state.
TerminalEvent ==
  [completed |-> "TASK_COMPLETED", failed |-> "TASK_FAILED",
   cancelled |-> "TASK_CANCELLED"]

RuntimeTypeOK ==
  /\ SchedTypeOK
  /\ RegistryTypeOK
  /\ submitting \in Task \cup {NoTask}
  /\ exec \in [Task -> {"idle", "routing", "streaming", "announcing"}]
  /\ leases \in SUBSET Task
  /\ outbox \in SUBSET Task
  /\ log \in [Task -> Seq(Event)]
  /\ cancelOf \in [Canceller -> Task \cup {NoTask}]
  /\ swept \in SUBSET Task
  /\ sweeping \in Task \cup {NoTask}

RuntimeInit ==
  /\ SchedInit
  /\ RegistryInit
  /\ submitting = NoTask
  /\ exec = [t \in Task |-> "idle"]
  /\ leases = {}
  /\ outbox = {}
  /\ log = [t \in Task |-> <<>>]
  /\ cancelOf = [c \in Canceller |-> NoTask]
  /\ swept = {}
  /\ sweeping = NoTask

\* publish(): the event is put into every subscriber's queue at once.
Publish(t, event) == log' = [log EXCEPT ![t] = Append(@, event)]

\* publish_terminal_reliably() schedules the publication and waits for it
\* behind a shield: cancelling the waiter does not stop it.
ScheduleTerminal(t) == outbox' = outbox \cup {t} /\ UNCHANGED log

\* Mutants: the publication happens again; only executions publish.
PublishTerminalAgain(t) ==
  /\ t \in outbox
  /\ Publish(t, TerminalEvent[StateOf(t)])
  /\ UNCHANGED <<schedVars, registryVars, submitting, execVars, outbox, cancelOf,
                 sweepVars>>

PublishTerminalOfExecution(t) ==
  /\ t \in outbox /\ exec[t] = "announcing"
  /\ outbox' = outbox \ {t}
  /\ Publish(t, TerminalEvent[StateOf(t)])
  /\ UNCHANGED <<schedVars, registryVars, submitting, execVars, cancelOf,
                 sweepVars>>

\* The scheduled publication runs.
PublishTerminal(t) ==
  /\ t \in outbox
  /\ outbox' = outbox \ {t}
  /\ Publish(t, TerminalEvent[StateOf(t)])
  /\ UNCHANGED <<schedVars, registryVars, submitting, execVars, cancelOf,
                 sweepVars>>

-----------------------------------------------------------------------------
(* POST /v1/tasks and POST /v1/tasks/{id}/retry.                            *)

\* The handler writes the record of a new task ...
SubmitTask(t) ==
  /\ Create(t)
  /\ submitting' = t
  /\ UNCHANGED <<schedVars, execVars, eventVars, cancelOf, sweepVars>>

\* ... or of a retry, which takes up its parent's one chance to be retried.
SubmitRetry(parent, t) ==
  /\ CreateRetry(parent, t)
  /\ submitting' = t
  /\ UNCHANGED <<schedVars, execVars, eventVars, cancelOf, sweepVars>>

\* enqueue_execution(): the scheduler draws a sequence number and calls
\* record_enqueue, which updates the record and publishes TASK_QUEUED.
EnqueueAccepted(t) ==
  /\ submitting = t
  /\ EnqueueBegins(t)
  /\ MarkEnqueued(t)
  /\ Publish(t, "TASK_QUEUED")
  /\ UNCHANGED <<submitting, execVars, outbox, cancelOf, sweepVars>>

\* The item goes into the heap and the dispatch loop runs; the handler answers.
EnqueueDone(t) ==
  /\ submitting = t
  /\ EnqueueCommits(t)
  /\ submitting' = NoTask
  /\ UNCHANGED <<registryVars, execVars, eventVars, cancelOf, sweepVars>>

\* enqueue() raises because the scheduler is closing; the record stays.
EnqueueFailsClosing(t) ==
  /\ submitting = t /\ t \notin entering
  /\ Closing
  /\ submitting' = NoTask
  /\ UNCHANGED <<schedVars, registryVars, execVars, eventVars, cancelOf,
                 sweepVars>>

\* mark_enqueued() raises because enqueued_at is before created_at; the record
\* stays.
EnqueueFailsClock(t) ==
  /\ submitting = t /\ ClockMayStepBack
  /\ EnqueueRefused(t)
  /\ submitting' = NoTask
  /\ UNCHANGED <<registryVars, execVars, eventVars, cancelOf, sweepVars>>

-----------------------------------------------------------------------------
(* POST /v1/tasks/{id}/cancel.  A task that is over is answered at once.    *)

\* Mutant: the record is left as it is.
CancelQueuedTaskNotRecord(c, t) ==
  /\ cancelOf[c] = NoTask
  /\ StateOf(t) = "queued"
  /\ IF t \in queued THEN CancelQueued(t) ELSE CancelRunning(t)
  /\ cancelOf' = [cancelOf EXCEPT ![c] = t]
  /\ UNCHANGED <<registryVars, eventVars, submitting, execVars, sweepVars>>

\* The record says "queued": leave the queue, decide the outcome, cancel the
\* handle if the task was dispatched already, and wait.
CancelQueuedTask(c, t) ==
  /\ cancelOf[c] = NoTask
  /\ StateOf(t) = "queued"
  /\ IF t \in queued THEN CancelQueued(t) ELSE CancelRunning(t)
  /\ TryCancel(t)
  /\ ScheduleTerminal(t)
  /\ cancelOf' = [cancelOf EXCEPT ![c] = t]
  /\ UNCHANGED <<submitting, execVars, sweepVars>>

\* The record says "running": cancel the handle and wait for it.  The outcome is
\* decided by the execution.
CancelRunningTask(c, t) ==
  /\ cancelOf[c] = NoTask
  /\ StateOf(t) = "running"
  /\ handle[t] # "none"
  /\ CancelRunning(t)
  /\ cancelOf' = [cancelOf EXCEPT ![c] = t]
  /\ UNCHANGED <<registryVars, submitting, execVars, eventVars, sweepVars>>

\* Mutant: the handle is not waited for.
CancelOverEarly(t) == t \notin outbox

\* Whether what the cancel request waits for is over.
CancelOver(t) == t \notin outbox /\ handle[t] = "none"

\* The request is answered with the record as it is then.
CancelReturns(c) ==
  /\ cancelOf[c] # NoTask
  /\ CancelOver(cancelOf[c])
  /\ cancelOf' = [cancelOf EXCEPT ![c] = NoTask]
  /\ UNCHANGED <<schedVars, registryVars, submitting, execVars, eventVars,
                 sweepVars>>

-----------------------------------------------------------------------------
(* execute_task(), the coroutine behind a handle.                           *)

Executing(t) == exec[t] \in {"routing", "streaming"}

\* Whether the coroutine of t takes its next step undisturbed.  A cancelled one
\* gets CancelledError instead, and a timeout that expires meanwhile yields to
\* the cancellation.
Undisturbed(t) == handle[t] = "running" /\ t \notin interrupted

\* Mutants: the lease is not released; the outcome is not published.
LeavesWithLease(t) ==
  /\ Executing(t)
  /\ exec' = [exec EXCEPT ![t] = "announcing"]
  /\ ScheduleTerminal(t)
  /\ UNCHANGED leases

LeavesSilently(t) ==
  /\ Executing(t)
  /\ leases' = leases \ {t}
  /\ exec' = [exec EXCEPT ![t] = "announcing"]
  /\ UNCHANGED eventVars

\* Suspended in router.route() or in the worker's stream, the coroutine leaves
\* with an outcome: the lease is released first, the record changes, and the
\* publication is scheduled and awaited.
Leaves(t) ==
  /\ Executing(t)
  /\ leases' = leases \ {t}
  /\ exec' = [exec EXCEPT ![t] = "announcing"]
  /\ ScheduleTerminal(t)

\* The first step: try_start() and TASK_STARTED, up to the router's refresh of
\* the workers' health.  A task that cannot be started ends its handle at once.
ExecBegins(t) ==
  /\ IF Startable(t)
     THEN /\ RunnerBegins(t)
          /\ TryStart(t)
          /\ Publish(t, "TASK_STARTED")
          /\ exec' = [exec EXCEPT ![t] = "routing"]
     ELSE /\ handle[t] = "created" /\ t \notin interrupted
          /\ HandleEnds(t)
          /\ UNCHANGED <<queueVars, running, cleanup, shutdownVars, registryVars,
                         log, exec>>
  /\ UNCHANGED <<submitting, leases, outbox, cancelOf, sweepVars>>

\* A handle cancelled before its first step: nothing of execute_task runs.
ExecStillborn(t) ==
  /\ handle[t] = "created"
  /\ RunnerEnds(t)
  /\ UNCHANGED <<registryVars, submitting, execVars, eventVars, cancelOf,
                 sweepVars>>

\* route() leases a worker, mark_routed() takes the provenance, and the request
\* goes out.
Route(t) ==
  /\ exec[t] = "routing" /\ Undisturbed(t)
  /\ t \notin leases
  /\ MarkRouted(t)
  /\ leases' = leases \cup {t}
  /\ exec' = [exec EXCEPT ![t] = "streaming"]
  /\ UNCHANGED <<schedVars, submitting, eventVars, cancelOf, sweepVars>>

\* A piece of the answer arrives.
Receive(t) ==
  /\ exec[t] = "streaming" /\ Undisturbed(t)
  /\ MarkFirstToken(t)
  /\ Publish(t, "TOKEN_DELTA")
  /\ UNCHANGED <<schedVars, submitting, execVars, outbox, cancelOf, sweepVars>>

\* The answer is complete.
Answer(t) ==
  /\ exec[t] = "streaming" /\ Undisturbed(t)
  /\ Leaves(t)
  /\ TryComplete(t)
  /\ UNCHANGED <<schedVars, submitting, cancelOf, sweepVars>>

\* How the execution can fail where it is suspended: the timeout expires; no
\* worker can be selected; the worker's stream breaks, or mark_routed() finds
\* the routing decision dated before the start.
FailureAt(t) ==
  {"timeout"}
  \cup (IF exec[t] = "routing" THEN {"router_unavailable"} ELSE {})
  \cup (IF exec[t] = "streaming" \/ ClockMayStepBack THEN {"provider"} ELSE {})

ExecFails(t) ==
  /\ Undisturbed(t)
  /\ Leaves(t)
  /\ \E error \in FailureAt(t) : TryFail(t, error)
  /\ UNCHANGED <<schedVars, submitting, cancelOf, sweepVars>>

\* CancelledError arrives before an outcome was decided.
ExecInterrupted(t) ==
  /\ RunnerInterrupted(t)
  /\ Leaves(t)
  /\ TryCancel(t)
  /\ UNCHANGED <<submitting, cancelOf, sweepVars>>

\* The publication is over and the coroutine ends.  CancelledError arriving
\* while it waits does not end the wait: the publication is awaited again, and
\* try_cancel() finds the outcome decided.
ExecFinishes(t) ==
  /\ exec[t] = "announcing" /\ t \notin outbox
  /\ HandleEnds(t)
  /\ exec' = [exec EXCEPT ![t] = "idle"]
  /\ UNCHANGED <<queueVars, running, cleanup, shutdownVars, registryVars,
                 submitting, leases, eventVars, cancelOf, sweepVars>>

-----------------------------------------------------------------------------
(* The scheduler's own steps and the shutdown of the application.           *)

\* Mutant: the handle is forgotten and its slot with it.
SchedulerTurnLosingSlot ==
  /\ \E t \in Task :
       /\ HandleForgotten(t)
       /\ UNCHANGED <<queueVars, running, cleanup, shutdownVars>>
  /\ UNCHANGED <<registryVars, submitting, execVars, eventVars, cancelOf,
                 sweepVars>>

SchedulerTurn ==
  /\ \/ \E t \in Task : DoneCallbacks(t) \/ ReleaseSlot(t)
     \/ AppStops /\ ShutdownBegins
     \/ ShutdownDrained
     \/ ShutdownReturns
  /\ UNCHANGED <<registryVars, submitting, execVars, eventVars, cancelOf,
                 sweepVars>>

\* lifespan(): the queued tasks shutdown() returned are cancelled one by one;
\* each cancellation is published before the next one is tried.
Sweep(t) ==
  /\ shutdown = "returned"
  /\ t \in discarded \ swept
  /\ sweeping \notin outbox
  /\ swept' = swept \cup {t}
  /\ IF StateOf(t) \in {"queued", "running"}
     THEN TryCancel(t) /\ ScheduleTerminal(t) /\ sweeping' = t
     ELSE UNCHANGED <<registryVars, eventVars, sweeping>>
  /\ UNCHANGED <<schedVars, submitting, execVars, cancelOf>>

\* The lifespan has swept the last task and waits for nothing more.
LifespanOver ==
  shutdown = "returned" /\ swept = discarded /\ sweeping \notin outbox

-----------------------------------------------------------------------------

\* The steps taken while no submission is in progress.
Turn ==
  \/ \E t \in Task :
       \/ SubmitTask(t)
       \/ \E parent \in Task : SubmitRetry(parent, t)
       \/ \E c \in Canceller : CancelQueuedTask(c, t) \/ CancelRunningTask(c, t)
       \/ ExecBegins(t)
       \/ ExecStillborn(t)
       \/ Route(t)
       \/ Len(log[t]) < MaxDeltas + 2 /\ Receive(t)
       \/ Answer(t)
       \/ ExecFails(t)
       \/ ExecInterrupted(t)
       \/ ExecFinishes(t)
       \/ PublishTerminal(t)
       \/ Sweep(t)
  \/ \E c \in Canceller : CancelReturns(c)
  \/ SchedulerTurn

RuntimeNext ==
  \/ submitting = NoTask /\ Turn
  \/ \E t \in Task :
       EnqueueAccepted(t) \/ EnqueueDone(t) \/ EnqueueFailsClosing(t)
         \/ EnqueueFailsClock(t)

RuntimeSpec == RuntimeInit /\ [][RuntimeNext]_runtimeVars

\* asyncio runs what is scheduled.  An execution ends because asyncio.timeout
\* (main.py:391) bounds every wait for the router and the worker; clients owe
\* nothing, and the application need not shut down.
RuntimeFairness ==
  /\ \A t \in Task :
       /\ WF_runtimeVars(EnqueueAccepted(t) \/ EnqueueDone(t)
                           \/ EnqueueFailsClosing(t) \/ EnqueueFailsClock(t))
       /\ WF_runtimeVars(submitting = NoTask /\ (ExecBegins(t) \/ ExecStillborn(t)))
       /\ WF_runtimeVars(submitting = NoTask
                           /\ (Answer(t) \/ ExecFails(t) \/ ExecInterrupted(t)))
       /\ WF_runtimeVars(submitting = NoTask /\ ExecFinishes(t))
       /\ WF_runtimeVars(submitting = NoTask /\ PublishTerminal(t))
       /\ WF_runtimeVars(submitting = NoTask /\ Sweep(t))
  /\ \A c \in Canceller : WF_runtimeVars(submitting = NoTask /\ CancelReturns(c))
  /\ WF_runtimeVars(submitting = NoTask /\ SchedulerTurn /\ (Closing' => Closing))

FairRuntimeSpec == RuntimeSpec /\ RuntimeFairness

-----------------------------------------------------------------------------
(* Correctness.                                                            *)

\* The dispatcher never hands execute_task a task that cannot be started: what
\* was cancelled before its first step has its handle cancelled too, so that
\* neither TASK_STARTED nor any work follows the cancellation.
DispatchedIsStartable ==
  \A t \in Task :
    handle[t] = "created" /\ t \notin interrupted => Startable(t)

\* The record, the coroutine, the handle and the router's lease agree: a record
\* says "running" exactly while its coroutine can still decide the outcome,
\* that coroutine has a live handle (so the 409 answer of main.py:323 is never
\* given), a worker is leased exactly while its answer is awaited, and a handle
\* that is about to begin has a record to start.
ExecutionAgreement ==
  /\ RuntimeTypeOK
  /\ DispatchedIsStartable
  /\ \A t \in Task :
       /\ StateOf(t) = "running" <=> Executing(t)
       /\ exec[t] # "idle" => handle[t] = "running"
       /\ t \in leases <=> exec[t] = "streaming"

\* A cancel request is never answered with a task that is still going: whatever
\* decided the outcome, it is decided and published when the wait is over.
CancelAnswersTerminal ==
  \A c \in Canceller :
    cancelOf[c] # NoTask /\ CancelOver(cancelOf[c]) =>
      StateOf(cancelOf[c]) \in Terminal

\* While the application runs, a task that was accepted is never forgotten: it
\* waits in the scheduler's queue or its handle is about to begin.
NoneForgotten ==
  ~Closing => \A t \in Task :
    StateOf(t) = "queued" /\ record[t].enqueued =>
      \/ submitting = t
      \/ t \in queued
      \/ handle[t] = "created" /\ t \notin interrupted

\* The shutdown of the application cancels every task it had accepted, running
\* or queued (tests/test_scheduler.py:344-364).
AcceptedTasksEndAtShutdown ==
  LifespanOver =>
    \A t \in Task : record[t].enqueued => StateOf(t) \in Terminal

\* Every cancel request is answered.
CancelsAreAnswered ==
  \A c \in Canceller : cancelOf[c] # NoTask ~> cancelOf[c] = NoTask

-----------------------------------------------------------------------------
(* What the Runtime implements.                                            *)

\* A record that was never enqueued and whose handler has given up is one the
\* client was told nothing about.
LifeStatus(t) ==
  IF StateOf(t) = "queued" /\ ~record[t].enqueued
  THEN IF submitting = t THEN "absent" ELSE "rejected"
  ELSE StateOf(t)

Life == INSTANCE TaskLifecycle
          WITH status <- [t \in Task |-> LifeStatus(t)], stream <- log

\* The stream of every task is one that TaskLifecycle allows.
ImplementsLifecycle == Life!LifeSpec

\* Every accepted task ends and its end is announced, unless the application is
\* shut down.
EveryTaskEnds == <>Closing \/ Life!LifeFairness

\* The handlers and the executions use the scheduler and the handle registry
\* only as Scheduler lets their environment do, so what is proved of SchedSpec
\* holds in the running service.
UsesSchedulerAsSpecified == SchedSpec
=============================================================================
