----------------------------- MODULE Scheduler -----------------------------
(***************************************************************************)
(* The single-process, non-preemptive dispatcher of the Runtime            *)
(* (runtime/app/scheduler.py): a heap of queued executions from which      *)
(* cancelled ones are deleted lazily, a bounded set of running slots, and  *)
(* the cleanup tasks that give slots back after an execution has ended.    *)
(*                                                                         *)
(* A task enters the queue at most once (TaskRegistry.mark_enqueued        *)
(* refuses a second time), so the QueueItem of a task is named by the task *)
(* itself: its priority is PriorityOf[t] and its enqueue_seq is seqOf[t].  *)
(*                                                                         *)
(* Every critical section of TaskScheduler._lock is free of awaits, and an *)
(* uncontended asyncio.Lock does not suspend: each is one atomic action.   *)
(***************************************************************************)
EXTENDS ExecutionRegistry, Integers, FiniteSets

CONSTANTS
  MaxConcurrency,    \* max_concurrency
  Fcfs,              \* TRUE: SchedulerMode.FCFS, FALSE: SchedulerMode.PRIORITY
  PriorityOf,        \* PriorityOf[t]: TaskRecord.priority, smaller runs first
  Suspending         \* the tasks whose on_enqueued callback may suspend.  The
                     \* callback the Runtime passes publishes on an event bus
                     \* whose lock is never held across an await: none does.
CONSTANT
  MaxSeq             \* a bound for TLC: callbacks that raise draw no sequence
                     \* number beyond it; 0 is no bound, as in the code

ASSUME SchedulerAssumption ==
  /\ MaxConcurrency \in Nat \ {0}
  /\ Fcfs \in BOOLEAN
  /\ PriorityOf \in [Task -> Nat]
  /\ Suspending \subseteq Task

VARIABLES
  nextSeq,           \* the next value of _sequence
  seqOf,             \* seqOf[t]: QueueItem.enqueue_seq, 0 when t has none
  entering,          \* tasks whose enqueue() is inside `await on_enqueued'
  heap,              \* tasks with an entry in _queue, stale ones included
  queued,            \* keys of _queued_by_task_id
  running,           \* _running_task_ids
  cleanup,           \* _cleanup_tasks: tasks whose _release_slot is pending
  shutdown,          \* progress of shutdown()
  awaited,           \* what shutdown() is waiting for
  discarded          \* the queued task ids shutdown() returns

queueVars == <<nextSeq, seqOf, entering, heap, queued>>
shutdownVars == <<shutdown, awaited, discarded>>
schedVars == <<handleVars, queueVars, running, cleanup, shutdownVars>>

\* _closing is set by the first step of shutdown() and never cleared.
Closing == shutdown # "open"

SchedTypeOK ==
  /\ HandleTypeOK
  /\ nextSeq \in Nat \ {0}
  /\ seqOf \in [Task -> Nat]
  /\ entering \in SUBSET Task
  /\ heap \in SUBSET Task
  /\ queued \in SUBSET Task
  /\ running \in SUBSET Task
  /\ cleanup \in SUBSET Task
  /\ shutdown \in {"open", "draining", "cleaning", "returned"}
  /\ awaited \in SUBSET Task
  /\ discarded \in SUBSET Task

SchedInit ==
  /\ HandleInit
  /\ nextSeq = 1
  /\ seqOf = [t \in Task |-> 0]
  /\ entering = {}
  /\ heap = {}
  /\ queued = {}
  /\ running = {}
  /\ cleanup = {}
  /\ shutdown = "open"
  /\ awaited = {}
  /\ discarded = {}

-----------------------------------------------------------------------------
(* The order of the queue and the dispatch loop.                           *)

\* Mutant: the later of two equal priorities first.
BeforeNewestFirst(s, t) ==
  \/ (Fcfs \/ PriorityOf[s] = PriorityOf[t]) /\ seqOf[s] > seqOf[t]
  \/ ~Fcfs /\ PriorityOf[s] < PriorityOf[t]

\* _sort_key: (priority, enqueue_seq), or (enqueue_seq) alone under FCFS.
Before(s, t) ==
  \/ /\ Fcfs \/ PriorityOf[s] = PriorityOf[t]
     /\ seqOf[s] < seqOf[t]
  \/ ~Fcfs /\ PriorityOf[s] < PriorityOf[t]

\* The entries the dispatch loop takes from queue q when r occupies slots:
\* the smallest ones, as many as there are free slots or entries.
IsNextBatch(batch, q, r) ==
  /\ \A s \in batch, t \in q \ batch : Before(s, t)
  /\ Cardinality(r) + Cardinality(batch) <= MaxConcurrency
  /\ batch # q => Cardinality(r) + Cardinality(batch) = MaxConcurrency

\* What the pops of the loop leave in the heap.  With slots to spare the loop
\* pops until the heap is empty; otherwise it stops behind the last entry of
\* the batch, and the stale entries further back stay.
HeapAfter(batch, h, r) ==
  IF Cardinality(r) + Cardinality(batch) < MaxConcurrency
  THEN {}
  ELSE {t \in h : \A s \in batch : Before(s, t)}

\* _dispatch_available_locked with queue q, heap h and occupied slots r.
Dispatch(q, h, r) ==
  IF Closing
  THEN /\ queued' = q /\ heap' = h /\ running' = r
       /\ UNCHANGED handleVars
  ELSE \E batch \in SUBSET q :
         /\ IsNextBatch(batch, q, r)
         /\ queued' = q \ batch
         /\ heap' = HeapAfter(batch, h, r)
         /\ running' = r \cup batch
         /\ StartHandles(batch)

-----------------------------------------------------------------------------
(* enqueue(), in two steps around `await on_enqueued'.                      *)

\* The closing check passes, a sequence number is drawn and the callback
\* accepts the item.
EnqueueBegins(t) ==
  /\ ~Closing
  /\ seqOf[t] = 0
  /\ seqOf' = [seqOf EXCEPT ![t] = nextSeq]
  /\ nextSeq' = nextSeq + 1
  /\ entering' = entering \cup {t}
  /\ UNCHANGED <<heap, queued, handleVars, running, cleanup, shutdownVars>>

\* The callback raises: the sequence number is spent and nothing else happens.
EnqueueRefused(t) ==
  /\ ~Closing
  /\ seqOf[t] = 0
  /\ nextSeq' = nextSeq + 1
  /\ UNCHANGED <<seqOf, entering, heap, queued, handleVars, running, cleanup,
                 shutdownVars>>

\* The callback has returned: under the lock the item is pushed and the loop
\* runs -- unless shutdown() came in between, which makes enqueue() raise.
EnqueueCommits(t) ==
  /\ t \in entering
  /\ entering' = entering \ {t}
  /\ IF Closing
     THEN UNCHANGED <<heap, queued, running, handleVars>>
     ELSE /\ t \notin queued
          /\ Dispatch(queued \cup {t}, heap \cup {t}, running)
  /\ UNCHANGED <<nextSeq, seqOf, cleanup, shutdownVars>>

-----------------------------------------------------------------------------
(* The rest of the scheduler's interface and its callbacks.                 *)

\* cancel_queued() found the task: its heap entry stays behind as a stale one.
CancelQueued(t) ==
  /\ t \in queued
  /\ Dispatch(queued \ {t}, heap, running)
  /\ UNCHANGED <<nextSeq, seqOf, entering, cleanup, shutdownVars>>

\* Mutant: the callback that schedules the cleanup is not attached.
DoneCallbacksNoCleanup(t) ==
  /\ HandleForgotten(t)
  /\ UNCHANGED <<queueVars, running, cleanup, shutdownVars>>

\* The two done callbacks of a handle run back to back: _on_done forgets the
\* handle and _schedule_cleanup creates the cleanup task.
DoneCallbacks(t) ==
  /\ HandleForgotten(t)
  /\ cleanup' = cleanup \cup {t}
  /\ UNCHANGED <<queueVars, running, shutdownVars>>

\* Mutants: the slot is given back without a dispatch; the lock the cleanup task
\* needs is held by shutdown() while it waits.
ReleaseSlotNoDispatch(t) ==
  /\ t \in cleanup
  /\ cleanup' = cleanup \ {t} /\ running' = running \ {t}
  /\ UNCHANGED <<handleVars, queueVars, shutdownVars>>

ReleaseSlotLockedOut(t) ==
  /\ t \in cleanup /\ shutdown \notin {"draining", "cleaning"}
  /\ cleanup' = cleanup \ {t}
  /\ Dispatch(queued, heap, running \ {t})
  /\ UNCHANGED <<nextSeq, seqOf, entering, shutdownVars>>

\* _release_slot(): the cleanup task gives the slot back and dispatches.
ReleaseSlot(t) ==
  /\ t \in cleanup
  /\ cleanup' = cleanup \ {t}
  /\ Dispatch(queued, heap, running \ {t})
  /\ UNCHANGED <<nextSeq, seqOf, entering, shutdownVars>>

\* Mutant: the queued ids are handed back and the queue is kept.
ShutdownKeepsQueue ==
  /\ shutdown = "open"
  /\ shutdown' = "draining"
  /\ discarded' = queued
  /\ awaited' = {t \in running : handle[t] # "none"}
  /\ RequestCancel(running)
  /\ UNCHANGED <<queueVars, running, cleanup>>

\* shutdown() under the lock: refuse new work, drop the queue, cancel what runs.
ShutdownBegins ==
  /\ shutdown = "open"
  /\ shutdown' = "draining"
  /\ discarded' = queued
  /\ awaited' = {t \in running : handle[t] # "none"}
  /\ queued' = {} /\ heap' = {}
  /\ RequestCancel(running)
  /\ UNCHANGED <<nextSeq, seqOf, entering, running, cleanup>>

\* Every wait_stopped() has returned; shutdown() picks up the cleanup tasks.
ShutdownDrained ==
  /\ shutdown = "draining"
  /\ \A t \in awaited : handle[t] = "none"
  /\ shutdown' = "cleaning"
  /\ awaited' = cleanup
  /\ UNCHANGED <<handleVars, queueVars, running, cleanup, discarded>>

\* Mutant: the cleanup tasks are not awaited.
ShutdownReturnsEarly ==
  /\ shutdown = "cleaning"
  /\ shutdown' = "returned"
  /\ awaited' = {}
  /\ UNCHANGED <<handleVars, queueVars, running, cleanup, discarded>>

\* The cleanup tasks it picked up are over: shutdown() returns.
ShutdownReturns ==
  /\ shutdown = "cleaning"
  /\ awaited \cap cleanup = {}
  /\ shutdown' = "returned"
  /\ awaited' = {}
  /\ UNCHANGED <<handleVars, queueVars, running, cleanup, discarded>>

-----------------------------------------------------------------------------
(* The environment: the runner passed to the scheduler and the callers of   *)
(* the handle registry.                                                     *)

\* The runner's coroutine starts.
RunnerBegins(t) ==
  /\ HandleBegins(t)
  /\ UNCHANGED <<queueVars, running, cleanup, shutdownVars>>

\* The runner's coroutine handles a cancellation and goes on (it releases what it
\* holds and publishes the outcome).
RunnerInterrupted(t) ==
  /\ HandleInterrupted(t)
  /\ UNCHANGED <<queueVars, running, cleanup, shutdownVars>>

\* The runner's coroutine ends, for whatever reason; one that was cancelled
\* before it began ends without beginning.
RunnerEnds(t) ==
  /\ handle[t] = "running" \/ t \in interrupted
  /\ HandleEnds(t)
  /\ UNCHANGED <<queueVars, running, cleanup, shutdownVars>>

\* Some caller asks for the execution of t to be cancelled.
CancelRunning(t) ==
  /\ RequestCancel({t})
  /\ UNCHANGED <<queueVars, running, cleanup, shutdownVars>>

-----------------------------------------------------------------------------

SchedStep ==
  \/ \E t \in Task :
       \/ EnqueueBegins(t)
       \/ (MaxSeq = 0 \/ nextSeq < MaxSeq) /\ EnqueueRefused(t)
       \/ CancelQueued(t)
       \/ CancelRunning(t)
       \/ RunnerBegins(t)
       \/ RunnerInterrupted(t)
       \/ RunnerEnds(t)
       \/ DoneCallbacks(t)
       \/ ReleaseSlot(t)
  \/ ShutdownBegins
  \/ ShutdownDrained
  \/ ShutdownReturns

\* A callback that does not suspend runs to completion: no other step comes
\* between the two halves of enqueue().
SchedNext ==
  \/ \E t \in Task : entering \subseteq Suspending \cup {t} /\ EnqueueCommits(t)
  \/ entering \subseteq Suspending /\ SchedStep

SchedSpec == SchedInit /\ [][SchedNext]_schedVars

\* What asyncio guarantees: a scheduled callback or task step runs eventually.
\* RunnerEnds is fair because the runner is bounded by asyncio.timeout
\* (main.py:391) and unwinds when cancelled.  Callers owe nothing.
SchedFairness ==
  /\ \A t \in Task :
       /\ WF_schedVars(EnqueueCommits(t))
       /\ WF_schedVars(RunnerBegins(t))
       /\ WF_schedVars(RunnerEnds(t))
       /\ WF_schedVars(DoneCallbacks(t))
       /\ WF_schedVars(ReleaseSlot(t))
  /\ WF_schedVars(ShutdownDrained)
  /\ WF_schedVars(ShutdownReturns)

FairSchedSpec == SchedSpec /\ SchedFairness

-----------------------------------------------------------------------------
(* Correctness.                                                            *)

\* Every occupied slot is accounted for by exactly one thing that will give it
\* back: a handle whose callbacks have not run, or a pending _release_slot.
\* Nothing else runs.  A slot that leaks, or one released twice, breaks this.
SlotAccounting ==
  /\ running = {t \in Task : handle[t] # "none"} \cup cleanup
  /\ \A t \in cleanup : handle[t] = "none"

\* max_concurrency bounds the executions that exist, not only the slots the
\* scheduler counts (scheduler.py:150-168 against the handles it starts).
ConcurrencyBound == Cardinality(Unfinished) <= MaxConcurrency

\* No slot stays free while a task waits: enqueue, cancel_queued and
\* _release_slot each have to run the dispatch loop for this to hold between
\* any two steps.
WorkConserving == queued # {} => Cardinality(running) = MaxConcurrency

\* The dictionary and the lazily pruned heap agree: a queued task can still be
\* popped, and no task is in two places (being entered, waiting, holding a
\* slot, handed back by shutdown()) at once.
QueueAgreement ==
  /\ queued \subseteq heap
  /\ queued \cap running = {} /\ queued \cap entering = {}
  /\ entering \cap (running \cup heap) = {}
  /\ discarded \cap (running \cup queued) = {}

\* A task that arrived later and runs while an earlier one waits has strictly
\* better priority -- never under FCFS, unless the enqueue() of the earlier one
\* could be overtaken between drawing its number and taking the lock.
NoQueueJumping ==
  \A s \in queued \ Suspending, t \in running :
    seqOf[s] < seqOf[t] => ~Fcfs /\ PriorityOf[t] < PriorityOf[s]

\* When shutdown() has returned nothing runs and nothing will: no handle, no
\* slot, no pending cleanup (main.py:147 closes the router right after).
QuiescentAfterShutdown ==
  shutdown = "returned" =>
    running = {} /\ cleanup = {} /\ \A t \in Task : handle[t] = "none"

\* From the moment shutdown() holds the lock no execution is started and no
\* task waits, whatever enqueue(), cancel_queued() and _release_slot() calls
\* were under way.
ClosedToNewWork ==
  [][Closing => running' \subseteq running /\ queued' = {}]_schedVars

\* shutdown() returns, even when it finds handles that have not begun, are done
\* or are being cancelled by somebody else.
ShutdownFinishes == Closing ~> shutdown = "returned"
=============================================================================
