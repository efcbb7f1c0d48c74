--------------------------- MODULE RuntimeProofs ---------------------------
(***************************************************************************)
(* Proofs about Runtime, for every set of tasks, every number of slots and *)
(* concurrent cancel requests, with and without shutdown and clock steps.  *)
(*                                                                         *)
(* The Runtime moves the scheduler only along SchedNext and the registry   *)
(* only along RegistryNext; so what is proved about either holds in it.    *)
(* ExecutionAgreement is not inductive by itself: RuntimeInv adds how a    *)
(* record, the queue and the sequence numbers agree, what a cancelled      *)
(* handle looks like, that a publication is scheduled only for an outcome, *)
(* and that a stream is not closed before its publication has run.         *)
(***************************************************************************)
EXTENDS Runtime, FiniteSetTheorems, TLAPS

-----------------------------------------------------------------------------
(* The scheduler, for every set of tasks, every max_concurrency, both modes *)
(* and callbacks that suspend or not.  SchedInv is the inductive invariant. *)
(* The slot count cannot be shown bounded, nor the dispatcher work-         *)
(* conserving, without knowing that the queue, the slots and the tasks      *)
(* being entered are disjoint, that the heap holds every queued task, and   *)
(* that every slot belongs to exactly one handle or pending cleanup task.   *)

\* The sets the dispatcher counts are finite, and the slots are bounded.
SlotBound ==
  /\ IsFiniteSet(queued)
  /\ IsFiniteSet(running)
  /\ Cardinality(running) <= MaxConcurrency

\* Whatever has been entered carries a sequence number; the queue is empty once
\* shutdown() has begun and has handed nothing back before.
Provenance ==
  /\ \A t \in entering \cup heap \cup running : seqOf[t] # 0
  /\ Closing => queued = {} /\ heap = {}
  /\ ~Closing => discarded = {}

\* How far shutdown() has got.
DrainProgress ==
  /\ shutdown = "draining" => \A t \in Task : handle[t] # "none" => t \in awaited
  /\ shutdown \in {"cleaning", "returned"} => \A t \in Task : handle[t] = "none"
  /\ shutdown = "cleaning" => cleanup \subseteq awaited
  /\ shutdown = "returned" => cleanup = {}

SchedInv ==
  /\ SchedTypeOK
  /\ SlotBound
  /\ SlotAccounting
  /\ WorkConserving
  /\ QueueAgreement
  /\ Provenance
  /\ DrainProgress

-----------------------------------------------------------------------------

\* The shape of the three actions that run the dispatch loop: what leaves
\* `entering' may join the queue, what leaves `cleanup' gives its slot back.
DispatchShape ==
  \E q \in SUBSET Task, h \in SUBSET Task, r \in SUBSET Task :
    /\ q \subseteq h /\ h \subseteq heap \cup entering
    /\ q \subseteq queued \cup entering
    /\ IsFiniteSet(q) /\ q \cap (running \cup discarded) = {}
    /\ entering' \subseteq entering /\ entering' \cap h = {}
    /\ cleanup' \subseteq cleanup /\ r = running \ (cleanup \ cleanup')
    /\ Closing => q = {} /\ h = {}
    /\ UNCHANGED <<nextSeq, seqOf, shutdownVars>>
    /\ Dispatch(q, h, r)

\* Running the loop keeps the invariant.  It moves a batch from the queue to the
\* slots: the rest of the queue can still be popped, the slots stay within the
\* bound, and the loop stops only when the queue is empty or the slots are full
\* (<2>4).
LEMMA DispatchKeepsInv ==
  ASSUME SchedInv, DispatchShape
  PROVE  SchedInv'
<1>0. PICK q \in SUBSET Task, h \in SUBSET Task, r \in SUBSET Task :
        /\ q \subseteq h /\ h \subseteq heap \cup entering
        /\ q \subseteq queued \cup entering
        /\ IsFiniteSet(q) /\ q \cap (running \cup discarded) = {}
        /\ entering' \subseteq entering /\ entering' \cap h = {}
        /\ cleanup' \subseteq cleanup /\ r = running \ (cleanup \ cleanup')
        /\ Closing => q = {} /\ h = {}
        /\ UNCHANGED <<nextSeq, seqOf, shutdownVars>>
        /\ Dispatch(q, h, r)
  BY DEF DispatchShape
<1> USE <1>0
<1> USE DEF SchedInv
<1>1. IsFiniteSet(r) /\ Cardinality(r) <= MaxConcurrency
  <2>1. r \subseteq running /\ IsFiniteSet(running)
    BY DEF SlotBound
  <2>2. IsFiniteSet(r) /\ Cardinality(r) <= Cardinality(running)
    BY <2>1, FS_Subset
  <2>3. Cardinality(r) \in Nat /\ Cardinality(running) \in Nat
    BY <2>1, <2>2, FS_CardinalityType
  <2> QED
    BY <2>2, <2>3, SchedulerAssumption DEF SlotBound
<1>2. CASE Closing
  <2>1. /\ queued' = {} /\ heap' = {} /\ running' = r
        /\ UNCHANGED handleVars
    BY <1>2 DEF Dispatch
  <2>2. SchedTypeOK'
    BY <2>1 DEF SchedTypeOK, HandleTypeOK, handleVars, shutdownVars
  <2>3. SlotBound'
    BY <1>1, <2>1, FS_EmptySet DEF SlotBound
  <2>4. SlotAccounting'
    BY <2>1 DEF SlotAccounting, handleVars
  <2>5. WorkConserving' /\ QueueAgreement' /\ Provenance'
    BY <1>2, <2>1
    DEF WorkConserving, QueueAgreement, Provenance, shutdownVars, Closing
  <2>6. DrainProgress'
    BY <1>2, <2>1 DEF DrainProgress, handleVars, shutdownVars
  <2> QED
    BY <2>2, <2>3, <2>4, <2>5, <2>6
<1>3. CASE ~Closing
  <2>1. q \cap r = {}
    OBVIOUS
  <2>2. PICK batch \in SUBSET q :
          /\ IsNextBatch(batch, q, r)
          /\ queued' = q \ batch
          /\ heap' = HeapAfter(batch, h, r)
          /\ running' = r \cup batch
          /\ StartHandles(batch)
    BY <1>3 DEF Dispatch
  <2>3. /\ q \subseteq h /\ IsFiniteSet(q)
        /\ batch \in SUBSET q /\ IsNextBatch(batch, q, r)
    BY <2>2
  <2>4. /\ HeapAfter(batch, h, r) \subseteq h
        /\ q \ batch \subseteq HeapAfter(batch, h, r)
        /\ IsFiniteSet(q \ batch) /\ IsFiniteSet(r \cup batch)
        /\ Cardinality(r \cup batch) <= MaxConcurrency
        /\ q \ batch # {} => Cardinality(r \cup batch) = MaxConcurrency
    <3>1. IsFiniteSet(batch) /\ IsFiniteSet(q \ batch)
      BY <2>3, FS_Subset
    <3>2. Cardinality(r) \in Nat /\ Cardinality(batch) \in Nat
      BY <1>1, <3>1, FS_CardinalityType
    <3>3. /\ IsFiniteSet(r \cup batch)
          /\ Cardinality(r \cup batch) = Cardinality(r) + Cardinality(batch)
      <4>1. r \cap batch = {}
        BY <2>1, <2>3
      <4>2. Cardinality(r \cap batch) = 0
        BY <4>1, FS_EmptySet
      <4>3. /\ IsFiniteSet(r \cup batch)
            /\ Cardinality(r \cup batch)
                 = Cardinality(r) + Cardinality(batch) - Cardinality(r \cap batch)
        BY <1>1, <3>1, FS_Union
      <4> QED
        BY <3>2, <4>2, <4>3
    <3>4. q \ batch \subseteq HeapAfter(batch, h, r)
      <4>1. CASE Cardinality(r) + Cardinality(batch) < MaxConcurrency
        <5>1. batch = q
          BY <2>3, <3>2, <4>1, SchedulerAssumption DEF IsNextBatch
        <5> QED
          BY <5>1
      <4>2. CASE ~(Cardinality(r) + Cardinality(batch) < MaxConcurrency)
        BY <2>3, <4>2 DEF HeapAfter, IsNextBatch
      <4> QED
        BY <4>1, <4>2
    <3> QED
      BY <2>3, <3>1, <3>3, <3>4 DEF HeapAfter, IsNextBatch
  <2>5. /\ heap' \subseteq h
        /\ queued' \subseteq heap'
        /\ IsFiniteSet(queued') /\ IsFiniteSet(running')
        /\ Cardinality(running') <= MaxConcurrency
        /\ queued' # {} => Cardinality(running') = MaxConcurrency
    BY <2>2, <2>4
  <2>6. SchedTypeOK'
    BY <2>2, <2>5
    DEF SchedTypeOK, HandleTypeOK, HandleStage, StartHandles, shutdownVars
  <2>7. SlotBound' /\ WorkConserving'
    BY <2>2, <2>5 DEF SlotBound, WorkConserving
  <2>8. SlotAccounting'
    BY <2>2, <2>5
    DEF SlotAccounting, StartHandles, SchedTypeOK, HandleTypeOK, HandleStage
  <2>9. /\ entering' \subseteq entering /\ entering' \cap h = {}
        /\ q \subseteq h /\ h \subseteq heap \cup entering
        /\ q \cap discarded = {} /\ r \subseteq running
        /\ batch \subseteq q /\ discarded' = discarded /\ seqOf' = seqOf
        /\ shutdown' = shutdown
    BY DEF shutdownVars
  <2>10. QueueAgreement'
    BY <2>1, <2>2, <2>5, <2>9 DEF QueueAgreement
  <2>11. Provenance'
    <3>1. \A t \in entering' \cup heap' \cup running' : seqOf[t] # 0
      BY <2>2, <2>5, <2>9 DEF Provenance
    <3>2. ~Closing' /\ discarded = {}
      BY <1>3, <2>9 DEF Provenance, Closing
    <3> QED
      BY <3>1, <3>2, <2>9 DEF Provenance
  <2>12. DrainProgress'
    BY <1>3, <2>9 DEF DrainProgress, Closing
  <2> QED
    BY <2>6, <2>7, <2>8, <2>10, <2>11, <2>12
<1> QED
  BY <1>2, <1>3

-----------------------------------------------------------------------------

\* The initial states satisfy the invariant.
LEMMA InitInv == SchedInit => SchedInv
<1> SUFFICES ASSUME SchedInit PROVE SchedInv
  OBVIOUS
<1>1. IsFiniteSet({}) /\ Cardinality({}) = 0
  BY FS_EmptySet
<1>2. SchedTypeOK /\ SlotAccounting /\ WorkConserving /\ QueueAgreement
  BY DEF SchedInit, HandleInit, SchedTypeOK, HandleTypeOK, HandleStage,
         SlotAccounting, WorkConserving, QueueAgreement
<1>3. SlotBound /\ Provenance /\ DrainProgress
  BY <1>1, SchedulerAssumption
  DEF SchedInit, HandleInit, SlotBound, Provenance, DrainProgress, Closing
<1> QED
  BY <1>2, <1>3 DEF SchedInv

\* The three actions that run the dispatch loop have that shape.
LEMMA ShapeOfCommit ==
  ASSUME SchedInv, NEW t \in Task, EnqueueCommits(t), ~Closing
  PROVE  DispatchShape
<1> USE DEF SchedInv, DispatchShape
<1>1. /\ queued \cup {t} \in SUBSET Task
      /\ heap \cup {t} \in SUBSET Task
      /\ running \in SUBSET Task
  BY DEF SchedTypeOK
<1>2. IsFiniteSet(queued \cup {t})
  BY FS_AddElement DEF SlotBound
<1> USE <1>1
<1> WITNESS queued \cup {t} \in SUBSET Task, heap \cup {t} \in SUBSET Task,
            running \in SUBSET Task
<1> QED
  BY <1>2 DEF EnqueueCommits, SchedTypeOK, QueueAgreement, Provenance

\* cancel_queued() takes one task out of the queue before it runs the loop.
LEMMA ShapeOfCancel ==
  ASSUME SchedInv, NEW t \in Task, CancelQueued(t)
  PROVE  DispatchShape
<1> USE DEF SchedInv, DispatchShape
<1>1. /\ queued \ {t} \in SUBSET Task
      /\ heap \in SUBSET Task
      /\ running \in SUBSET Task
  BY DEF SchedTypeOK
<1>2. IsFiniteSet(queued \ {t})
  BY FS_RemoveElement DEF SlotBound
<1> USE <1>1
<1> WITNESS queued \ {t} \in SUBSET Task, heap \in SUBSET Task,
            running \in SUBSET Task
<1> QED
  BY <1>2 DEF CancelQueued, QueueAgreement, Provenance

\* _release_slot() gives one slot back before it runs the loop.
LEMMA ShapeOfRelease ==
  ASSUME SchedInv, NEW t \in Task, ReleaseSlot(t)
  PROVE  DispatchShape
<1> USE DEF SchedInv, DispatchShape
<1>1. /\ queued \in SUBSET Task
      /\ heap \in SUBSET Task
      /\ running \ {t} \in SUBSET Task
  BY DEF SchedTypeOK
<1> USE <1>1
<1> WITNESS queued \in SUBSET Task, heap \in SUBSET Task,
            running \ {t} \in SUBSET Task
<1> QED
  BY DEF ReleaseSlot, SlotBound, QueueAgreement, Provenance

\* enqueue() that finds the scheduler closing drops the item.
LEMMA CommitWhenClosing ==
  ASSUME SchedInv, NEW t \in Task, EnqueueCommits(t), Closing
  PROVE  SchedInv'
<1>1. /\ entering' = entering \ {t}
      /\ UNCHANGED <<heap, queued, running, handleVars, nextSeq, seqOf, cleanup,
                     shutdownVars>>
  BY DEF EnqueueCommits
<1> QED
  BY <1>1
  DEF SchedInv, SchedTypeOK, HandleTypeOK, SlotBound, SlotAccounting,
      WorkConserving, QueueAgreement, Provenance, DrainProgress, Closing,
      handleVars, shutdownVars

\* The steps that leave the queue and the slots alone.
LEMMA EnqueueBeginsInv ==
  ASSUME SchedInv, NEW t \in Task, EnqueueBegins(t) \/ EnqueueRefused(t)
  PROVE  SchedInv'
<1> USE DEF SchedInv, EnqueueBegins, EnqueueRefused
<1>1. SchedTypeOK'
  BY DEF SchedTypeOK, HandleTypeOK, handleVars, shutdownVars
<1>2. SlotBound' /\ SlotAccounting' /\ WorkConserving'
  BY DEF SlotBound, SlotAccounting, WorkConserving, handleVars
<1>3. QueueAgreement'
  BY DEF QueueAgreement, Provenance, shutdownVars
<1>4. Provenance'
  BY DEF Provenance, SchedTypeOK, Closing, shutdownVars
<1>5. DrainProgress'
  BY DEF DrainProgress, handleVars, shutdownVars
<1> QED
  BY <1>1, <1>2, <1>3, <1>4, <1>5

\* A handle begins, is cancelled or ends: its slot stays with it.
LEMMA HandleStepInv ==
  ASSUME SchedInv, NEW t \in Task,
         \/ CancelRunning(t) \/ RunnerBegins(t) \/ RunnerInterrupted(t)
         \/ RunnerEnds(t)
  PROVE  SchedInv'
<1> USE DEF SchedInv
<1>1. /\ UNCHANGED <<queueVars, running, cleanup, shutdownVars>>
      /\ HandleTypeOK'
      /\ \A s \in Task : handle'[s] = "none" <=> handle[s] = "none"
  BY DEF SchedTypeOK, HandleTypeOK, HandleStage, Unfinished, CancelRunning,
         RunnerBegins, RunnerInterrupted, RunnerEnds, RequestCancel,
         HandleBegins, HandleInterrupted, HandleEnds
<1>2. SchedTypeOK'
  BY <1>1 DEF SchedTypeOK, queueVars, shutdownVars
<1>3. SlotBound' /\ SlotAccounting' /\ WorkConserving'
  BY <1>1 DEF SlotBound, SlotAccounting, WorkConserving, SchedTypeOK, queueVars
<1>4. QueueAgreement' /\ Provenance'
  BY <1>1 DEF QueueAgreement, Provenance, Closing, queueVars, shutdownVars
<1>5. DrainProgress'
  BY <1>1 DEF DrainProgress, shutdownVars
<1> QED
  BY <1>2, <1>3, <1>4, <1>5

\* The slot passes from the handle to the cleanup task.
LEMMA DoneCallbacksInv ==
  ASSUME SchedInv, NEW t \in Task, DoneCallbacks(t)
  PROVE  SchedInv'
<1> USE DEF SchedInv, DoneCallbacks, HandleForgotten
<1>1. SchedTypeOK'
  BY DEF SchedTypeOK, HandleTypeOK, HandleStage, queueVars, shutdownVars
<1>2. SlotBound' /\ WorkConserving'
  BY DEF SlotBound, WorkConserving, queueVars
<1>3. SlotAccounting'
  BY DEF SlotAccounting, SchedTypeOK, HandleTypeOK
<1>4. QueueAgreement' /\ Provenance'
  BY DEF QueueAgreement, Provenance, Closing, queueVars, shutdownVars
<1>5. DrainProgress'
  BY DEF DrainProgress, SchedTypeOK, HandleTypeOK, shutdownVars
<1> QED
  BY <1>1, <1>2, <1>3, <1>4, <1>5

\* The steps of shutdown().
LEMMA ShutdownInv ==
  ASSUME SchedInv, ShutdownBegins \/ ShutdownDrained \/ ShutdownReturns
  PROVE  SchedInv'
<1> USE DEF SchedInv
<1>1. CASE ShutdownBegins
  <2> USE <1>1 DEF ShutdownBegins, RequestCancel
  <2>1. SchedTypeOK'
    BY DEF SchedTypeOK, HandleTypeOK
  <2>2. SlotBound' /\ SlotAccounting' /\ WorkConserving'
    BY FS_EmptySet DEF SlotBound, SlotAccounting, WorkConserving
  <2>3. QueueAgreement' /\ Provenance'
    BY DEF QueueAgreement, Provenance, Closing
  <2>4. DrainProgress'
    BY DEF DrainProgress, SlotAccounting
  <2> QED
    BY <2>1, <2>2, <2>3, <2>4
<1>2. CASE ShutdownDrained \/ ShutdownReturns
  <2> USE <1>2 DEF ShutdownDrained, ShutdownReturns
  <2>1. SchedTypeOK'
    BY DEF SchedTypeOK, HandleTypeOK, handleVars, queueVars
  <2>2. SlotBound' /\ SlotAccounting' /\ WorkConserving'
    BY DEF SlotBound, SlotAccounting, WorkConserving, handleVars, queueVars
  <2>3. QueueAgreement' /\ Provenance'
    BY DEF QueueAgreement, Provenance, Closing, queueVars
  <2>4. DrainProgress'
    BY DEF DrainProgress, handleVars
  <2> QED
    BY <2>1, <2>2, <2>3, <2>4
<1> QED
  BY <1>1, <1>2

\* Every step of the specification, and every stuttering step.
LEMMA StepInv == SchedInv /\ [SchedNext]_schedVars => SchedInv'
<1> SUFFICES ASSUME SchedInv, [SchedNext]_schedVars PROVE SchedInv'
  OBVIOUS
<1>1. CASE UNCHANGED schedVars
  BY <1>1
  DEF SchedInv, SchedTypeOK, HandleTypeOK, SlotBound, SlotAccounting,
      WorkConserving, QueueAgreement, Provenance, DrainProgress, Closing,
      schedVars, handleVars, queueVars, shutdownVars
<1>2. CASE \E t \in Task : EnqueueCommits(t)
  BY <1>2, CommitWhenClosing, ShapeOfCommit, DispatchKeepsInv
<1>3. CASE SchedStep
  <2>1. ASSUME NEW t \in Task,
               \/ EnqueueBegins(t)
               \/ (MaxSeq = 0 \/ nextSeq < MaxSeq) /\ EnqueueRefused(t)
               \/ CancelQueued(t)
               \/ CancelRunning(t)
               \/ RunnerBegins(t)
               \/ RunnerInterrupted(t)
               \/ RunnerEnds(t)
               \/ DoneCallbacks(t)
               \/ ReleaseSlot(t)
        PROVE  SchedInv'
    BY <2>1, EnqueueBeginsInv, HandleStepInv, DoneCallbacksInv, ShapeOfCancel,
       ShapeOfRelease, DispatchKeepsInv
  <2> QED
    BY <1>3, <2>1, ShutdownInv DEF SchedStep
<1> QED
  BY <1>1, <1>2, <1>3 DEF SchedNext

\* The inductive invariant holds in every reachable state.
THEOREM SchedInvariant == SchedSpec => []SchedInv
  BY InitInv, StepInv, PTL DEF SchedSpec

-----------------------------------------------------------------------------
(* What follows for the scheduler.                                         *)

\* Every variable of the scheduler and the handle registry keeps its type.
THEOREM TypeCorrect == SchedSpec => []SchedTypeOK
  BY SchedInvariant, PTL DEF SchedInv

\* A slot is held by exactly one live handle or one pending _release_slot: no
\* slot leaks and none is given back twice (scheduler.py:150-190).
THEOREM SlotsAccounted == SchedSpec => []SlotAccounting
  BY SchedInvariant, PTL DEF SchedInv

\* At most max_concurrency executions exist at any time.
THEOREM ConcurrencyBounded == SchedSpec => []ConcurrencyBound
<1>1. SchedInv => ConcurrencyBound
  <2> SUFFICES ASSUME SchedInv PROVE ConcurrencyBound
    OBVIOUS
  <2> USE DEF SchedInv
  <2>1. Unfinished \subseteq running /\ IsFiniteSet(running)
    BY DEF Unfinished, SlotAccounting, SlotBound
  <2>2. IsFiniteSet(Unfinished) /\ Cardinality(Unfinished) <= Cardinality(running)
    BY <2>1, FS_Subset
  <2>3. Cardinality(running) \in Nat /\ Cardinality(Unfinished) \in Nat
    BY <2>1, <2>2, FS_CardinalityType
  <2> QED
    BY <2>2, <2>3, SchedulerAssumption DEF ConcurrencyBound, SlotBound
<1> QED
  BY <1>1, SchedInvariant, PTL

\* Between any two steps a task waits only when every slot is taken.
THEOREM WorkConserved == SchedSpec => []WorkConserving
  BY SchedInvariant, PTL DEF SchedInv

\* The dictionary of queued tasks, the heap, the slots, the tasks being entered
\* and the tasks shutdown() hands back stay consistent.
THEOREM QueueConsistent == SchedSpec => []QueueAgreement
  BY SchedInvariant, PTL DEF SchedInv

\* shutdown() returns only when no handle, slot or cleanup task is left.
THEOREM QuiescentHolds == SchedSpec => []QuiescentAfterShutdown
<1>1. SchedInv => QuiescentAfterShutdown
  BY DEF SchedInv, DrainProgress, SlotAccounting, QuiescentAfterShutdown
<1> QED
  BY <1>1, SchedInvariant, PTL

\* No step starts an execution once shutdown() has taken the lock.
THEOREM NothingStartsWhenClosing == SchedSpec => ClosedToNewWork
<1> DEFINE Shut == Closing => running' \subseteq running /\ queued' = {}
<1>1. SchedInv /\ SchedInv' /\ [SchedNext]_schedVars => [Shut]_schedVars
  <2> SUFFICES ASSUME SchedInv, SchedInv', SchedNext, Closing
               PROVE  running' \subseteq running /\ queued' = {}
    OBVIOUS
  <2>1. Closing' /\ running' \subseteq running
    <3>1. CASE \E t \in Task : EnqueueCommits(t)
      BY <3>1 DEF EnqueueCommits, Closing, shutdownVars
    <3>2. CASE SchedStep
      BY <3>2
      DEF SchedStep, EnqueueBegins, EnqueueRefused, CancelQueued, CancelRunning,
          RunnerBegins, RunnerInterrupted, RunnerEnds, DoneCallbacks, ReleaseSlot, Dispatch,
          ShutdownBegins, ShutdownDrained, ShutdownReturns, Closing, shutdownVars
    <3> QED
      BY <3>1, <3>2 DEF SchedNext
  <2> QED
    BY <2>1 DEF SchedInv, Provenance
<1> QED
  BY <1>1, SchedInvariant, PTL DEF SchedSpec, ClosedToNewWork

-----------------------------------------------------------------------------
(* The order of dispatch, of the tasks whose enqueue() is not overtaken.    *)

\* Sequence numbers come out of one counter, and a task whose callback runs to
\* completion holds the latest one while it is being entered.
OrderInv ==
  /\ \A t \in Task : seqOf[t] < nextSeq
  /\ \A t \in entering \ Suspending, s \in Task : s # t => seqOf[s] < seqOf[t]
  /\ NoQueueJumping

\* The dispatch loop takes the smallest entries, and the task that has just been
\* entered is behind all that run.
LEMMA DispatchKeepsOrder ==
  ASSUME SchedInv, OrderInv, DispatchShape
  PROVE  OrderInv'
<1>1. PICK q \in SUBSET Task, h \in SUBSET Task, r \in SUBSET Task :
        /\ q \subseteq queued \cup entering
        /\ q \cap running = {}
        /\ entering' \subseteq entering
        /\ Closing => q = {}
        /\ r \subseteq running
        /\ UNCHANGED <<nextSeq, seqOf>>
        /\ Dispatch(q, h, r)
  BY DEF DispatchShape
<1>2. PICK batch \in SUBSET q :
        /\ \A s \in batch, t \in q \ batch : Before(s, t)
        /\ queued' = q \ batch
        /\ running' = r \cup batch
  BY <1>1 DEF Dispatch, IsNextBatch
<1>3. ASSUME NEW s \in queued' \ Suspending, NEW t \in running', seqOf[s] < seqOf[t]
      PROVE  ~Fcfs /\ PriorityOf[t] < PriorityOf[s]
  <2>1. /\ seqOf[s] \in Nat /\ seqOf[t] \in Nat /\ s # t
        /\ s \in Task /\ t \in Task
    BY <1>1, <1>2, <1>3 DEF SchedInv, SchedTypeOK
  <2>2. CASE t \in batch
    BY <1>2, <1>3, <2>1, <2>2 DEF Before
  <2>3. CASE t \in running /\ s \in queued
    BY <1>3, <2>3 DEF OrderInv, NoQueueJumping
  <2>4. CASE t \in running /\ s \in entering
    BY <1>3, <2>1, <2>4 DEF OrderInv
  <2> QED
    BY <1>1, <1>2, <2>2, <2>3, <2>4
<1> QED
  BY <1>1, <1>3 DEF OrderInv, NoQueueJumping

\* The order survives every step: none comes between the two halves of an
\* enqueue() whose callback does not suspend.
LEMMA OrderStep ==
  SchedInv /\ OrderInv /\ [SchedNext]_schedVars => OrderInv'
<1> SUFFICES ASSUME SchedInv, OrderInv, [SchedNext]_schedVars
             PROVE  OrderInv'
  OBVIOUS
<1>1. CASE UNCHANGED schedVars
  BY <1>1 DEF OrderInv, NoQueueJumping, schedVars, queueVars
<1>2. ASSUME NEW t \in Task, EnqueueCommits(t) \/ CancelQueued(t) \/ ReleaseSlot(t)
      PROVE  OrderInv'
  <2>1. CASE DispatchShape
    BY <2>1, DispatchKeepsOrder
  <2>2. CASE Closing /\ EnqueueCommits(t)
    BY <2>2 DEF EnqueueCommits, OrderInv, NoQueueJumping
  <2> QED
    BY <1>2, <2>1, <2>2, ShapeOfCommit, ShapeOfCancel, ShapeOfRelease
<1>3. ASSUME NEW t \in Task, entering \subseteq Suspending, EnqueueBegins(t) \/ EnqueueRefused(t)
      PROVE  OrderInv'
  <2>1. /\ nextSeq' = nextSeq + 1 /\ nextSeq \in Nat
        /\ seqOf \in [Task -> Nat]
        /\ queued' = queued /\ running' = running
        /\ queued \cup running \subseteq Task \ {s \in Task : seqOf[s] = 0}
        /\ seqOf[t] = 0
    BY <1>3
    DEF EnqueueBegins, EnqueueRefused, SchedInv, SchedTypeOK, QueueAgreement,
        Provenance
  <2>2. CASE EnqueueBegins(t)
    <3>1. /\ entering' = entering \cup {t} /\ seqOf' = [seqOf EXCEPT ![t] = nextSeq]
          /\ t \notin queued \cup running
      BY <1>3, <2>1, <2>2 DEF EnqueueBegins
    <3>2. /\ \A s \in Task : seqOf[s] < nextSeq /\ seqOf[s] \in Nat
          /\ \A s \in Task : seqOf'[s] = IF s = t THEN nextSeq ELSE seqOf[s]
      BY <2>1, <3>1 DEF OrderInv
    <3>3. \A s \in Task : seqOf'[s] < nextSeq'
      BY <2>1, <3>2
    <3>4. \A e \in entering' \ Suspending, s \in Task : s # e => seqOf'[s] < seqOf'[e]
      BY <1>3, <3>1, <3>2
    <3>5. NoQueueJumping'
      <4> SUFFICES ASSUME NEW s \in queued \ Suspending, NEW r \in running,
                          seqOf'[s] < seqOf'[r]
                   PROVE  ~Fcfs /\ PriorityOf[r] < PriorityOf[s]
        BY <2>1 DEF NoQueueJumping
      <4>1. s # t /\ r # t /\ s \in Task /\ r \in Task
        BY <2>1, <3>1
      <4> QED
        BY <3>2, <4>1 DEF OrderInv, NoQueueJumping
    <3> QED
      BY <3>3, <3>4, <3>5 DEF OrderInv
  <2>3. CASE EnqueueRefused(t)
    BY <1>3, <2>1, <2>3 DEF EnqueueRefused, OrderInv, NoQueueJumping
  <2> QED
    BY <1>3, <2>2, <2>3
<1>4. ASSUME NEW t \in Task,
             \/ CancelRunning(t) \/ RunnerBegins(t) \/ RunnerInterrupted(t)
             \/ RunnerEnds(t) \/ DoneCallbacks(t)
      PROVE  OrderInv'
  BY <1>4
  DEF CancelRunning, RunnerBegins, RunnerInterrupted, RunnerEnds, DoneCallbacks,
      OrderInv, NoQueueJumping, queueVars
<1>5. CASE ShutdownBegins \/ ShutdownDrained \/ ShutdownReturns
  BY <1>5
  DEF ShutdownBegins, ShutdownDrained, ShutdownReturns, OrderInv, NoQueueJumping,
      queueVars
<1> QED
  BY <1>1, <1>2, <1>3, <1>4, <1>5 DEF SchedNext, SchedStep

\* A task overtakes an earlier one only with strictly better priority, never
\* under FCFS, if the on_enqueued callback of the earlier one does not suspend.
THEOREM NoQueueJumpingHolds == SchedSpec => []NoQueueJumping
<1>1. SchedInit => OrderInv
  BY SchedulerAssumption DEF SchedInit, OrderInv, NoQueueJumping
<1>2. OrderInv => NoQueueJumping
  BY DEF OrderInv
<1>3. SchedInv /\ OrderInv /\ [SchedNext]_schedVars => OrderInv'
  BY OrderStep
<1> QED
  BY <1>1, <1>2, <1>3, SchedInvariant, PTL DEF SchedSpec

-----------------------------------------------------------------------------
(* The registry, for every set of identifiers and every limit on attempts.  *)
(* RetryChains alone is not inductive: that a fresh record has no retry,     *)
(* and that a record exists exactly when it has an attempt number, come      *)
(* from RecordCoherent.                                                      *)

RegistryInv == RegistryTypeOK /\ RetryChains /\ RecordCoherent

\* The methods that write one record in place, seen together: the state moves
\* along ALLOWED_TRANSITIONS or stays, the identity of the record does not
\* change, and what it says about the past stays coherent.
Updates(t) ==
  /\ StateOf(t) \notin Terminal \cup {"absent"}
  /\ UNCHANGED retryChild
  /\ \E r \in Record :
       /\ record' = [record EXCEPT ![t] = r]
       /\ r.state # "absent"
       /\ r.attempt = record[t].attempt /\ r.retryOf = record[t].retryOf
       /\ r.routed \/ r.firstToken => r.state \in {"running"} \cup Terminal
       /\ r.error # "none" <=> r.state = "failed"

\* Every method but the two that create a record writes one record in place.
LEMMA UpdatesShape ==
  ASSUME RegistryInv, NEW t \in Task,
         \/ MarkEnqueued(t) \/ TryStart(t) \/ MarkRouted(t) \/ MarkFirstToken(t)
         \/ TryComplete(t) \/ TryCancel(t)
         \/ \E error \in ErrorType : TryFail(t, error)
         \/ \E next \in TaskState : Transition(t, next)
  PROVE  Updates(t)
<1> DEFINE r == record'[t]
<1>1. record[t] \in Record /\ record \in [Task -> Record]
  BY DEF RegistryInv, RegistryTypeOK
<1>2. /\ record[t].routed \/ record[t].firstToken =>
           record[t].state \in {"running"} \cup Terminal
      /\ record[t].error # "none" <=> record[t].state = "failed"
  BY DEF RegistryInv, RecordCoherent, StateOf
<1> DEFINE Shape ==
      /\ StateOf(t) \notin Terminal \cup {"absent"}
      /\ UNCHANGED retryChild
      /\ r \in Record
      /\ record' = [record EXCEPT ![t] = r]
      /\ r.state # "absent"
      /\ r.attempt = record[t].attempt /\ r.retryOf = record[t].retryOf
      /\ r.routed \/ r.firstToken => r.state \in {"running"} \cup Terminal
      /\ r.error # "none" <=> r.state = "failed"
<1>3. Shape
  <2> USE <1>1, <1>2 DEF Record, StateOf, Terminal, TaskState, AllowedTransitions
  <2>1. CASE MarkEnqueued(t)
    BY <2>1 DEF MarkEnqueued
  <2>2. CASE TryStart(t)
    BY <2>2 DEF TryStart, Startable
  <2>3. CASE MarkRouted(t)
    BY <2>3 DEF MarkRouted
  <2>4. CASE MarkFirstToken(t)
    BY <2>4 DEF MarkFirstToken
  <2>5. CASE TryComplete(t)
    BY <2>5 DEF TryComplete
  <2>6. CASE TryCancel(t)
    BY <2>6 DEF TryCancel
  <2>7. ASSUME NEW error \in ErrorType, TryFail(t, error)
        PROVE  Shape
    BY <2>7 DEF TryFail, ErrorType
  <2>8. ASSUME NEW next \in TaskState, Transition(t, next)
        PROVE  Shape
    <3>1. /\ record[t].state \in {"queued", "running"}
          /\ record[t].state = "queued" => next \in {"running", "cancelled"}
          /\ record[t].state = "running" => next \in Terminal
      <4>1. record[t].state \in
              {"absent", "queued", "running", "completed", "failed", "cancelled"}
        OBVIOUS
      <4>2. next \in AllowedTransitions[record[t].state]
        BY <2>8 DEF Transition
      <4> QED
        BY <4>1, <4>2
    <3>2. r = [record[t] EXCEPT !.state = next,
                                !.error = IF next = "failed" THEN "provider" ELSE @]
      BY <2>8 DEF Transition
    <3> QED
      BY <2>8, <3>1, <3>2 DEF Transition, ErrorType
  <2> QED
    BY <2>1, <2>2, <2>3, <2>4, <2>5, <2>6, <2>7, <2>8
<1> QED
  BY <1>3 DEF Updates

\* Writing a record in place keeps the invariant: no finished task is touched,
\* so the parent of a retry stays failed or cancelled.
LEMMA UpdatesKeepInv ==
  ASSUME RegistryInv, NEW t \in Task, Updates(t)
  PROVE  RegistryInv'
<1>1. PICK r \in Record :
        /\ record' = [record EXCEPT ![t] = r]
        /\ r.state # "absent"
        /\ r.attempt = record[t].attempt /\ r.retryOf = record[t].retryOf
        /\ r.routed \/ r.firstToken => r.state \in {"running"} \cup Terminal
        /\ r.error # "none" <=> r.state = "failed"
  BY DEF Updates
<1>2. /\ record \in [Task -> Record] /\ retryChild' = retryChild
      /\ StateOf(t) \notin Terminal \cup {"absent"}
  BY DEF RegistryInv, RegistryTypeOK, Updates
<1>3. RegistryTypeOK'
  BY <1>1, <1>2 DEF RegistryInv, RegistryTypeOK
<1>4. RecordCoherent'
  BY <1>1, <1>2 DEF RegistryInv, RecordCoherent, StateOf, Terminal
<1>5. RetryChains'
  <2> SUFFICES ASSUME NEW parent \in Task, NEW s \in Task
               PROVE  /\ record'[s].retryOf = parent <=> retryChild'[parent] = s
                      /\ record'[s].retryOf = parent =>
                           /\ record'[parent].state \in {"failed", "cancelled"}
                           /\ record'[s].attempt = record'[parent].attempt + 1
                           /\ record'[s].attempt <= MaxAttempts
    BY DEF RetryChains, StateOf
  <2>1. /\ record'[s].retryOf = record[s].retryOf
        /\ record'[s].attempt = record[s].attempt
        /\ record'[parent].attempt = record[parent].attempt
        /\ record[parent].state \in Terminal => record'[parent] = record[parent]
    BY <1>1, <1>2 DEF StateOf
  <2> QED
    BY <1>2, <2>1 DEF RegistryInv, RetryChains, StateOf, Terminal
<1> QED
  BY <1>3, <1>4, <1>5 DEF RegistryInv

\* A new record, a retry or not.
LEMMA CreationKeepsInv ==
  ASSUME RegistryInv, NEW t \in Task,
         Create(t) \/ \E parent \in Task : CreateRetry(parent, t)
  PROVE  RegistryInv'
<1> DEFINE Fresh(p, n) == [Blank EXCEPT !.state = "queued", !.attempt = n,
                                        !.retryOf = p]
<1>1. /\ record \in [Task -> Record]
      /\ retryChild \in [Task -> Task \cup {NoTask}]
  BY DEF RegistryInv, RegistryTypeOK
<1>2. ASSUME NEW p \in Task \cup {NoTask}, NEW n \in Nat \ {0}
      PROVE  /\ Fresh(p, n) \in Record
             /\ Fresh(p, n).state = "queued" /\ Fresh(p, n).attempt = n
             /\ Fresh(p, n).retryOf = p /\ Fresh(p, n).error = "none"
             /\ ~Fresh(p, n).routed /\ ~Fresh(p, n).firstToken
  BY DEF Blank, Record, TaskState, AllowedTransitions
<1> HIDE DEF Fresh
<1>0. \A u \in Task : /\ record[u].attempt \in Nat
                      /\ record[u].state = "absent" =>
                           /\ record[u].retryOf \notin Task
                           /\ \A v \in Task : record[v].retryOf # u
  <2>1. \A u \in Task : record[u].attempt \in Nat
    BY <1>1 DEF Record
  <2>2. ASSUME NEW u \in Task, record[u].state = "absent", NEW v \in Task
        PROVE  record[u].retryOf # v /\ record[v].retryOf # u
    <3>1. record[u].attempt = 0 /\ record[v].attempt \in Nat
      BY <2>1, <2>2 DEF RegistryInv, RecordCoherent, StateOf
    <3>2. /\ record[u].retryOf = v => record[u].attempt = record[v].attempt + 1
          /\ record[v].retryOf = u => record[u].state \in {"failed", "cancelled"}
      BY DEF RegistryInv, RetryChains, StateOf
    <3> QED
      BY <2>2, <3>1, <3>2
  <2> QED
    BY <2>1, <2>2
<1>3. CASE Create(t)
  <2>1. /\ record[t].state = "absent" /\ retryChild' = retryChild
        /\ record' = [record EXCEPT ![t] = Fresh(NoTask, 1)]
    BY <1>3 DEF Create, Created, StateOf, Fresh
  <2>2. /\ Fresh(NoTask, 1) \in Record
        /\ Fresh(NoTask, 1).state = "queued" /\ Fresh(NoTask, 1).attempt = 1
        /\ Fresh(NoTask, 1).retryOf = NoTask /\ Fresh(NoTask, 1).error = "none"
        /\ ~Fresh(NoTask, 1).routed /\ ~Fresh(NoTask, 1).firstToken
    BY <1>2
  <2>3. RegistryTypeOK' /\ RecordCoherent'
    BY <1>1, <2>1, <2>2
    DEF RegistryInv, RegistryTypeOK, RecordCoherent, StateOf
  <2>4. RetryChains'
    <3> SUFFICES ASSUME NEW q \in Task, NEW s \in Task
                 PROVE  /\ record'[s].retryOf = q <=> retryChild'[q] = s
                        /\ record'[s].retryOf = q =>
                             /\ record'[q].state \in {"failed", "cancelled"}
                             /\ record'[s].attempt = record'[q].attempt + 1
                             /\ record'[s].attempt <= MaxAttempts
      BY DEF RetryChains, StateOf
    <3>1. /\ record[s].retryOf = q <=> retryChild[q] = s
          /\ record[s].retryOf = q =>
               /\ record[q].state \in {"failed", "cancelled"}
               /\ record[s].attempt = record[q].attempt + 1
               /\ record[s].attempt <= MaxAttempts
      BY DEF RegistryInv, RetryChains, StateOf
    <3> QED
      BY <1>0, <1>1, <2>1, <2>2, <3>1, RegistryAssumption
  <2> QED
    BY <2>3, <2>4 DEF RegistryInv
<1>4. ASSUME NEW p \in Task, CreateRetry(p, t)
      PROVE  RegistryInv'
  <2> DEFINE n == record[p].attempt + 1
             f == Fresh(p, n)
  <2>1. /\ record[t].state = "absent" /\ p # t
        /\ record[p].state \in {"failed", "cancelled"} /\ retryChild[p] = NoTask
        /\ record' = [record EXCEPT ![t] = f]
        /\ retryChild' = [retryChild EXCEPT ![p] = t]
    BY <1>4 DEF CreateRetry, Created, StateOf, Fresh
  <2>2. n \in Nat \ {0} /\ n <= MaxAttempts /\ record[p].attempt \in Nat
    BY <1>1, <1>4, RegistryAssumption DEF CreateRetry, Record
  <2>3. /\ f \in Record /\ f.state = "queued" /\ f.attempt = n
        /\ f.retryOf = p /\ f.error = "none" /\ ~f.routed /\ ~f.firstToken
    BY <1>2, <2>2
  <2> HIDE DEF f
  <2>4. RegistryTypeOK' /\ RecordCoherent'
    BY <1>1, <2>1, <2>2, <2>3
    DEF RegistryInv, RegistryTypeOK, RecordCoherent, StateOf
  <2>5. RetryChains'
    <3> SUFFICES ASSUME NEW q \in Task, NEW s \in Task
                 PROVE  /\ record'[s].retryOf = q <=> retryChild'[q] = s
                        /\ record'[s].retryOf = q =>
                             /\ record'[q].state \in {"failed", "cancelled"}
                             /\ record'[s].attempt = record'[q].attempt + 1
                             /\ record'[s].attempt <= MaxAttempts
      BY DEF RetryChains, StateOf
    <3>1. /\ record[s].retryOf = q <=> retryChild[q] = s
          /\ record[s].retryOf = q =>
               /\ record[q].state \in {"failed", "cancelled"}
               /\ record[s].attempt = record[q].attempt + 1
               /\ record[s].attempt <= MaxAttempts
      BY DEF RegistryInv, RetryChains, StateOf
    <3> QED
      BY <1>0, <1>1, <2>1, <2>2, <2>3, <3>1, RegistryAssumption
  <2> QED
    BY <2>4, <2>5 DEF RegistryInv
<1> QED
  BY <1>3, <1>4

\* Every call of a method, and every stuttering step, keeps the invariant.
LEMMA RegistryStep == RegistryInv /\ [RegistryNext]_registryVars => RegistryInv'
<1> SUFFICES ASSUME RegistryInv, [RegistryNext]_registryVars PROVE RegistryInv'
  OBVIOUS
<1>1. CASE UNCHANGED registryVars
  BY <1>1
  DEF RegistryInv, RegistryTypeOK, RetryChains, RecordCoherent, StateOf,
      registryVars
<1>2. CASE RegistryNext
  BY <1>2, UpdatesShape, UpdatesKeepInv, CreationKeepsInv DEF RegistryNext
<1> QED
  BY <1>1, <1>2

\* It holds of an empty registry.
LEMMA RegistryInitInv == RegistryInit => RegistryInv
  BY RegistryAssumption
  DEF RegistryInit, RegistryInv, RegistryTypeOK, RetryChains, RecordCoherent,
      StateOf, Blank, Record, TaskState, AllowedTransitions

\* The inductive invariant of the registry.
THEOREM RegistryInvariant == RegistrySpec => []RegistryInv
  BY RegistryInitInv, RegistryStep, PTL DEF RegistrySpec

\* Retries form disjoint chains of at most MaxAttempts tasks, whatever calls are
\* made and in whatever order.
THEOREM RetryChainsHold == RegistrySpec => []RetryChains
  BY RegistryInvariant, PTL DEF RegistryInv

\* A record's provenance and error type agree with its state.
THEOREM RecordsCoherent == RegistrySpec => []RecordCoherent
  BY RegistryInvariant, PTL DEF RegistryInv

\* No call changes a terminal record.
THEOREM TerminalStaysFinal == RegistrySpec => TerminalIsFinal
<1> DEFINE Final == \A t \in Task : StateOf(t) \in Terminal => record'[t] = record[t]
<1>1. RegistryInv /\ [RegistryNext]_registryVars => [Final]_registryVars
  <2> SUFFICES ASSUME RegistryInv, RegistryNext,
                      NEW s \in Task, StateOf(s) \in Terminal
               PROVE  record'[s] = record[s]
    OBVIOUS
  <2>1. record \in [Task -> Record]
    BY DEF RegistryInv, RegistryTypeOK
  <2>2. ASSUME NEW t \in Task, Updates(t)
        PROVE  record'[s] = record[s]
    BY <2>1, <2>2 DEF Updates
  <2>3. ASSUME NEW t \in Task,
               Create(t) \/ \E parent \in Task : CreateRetry(parent, t)
        PROVE  record'[s] = record[s]
    BY <2>1, <2>3 DEF Create, CreateRetry, Created, Terminal, StateOf
  <2> QED
    BY <2>2, <2>3, UpdatesShape DEF RegistryNext
<1> QED
  BY <1>1, RegistryInvariant, PTL DEF RegistrySpec, TerminalIsFinal

-----------------------------------------------------------------------------
(* The runtime.                                                              *)

\* A record was entered exactly if it has a sequence number; a submission in
\* progress holds a queued record and is the only one; what waits in the queue
\* has a queued record.
AcceptanceAgrees ==
  /\ entering \subseteq {submitting}
  /\ submitting # NoTask =>
       /\ StateOf(submitting) = "queued"
       /\ record[submitting].enqueued => submitting \in entering
  /\ \A t \in Task :
       /\ record[t].enqueued <=> seqOf[t] # 0
       /\ record[t].enqueued => StateOf(t) # "absent"
       /\ t \in queued => StateOf(t) = "queued"

\* Only live handles are cancelled, and one that has not begun is either
\* untouched or about to end.
HandlesCoherent ==
  \A t \in Task :
    /\ t \in cancelRequested => handle[t] # "none"
    /\ t \in interrupted => handle[t] \in {"created", "running"}
    /\ t \in cancelRequested /\ handle[t] = "created" => t \in interrupted

\* A publication is scheduled, and awaited by an execution, only for an outcome;
\* a cancel request waits for a task that has one or is about to decide it.
OutcomesAgree ==
  /\ \A t \in Task : t \in outbox \/ exec[t] = "announcing" => StateOf(t) \in Terminal
  /\ \A c \in Canceller, t \in Task :
       cancelOf[c] = t => StateOf(t) \in {"running"} \cup Terminal

\* Whether the last event of the stream is a terminal one.
Closed(t) ==
  log[t] # <<>> /\ log[t][Len(log[t])] \in {"TASK_COMPLETED", "TASK_FAILED", "TASK_CANCELLED"}

\* The stream of a task without outcome, or with one whose publication has still
\* to run, is open.
StreamsOpen ==
  \A t \in Task : StateOf(t) \notin Terminal \/ t \in outbox => ~Closed(t)

ServiceInv ==
  /\ ExecutionAgreement
  /\ AcceptanceAgrees
  /\ HandlesCoherent
  /\ OutcomesAgree
  /\ StreamsOpen

RuntimeInv == SchedInv /\ RegistryInv /\ ServiceInv

-----------------------------------------------------------------------------
(* What the steps that run the dispatch loop do to the handles.             *)

\* enqueue() under the lock: some queued tasks, t perhaps among them, get a
\* handle; nothing starts when the scheduler is closing.
LEMMA CommitEffect ==
  ASSUME SchedInv, NEW t \in Task, EnqueueCommits(t)
  PROVE  /\ entering' = entering \ {t} /\ seqOf' = seqOf
         /\ cancelRequested' = cancelRequested /\ interrupted' = interrupted
         /\ \E batch \in SUBSET (queued \cup {t}) :
              /\ handle' = [u \in Task |-> IF u \in batch THEN "created" ELSE handle[u]]
              /\ queued' \subseteq (queued \cup {t}) \ batch
              /\ ~Closing => queued' = (queued \cup {t}) \ batch
<1>1. handle \in [Task -> HandleStage]
  BY DEF SchedInv, SchedTypeOK, HandleTypeOK
<1>2. CASE Closing
  <2>1. UNCHANGED <<queued, handle, cancelRequested, interrupted>>
    BY <1>2 DEF EnqueueCommits, handleVars
  <2>2. handle' = [u \in Task |-> IF u \in {} THEN "created" ELSE handle[u]]
    BY <1>1, <2>1
  <2>3. {} \in SUBSET (queued \cup {t}) /\ queued' \subseteq (queued \cup {t}) \ {}
    BY <2>1
  <2>4. UNCHANGED <<seqOf, cancelRequested, interrupted>> /\ entering' = entering \ {t}
    BY <2>1 DEF EnqueueCommits
  <2> QED
    BY <1>2, <2>2, <2>3, <2>4
<1>3. CASE ~Closing
  BY <1>3 DEF EnqueueCommits, Dispatch, StartHandles
<1> QED
  BY <1>2, <1>3

\* cancel_queued(): other queued tasks may get a handle, t does not.
LEMMA CancelEffect ==
  ASSUME SchedInv, NEW t \in Task, CancelQueued(t)
  PROVE  /\ UNCHANGED <<entering, seqOf, cancelRequested, interrupted>>
         /\ \E batch \in SUBSET (queued \ {t}) :
              /\ handle' = [u \in Task |-> IF u \in batch THEN "created" ELSE handle[u]]
              /\ queued' = (queued \ {t}) \ batch
<1>1. ~Closing
  BY DEF SchedInv, Provenance, CancelQueued
<1> QED
  BY <1>1 DEF CancelQueued, Dispatch, StartHandles

\* _release_slot(): queued tasks may get a handle.
LEMMA ReleaseEffect ==
  ASSUME SchedInv, NEW t \in Task, ReleaseSlot(t)
  PROVE  /\ UNCHANGED <<entering, seqOf, cancelRequested, interrupted>>
         /\ \E batch \in SUBSET queued :
              /\ handle' = [u \in Task |-> IF u \in batch THEN "created" ELSE handle[u]]
              /\ queued' = queued \ batch
<1>1. handle \in [Task -> HandleStage]
  BY DEF SchedInv, SchedTypeOK, HandleTypeOK
<1>2. CASE Closing
  <2>1. UNCHANGED <<queued, handle, cancelRequested, interrupted>>
    BY <1>2 DEF ReleaseSlot, Dispatch, handleVars
  <2>2. handle' = [u \in Task |-> IF u \in {} THEN "created" ELSE handle[u]]
    BY <1>1, <2>1
  <2> QED
    BY <1>2, <2>1, <2>2 DEF ReleaseSlot
<1>3. CASE ~Closing
  BY <1>3 DEF ReleaseSlot, Dispatch, StartHandles
<1> QED
  BY <1>2, <1>3

-----------------------------------------------------------------------------
(* The Runtime uses its parts as they are specified.                        *)

\* A task that a handle stands for was entered, is in no queue and is not
\* being entered.
LEMMA HandledAreEntered ==
  ASSUME SchedInv, NEW t \in Task, handle[t] # "none"
  PROVE  t \in running /\ seqOf[t] # 0 /\ t \notin queued \cup entering \cup discarded
  BY DEF SchedInv, SlotAccounting, Provenance, QueueAgreement

\* Outside a submission nothing is being entered.
LEMMA NothingEntering ==
  ASSUME RuntimeInv, submitting = NoTask
  PROVE  entering = {}
  BY RegistryAssumption
  DEF RuntimeInv, ServiceInv, AcceptanceAgrees, SchedInv, SchedTypeOK

\* Every step of the Runtime is a step of the scheduler's specification, or
\* leaves the scheduler alone, or draws a sequence number (without TLC's bound).
LEMMA UsesScheduler ==
  ASSUME RuntimeInv, [RuntimeNext]_runtimeVars
  PROVE  [SchedNext]_schedVars \/ (entering = {} /\ \E t \in Task : EnqueueRefused(t))
<1>1. CASE UNCHANGED runtimeVars
  BY <1>1 DEF runtimeVars
<1>2. ASSUME NEW t \in Task,
             \/ EnqueueAccepted(t) \/ EnqueueDone(t) \/ EnqueueFailsClosing(t)
             \/ EnqueueFailsClock(t)
      PROVE  [SchedNext]_schedVars \/ (entering = {} /\ \E u \in Task : EnqueueRefused(u))
  <2>1. EnqueueAccepted(t) => entering = {}
    BY DEF RuntimeInv, ServiceInv, SchedInv, Provenance, AcceptanceAgrees, EnqueueAccepted,
           EnqueueBegins, SchedTypeOK
  <2>2. EnqueueFailsClock(t) => entering = {}
    BY DEF RuntimeInv, ServiceInv, SchedInv, Provenance, AcceptanceAgrees,
           EnqueueFailsClock, EnqueueRefused, SchedTypeOK
  <2>3. EnqueueDone(t) => entering \subseteq {t}
    BY DEF RuntimeInv, ServiceInv, SchedInv, AcceptanceAgrees, EnqueueDone, SchedTypeOK
  <2> QED
    BY <1>2, <2>1, <2>2, <2>3
    DEF EnqueueAccepted, EnqueueDone, EnqueueFailsClosing, EnqueueFailsClock,
        SchedNext, SchedStep
<1>3. CASE submitting = NoTask /\ Turn
  <2>1. SchedStep => SchedNext
    BY <1>3, NothingEntering DEF SchedNext
  <2>2. ASSUME NEW t \in Task,
               \/ SubmitTask(t) \/ \E parent \in Task : SubmitRetry(parent, t)
               \/ Route(t) \/ Receive(t) \/ Answer(t) \/ ExecFails(t)
               \/ PublishTerminal(t) \/ Sweep(t)
        PROVE  UNCHANGED schedVars
    BY <2>2 DEF SubmitTask, SubmitRetry, Route, Receive, Answer, ExecFails,
                PublishTerminal, Sweep
  <2>3. ASSUME NEW t \in Task, NEW c \in Canceller,
               CancelQueuedTask(c, t) \/ CancelRunningTask(c, t)
        PROVE  SchedStep
    BY <2>3 DEF CancelQueuedTask, CancelRunningTask, SchedStep
  <2>4. ASSUME NEW t \in Task, ExecBegins(t)
        PROVE  SchedStep
    BY <2>4 DEF ExecBegins, SchedStep, RuntimeInv, ServiceInv, ExecutionAgreement,
                DispatchedIsStartable
  <2>5. ASSUME NEW t \in Task, ExecStillborn(t) \/ ExecInterrupted(t)
        PROVE  SchedStep
    BY <2>5 DEF ExecStillborn, ExecInterrupted, SchedStep
  <2>6. ASSUME NEW t \in Task, ExecFinishes(t)
        PROVE  SchedStep
    BY <2>6 DEF ExecFinishes, SchedStep, RunnerEnds, RuntimeInv, ServiceInv,
                ExecutionAgreement
  <2>7. ASSUME NEW c \in Canceller, CancelReturns(c)
        PROVE  UNCHANGED schedVars
    BY <2>7 DEF CancelReturns
  <2>8. CASE SchedulerTurn
    BY <2>1, <2>8 DEF SchedulerTurn, SchedStep
  <2> QED
    BY <1>3, <2>1, <2>2, <2>3, <2>4, <2>5, <2>6, <2>7, <2>8 DEF Turn
<1> QED
  BY <1>1, <1>2, <1>3 DEF RuntimeNext

\* Every step of the Runtime is one call of a registry method, or none.
LEMMA UsesRegistry ==
  ASSUME RuntimeInv, [RuntimeNext]_runtimeVars
  PROVE  [RegistryNext]_registryVars
<1>1. CASE UNCHANGED runtimeVars
  BY <1>1 DEF runtimeVars
<1>2. ASSUME NEW t \in Task,
             \/ EnqueueAccepted(t) \/ EnqueueDone(t) \/ EnqueueFailsClosing(t)
             \/ EnqueueFailsClock(t)
      PROVE  [RegistryNext]_registryVars
  BY <1>2 DEF EnqueueAccepted, EnqueueDone, EnqueueFailsClosing,
              EnqueueFailsClock, RegistryNext
<1>3. CASE submitting = NoTask /\ Turn
  <2>1. ASSUME NEW t \in Task,
               \/ SubmitTask(t) \/ \E parent \in Task : SubmitRetry(parent, t)
               \/ \E c \in Canceller : CancelQueuedTask(c, t) \/ CancelRunningTask(c, t)
               \/ ExecBegins(t) \/ ExecStillborn(t) \/ Route(t) \/ Receive(t)
               \/ Answer(t) \/ ExecInterrupted(t) \/ ExecFinishes(t)
               \/ PublishTerminal(t) \/ Sweep(t)
        PROVE  [RegistryNext]_registryVars
    BY <2>1
    DEF SubmitTask, SubmitRetry, CancelQueuedTask, CancelRunningTask, ExecBegins,
        ExecStillborn, Route, Receive, Answer, ExecInterrupted, ExecFinishes,
        PublishTerminal, Sweep, RegistryNext
  <2>2. ASSUME NEW t \in Task, ExecFails(t)
        PROVE  [RegistryNext]_registryVars
    BY <2>2 DEF ExecFails, FailureAt, ErrorType, RegistryNext
  <2>3. ASSUME NEW c \in Canceller, CancelReturns(c)
        PROVE  UNCHANGED registryVars
    BY <2>3 DEF CancelReturns
  <2>4. CASE SchedulerTurn
    BY <2>4 DEF SchedulerTurn
  <2> QED
    BY <1>3, <2>1, <2>2, <2>3, <2>4 DEF Turn
<1> QED
  BY <1>1, <1>2, <1>3 DEF RuntimeNext

-----------------------------------------------------------------------------
(* ServiceInv, action by action.                                           *)

\* An event that is published is the last of its stream; it closes the stream
\* exactly if it is a terminal one, and the other streams stay as they are.
LEMMA PublishEffect ==
  ASSUME log \in [Task -> Seq(Event)], NEW t \in Task, NEW event \in Event,
         log' = [log EXCEPT ![t] = Append(log[t], event)]
  PROVE  /\ log' \in [Task -> Seq(Event)]
         /\ \A u \in Task \ {t} : log'[u] = log[u]
         /\ log'[t] # <<>> /\ log'[t][Len(log'[t])] = event
<1>1. log[t] \in Seq(Event) /\ log'[t] = Append(log[t], event)
  OBVIOUS
<1>2. /\ Append(log[t], event) \in Seq(Event)
      /\ Len(Append(log[t], event)) = Len(log[t]) + 1
      /\ Append(log[t], event)[Len(log[t]) + 1] = event
      /\ Append(log[t], event) # <<>>
  BY <1>1
<1>3. log' \in [Task -> Seq(Event)]
  BY <1>2
<1> QED
  BY <1>1, <1>2, <1>3

\* POST handlers: the record is written.
LEMMA SubmissionKeeps ==
  ASSUME RuntimeInv, SchedTypeOK', RegistryTypeOK', submitting = NoTask,
         NEW t \in Task, SubmitTask(t) \/ \E parent \in Task : SubmitRetry(parent, t)
  PROVE  ServiceInv'
<1>1. /\ record[t].state = "absent" /\ submitting' = t
      /\ \E parent, n : record' = [record EXCEPT ![t] =
                                     [Blank EXCEPT !.state = "queued", !.attempt = n,
                                                   !.retryOf = parent]]
  BY DEF SubmitTask, SubmitRetry, Create, CreateRetry, Created, StateOf
<1>2. /\ record'[t].state = "queued" /\ record'[t].enqueued = FALSE
      /\ \A u \in Task \ {t} : record'[u] = record[u]
  BY <1>1 DEF RuntimeInv, RegistryInv, RegistryTypeOK, Blank
<1>3. UNCHANGED <<handle, interrupted, cancelRequested, entering, queued, seqOf, exec,
                  leases, outbox, log, cancelOf, swept, sweeping>>
  BY DEF SubmitTask, SubmitRetry, schedVars, handleVars, queueVars, execVars, eventVars,
         sweepVars
<1>4. entering = {}
  BY NothingEntering
<1> USE <1>1, <1>2, <1>3 DEF RuntimeInv, ServiceInv, StateOf
<1>5. RuntimeTypeOK'
  BY DEF ExecutionAgreement, RuntimeTypeOK
<1>6. ExecutionAgreement'
  BY <1>5 DEF ExecutionAgreement, DispatchedIsStartable, Startable, Executing
<1>7. AcceptanceAgrees'
  BY <1>4, RegistryAssumption DEF AcceptanceAgrees, SchedInv, SchedTypeOK
<1>8. HandlesCoherent' /\ OutcomesAgree'
  BY DEF HandlesCoherent, OutcomesAgree, Terminal
<1>9. StreamsOpen'
  BY DEF StreamsOpen, Closed, OutcomesAgree, Terminal
<1> QED
  BY <1>6, <1>7, <1>8, <1>9

\* enqueue(): the callback accepts the item.
LEMMA AcceptedKeeps ==
  ASSUME RuntimeInv, SchedTypeOK', RegistryTypeOK', NEW t \in Task, EnqueueAccepted(t)
  PROVE  ServiceInv'
<1>1. /\ submitting = t /\ record[t].state = "queued" /\ seqOf[t] = 0 /\ seqOf'[t] # 0
      /\ record'[t].state = "queued" /\ record'[t].enqueued = TRUE
      /\ \A u \in Task \ {t} : record'[u] = record[u] /\ seqOf'[u] = seqOf[u]
      /\ entering' = entering \cup {t}
  BY DEF EnqueueAccepted, EnqueueBegins, MarkEnqueued, StateOf, RuntimeInv, RegistryInv,
         RegistryTypeOK, SchedInv, SchedTypeOK
<1>2. UNCHANGED <<handle, interrupted, cancelRequested, queued, submitting, exec, leases,
                  outbox, cancelOf, swept, sweeping>>
  BY DEF EnqueueAccepted, EnqueueBegins, handleVars, execVars, sweepVars
<1> USE <1>1, <1>2 DEF RuntimeInv, ServiceInv, StateOf
<1>3. /\ log' \in [Task -> Seq(Event)]
      /\ \A u \in Task \ {t} : log'[u] = log[u]
      /\ log'[t][Len(log'[t])] = "TASK_QUEUED"
  BY PublishEffect, "TASK_QUEUED" \in Event
  DEF Event, ExecutionAgreement, RuntimeTypeOK, EnqueueAccepted, Publish
<1>4. RuntimeTypeOK'
  BY <1>3 DEF ExecutionAgreement, RuntimeTypeOK
<1>5. ExecutionAgreement'
  BY <1>4 DEF ExecutionAgreement, DispatchedIsStartable, Startable, Executing
<1>6. AcceptanceAgrees'
  BY DEF AcceptanceAgrees
<1>7. HandlesCoherent' /\ OutcomesAgree'
  BY DEF HandlesCoherent, OutcomesAgree, Terminal
<1>8. StreamsOpen'
  BY <1>3 DEF StreamsOpen, Closed, Terminal
<1> QED
  BY <1>5, <1>6, <1>7, <1>8

\* enqueue(): it raises.
LEMMA RefusedKeeps ==
  ASSUME RuntimeInv, SchedTypeOK', RegistryTypeOK', NEW t \in Task,
         EnqueueFailsClosing(t) \/ EnqueueFailsClock(t)
  PROVE  ServiceInv'
<1>1. submitting = t /\ submitting' = NoTask /\ t \notin entering
  BY DEF EnqueueFailsClosing, EnqueueFailsClock, EnqueueRefused, RuntimeInv, SchedInv,
         Provenance
<1>2. UNCHANGED <<record, handle, interrupted, cancelRequested, seqOf, entering, queued,
                  exec, leases, outbox, log, cancelOf, swept, sweeping>>
  BY DEF EnqueueFailsClosing, EnqueueFailsClock, EnqueueRefused, schedVars, queueVars,
         registryVars, handleVars, execVars, eventVars, sweepVars
<1> USE <1>1, <1>2 DEF RuntimeInv, ServiceInv, StateOf
<1>3. ExecutionAgreement'
  BY DEF ExecutionAgreement, RuntimeTypeOK, DispatchedIsStartable, Startable, Executing
<1>4. AcceptanceAgrees'
  BY DEF AcceptanceAgrees
<1>5. HandlesCoherent' /\ OutcomesAgree' /\ StreamsOpen'
  BY DEF HandlesCoherent, OutcomesAgree, StreamsOpen, Closed
<1> QED
  BY <1>3, <1>4, <1>5

\* What waits in the queue or is being entered has no handle and can be started.
LEMMA QueuedAreStartable ==
  ASSUME RuntimeInv
  PROVE  \A t \in queued \cup entering :
           /\ t \in Task /\ handle[t] = "none"
           /\ StateOf(t) = "queued" /\ record[t].enqueued
           /\ t \notin cancelRequested \cup interrupted
  BY RegistryAssumption
  DEF RuntimeInv, ServiceInv, SchedInv, SchedTypeOK, SlotAccounting, QueueAgreement,
      Provenance, AcceptanceAgrees, HandlesCoherent

\* A batch of handles for queued tasks disturbs nothing, as long as the records
\* stay as they are.
LEMMA BatchKeeps ==
  ASSUME RuntimeInv, SchedTypeOK', UNCHANGED <<record, retryChild>>,
         UNCHANGED <<cancelRequested, interrupted, seqOf>>,
         UNCHANGED <<execVars, eventVars, cancelOf, sweepVars>>,
         \E batch \in SUBSET (queued \cup entering) :
           /\ handle' = [u \in Task |-> IF u \in batch THEN "created" ELSE handle[u]]
           /\ queued' \subseteq (queued \cup entering) \ batch,
         entering' \subseteq {submitting'}, submitting' \in Task \cup {NoTask},
         submitting' # NoTask => submitting' = submitting /\ entering' = entering
  PROVE  ServiceInv'
<1>1. PICK batch \in SUBSET (queued \cup entering) :
        /\ handle' = [u \in Task |-> IF u \in batch THEN "created" ELSE handle[u]]
        /\ queued' \subseteq (queued \cup entering) \ batch
  OBVIOUS
<1>2. UNCHANGED <<exec, leases, outbox, log, cancelOf, swept, sweeping>>
  BY DEF execVars, eventVars, sweepVars
<1>3. /\ \A u \in batch : /\ handle[u] = "none" /\ record[u].state = "queued"
                          /\ record[u].enqueued /\ u \notin cancelRequested \cup interrupted
      /\ \A u \in Task : handle'[u] = IF u \in batch THEN "created" ELSE handle[u]
      /\ \A u \in queued' : record[u].state = "queued"
  BY <1>1, QueuedAreStartable DEF StateOf
<1> USE <1>2, <1>3 DEF RuntimeInv, ServiceInv, StateOf
<1>4. RuntimeTypeOK'
  BY DEF ExecutionAgreement, RuntimeTypeOK, RegistryTypeOK
<1>5. ExecutionAgreement'
  BY <1>4 DEF ExecutionAgreement, DispatchedIsStartable, Startable, Executing
<1>6. AcceptanceAgrees'
  BY DEF AcceptanceAgrees
<1>7. HandlesCoherent'
  BY DEF HandlesCoherent
<1>8. OutcomesAgree' /\ StreamsOpen'
  BY DEF OutcomesAgree, StreamsOpen, Closed
<1> QED
  BY <1>5, <1>6, <1>7, <1>8

\* enqueue(): the item goes into the queue and the handler answers.
LEMMA CommittedKeeps ==
  ASSUME RuntimeInv, SchedTypeOK', NEW t \in Task, EnqueueDone(t)
  PROVE  ServiceInv'
<1>1. EnqueueCommits(t) /\ t \in entering /\ entering = {t} /\ submitting' = NoTask
  BY DEF EnqueueDone, EnqueueCommits, RuntimeInv, ServiceInv, AcceptanceAgrees
<1>2. /\ entering' = {}
      /\ UNCHANGED <<cancelRequested, interrupted, seqOf>>
      /\ \E batch \in SUBSET (queued \cup entering) :
           /\ handle' = [u \in Task |-> IF u \in batch THEN "created" ELSE handle[u]]
           /\ queued' \subseteq (queued \cup entering) \ batch
  BY <1>1, CommitEffect DEF RuntimeInv
<1>3. /\ UNCHANGED <<record, retryChild>>
      /\ UNCHANGED <<execVars, eventVars, cancelOf, sweepVars>>
  BY DEF EnqueueDone, registryVars
<1> QED
  BY <1>1, <1>2, <1>3, BatchKeeps

\* Asking for handles to be cancelled marks the live ones, so one that has not
\* begun will end without beginning.
LEMMA CancelRequestKeeps ==
  ASSUME RuntimeInv, NEW targets \in SUBSET Task, RequestCancel(targets)
  PROVE  /\ handle' = handle
         /\ HandlesCoherent'
         /\ interrupted \subseteq interrupted'
         /\ \A t \in targets : handle[t] = "created" => t \in interrupted'
  BY DEF RequestCancel, HandlesCoherent, Unfinished, RuntimeInv, ServiceInv

\* POST cancel for a queued record: it leaves the queue, or its handle is
\* cancelled before it has begun.
LEMMA CancelQueuedKeeps ==
  ASSUME RuntimeInv, SchedTypeOK', RegistryTypeOK', submitting = NoTask,
         NEW t \in Task, NEW c \in Canceller, CancelQueuedTask(c, t)
  PROVE  ServiceInv'
<1>1. /\ record[t].state = "queued" /\ record'[t].state = "cancelled"
      /\ record'[t].enqueued = record[t].enqueued
      /\ \A u \in Task \ {t} : record'[u] = record[u]
      /\ outbox' = outbox \cup {t} /\ cancelOf' = [cancelOf EXCEPT ![c] = t]
  BY DEF CancelQueuedTask, TryCancel, ScheduleTerminal, StateOf, RuntimeInv, RegistryInv,
         RegistryTypeOK
<1>2. UNCHANGED <<submitting, exec, leases, log, swept, sweeping>>
  BY DEF CancelQueuedTask, ScheduleTerminal, execVars, sweepVars
<1>3. /\ UNCHANGED <<entering, seqOf>>
      /\ HandlesCoherent'
      /\ interrupted \subseteq interrupted'
      /\ \A u \in Task : handle[u] # "none" => handle'[u] = handle[u]
      /\ \A u \in Task : handle'[u] = "created" /\ u \notin interrupted' =>
           u # t /\ (handle[u] = "created" \/ u \in queued)
      /\ queued' \subseteq queued \ {t}
  <2>1. CASE t \in queued
    <3>1. CancelQueued(t)
      BY <2>1 DEF CancelQueuedTask
    <3>2. UNCHANGED <<entering, seqOf, cancelRequested, interrupted>>
      BY <3>1, CancelEffect DEF RuntimeInv
    <3>3. PICK batch \in SUBSET (queued \ {t}) :
            /\ handle' = [u \in Task |-> IF u \in batch THEN "created" ELSE handle[u]]
            /\ queued' = (queued \ {t}) \ batch
      BY <3>1, CancelEffect DEF RuntimeInv
    <3>4. /\ \A u \in Task : handle'[u] = IF u \in batch THEN "created" ELSE handle[u]
          /\ \A u \in batch : handle[u] = "none" /\ u \notin cancelRequested \cup interrupted
          /\ handle[t] = "none"
      BY <2>1, <3>3, QueuedAreStartable
    <3>5. HandlesCoherent'
      BY <3>2, <3>4 DEF HandlesCoherent, RuntimeInv, ServiceInv
    <3> QED
      BY <3>2, <3>3, <3>4, <3>5
  <2>2. CASE t \notin queued
    <3>1. RequestCancel({t}) /\ UNCHANGED queueVars
      BY <2>2 DEF CancelQueuedTask, CancelRunning
    <3>2. /\ handle' = handle /\ HandlesCoherent' /\ interrupted \subseteq interrupted'
          /\ handle[t] = "created" => t \in interrupted'
      BY <3>1, CancelRequestKeeps
    <3> QED
      BY <2>2, <3>1, <3>2 DEF queueVars
  <2> QED
    BY <2>1, <2>2
<1> USE <1>1, <1>2, <1>3 DEF RuntimeInv, ServiceInv, StateOf
<1>4. RuntimeTypeOK'
  BY DEF ExecutionAgreement, RuntimeTypeOK
<1>5. DispatchedIsStartable'
  BY QueuedAreStartable DEF ExecutionAgreement, DispatchedIsStartable, Startable
<1>6. ExecutionAgreement'
  BY <1>4, <1>5 DEF ExecutionAgreement, Executing
<1>7. AcceptanceAgrees'
  BY DEF AcceptanceAgrees
<1>8. OutcomesAgree'
  BY DEF OutcomesAgree, Terminal, ExecutionAgreement, RuntimeTypeOK
<1>9. StreamsOpen'
  BY DEF StreamsOpen, Closed, Terminal
<1> QED
  BY <1>3, <1>6, <1>7, <1>8, <1>9

\* POST cancel for a running record: only the handle is told.
LEMMA CancelRunningKeeps ==
  ASSUME RuntimeInv, SchedTypeOK', NEW t \in Task, NEW c \in Canceller,
         CancelRunningTask(c, t)
  PROVE  ServiceInv'
<1>1. record[t].state = "running" /\ cancelOf' = [cancelOf EXCEPT ![c] = t]
  BY DEF CancelRunningTask, StateOf
<1>2. UNCHANGED <<record, retryChild, entering, seqOf, queued, submitting, exec, leases,
                  outbox, log, swept, sweeping>>
  BY DEF CancelRunningTask, CancelRunning, registryVars, queueVars, execVars, eventVars,
         sweepVars
<1>3. handle' = handle /\ HandlesCoherent' /\ interrupted \subseteq interrupted'
  BY CancelRequestKeeps DEF CancelRunningTask, CancelRunning
<1> USE <1>1, <1>2, <1>3 DEF RuntimeInv, ServiceInv, StateOf
<1>4. ExecutionAgreement'
  BY DEF ExecutionAgreement, RuntimeTypeOK, RegistryTypeOK, DispatchedIsStartable,
         Startable, Executing
<1>5. AcceptanceAgrees' /\ StreamsOpen'
  BY DEF AcceptanceAgrees, StreamsOpen, Closed
<1>6. OutcomesAgree'
  BY DEF OutcomesAgree, ExecutionAgreement, RuntimeTypeOK
<1> QED
  BY <1>3, <1>4, <1>5, <1>6

\* A cancel request is answered.
LEMMA CancelReturnsKeeps ==
  ASSUME RuntimeInv, NEW c \in Canceller, CancelReturns(c)
  PROVE  ServiceInv'
<1>1. /\ cancelOf' = [cancelOf EXCEPT ![c] = NoTask]
      /\ UNCHANGED <<schedVars, registryVars, submitting, exec, leases, outbox, log, swept,
                     sweeping>>
  BY DEF CancelReturns, execVars, eventVars, sweepVars
<1>2. UNCHANGED <<handle, cancelRequested, interrupted, entering, queued, seqOf, record,
                  retryChild>> /\ SchedTypeOK' /\ RegistryTypeOK'
  BY <1>1 DEF schedVars, registryVars, handleVars, queueVars, shutdownVars, SchedTypeOK,
              HandleTypeOK, RuntimeInv, RegistryInv, SchedInv, RegistryTypeOK
<1> USE <1>1, <1>2 DEF RuntimeInv, ServiceInv, StateOf
<1>3. ExecutionAgreement'
  BY DEF ExecutionAgreement, RuntimeTypeOK, DispatchedIsStartable, Startable, Executing
<1>4. AcceptanceAgrees' /\ StreamsOpen' /\ HandlesCoherent'
  BY DEF AcceptanceAgrees, StreamsOpen, Closed, HandlesCoherent
<1>5. OutcomesAgree'
  BY RegistryAssumption DEF OutcomesAgree, ExecutionAgreement, RuntimeTypeOK
<1> QED
  BY <1>3, <1>4, <1>5

\* The records are records with the fields the registry gives them.
LEMMA RecordsTyped ==
  ASSUME RuntimeInv
  PROVE  /\ record \in [Task -> Record]
         /\ \A t \in Task : DOMAIN record[t] = {"state", "attempt", "retryOf", "enqueued",
                                               "routed", "firstToken", "error"}
  BY DEF RuntimeInv, RegistryInv, RegistryTypeOK, Record

\* Likewise for the handles and where the coroutines are suspended.
LEMMA StagesTyped ==
  ASSUME RuntimeInv
  PROVE  /\ handle \in [Task -> HandleStage]
         /\ exec \in [Task -> {"idle", "routing", "streaming", "announcing"}]
  BY DEF RuntimeInv, SchedInv, SchedTypeOK, HandleTypeOK, ServiceInv, ExecutionAgreement,
         RuntimeTypeOK

\* The coroutine's first step.  The task can be started: what was cancelled
\* before has its handle cancelled too.
LEMMA BeginsKeeps ==
  ASSUME RuntimeInv, SchedTypeOK', RegistryTypeOK', submitting = NoTask,
         NEW t \in Task, ExecBegins(t)
  PROVE  ServiceInv'
<1>1. Startable(t) /\ handle[t] = "created" /\ t \notin interrupted
  BY DEF ExecBegins, HandleBegins, RunnerBegins, RuntimeInv, ServiceInv,
         ExecutionAgreement, DispatchedIsStartable
<1>2. /\ record[t].state = "queued" /\ record'[t].state = "running"
      /\ record'[t].enqueued = record[t].enqueued
      /\ \A u \in Task \ {t} : record'[u] = record[u]
  <2>1. TryStart(t)
    BY <1>1 DEF ExecBegins
  <2> QED
    BY <2>1, RecordsTyped DEF TryStart, Startable, StateOf
<1>3. /\ handle'[t] = "running" /\ \A u \in Task \ {t} : handle'[u] = handle[u]
      /\ exec'[t] = "routing" /\ \A u \in Task \ {t} : exec'[u] = exec[u]
      /\ exec' \in [Task -> {"idle", "routing", "streaming", "announcing"}]
  BY <1>1, StagesTyped DEF ExecBegins, RunnerBegins, HandleBegins
<1>4. UNCHANGED <<submitting, leases, outbox, cancelOf, swept, sweeping, cancelRequested,
                  interrupted, entering, queued, seqOf>>
  BY <1>1 DEF ExecBegins, sweepVars, RunnerBegins, HandleBegins, queueVars
<1>5. t \notin queued /\ entering = {}
  BY <1>1, QueuedAreStartable, NothingEntering
<1> USE <1>1, <1>2, <1>3, <1>4 DEF RuntimeInv, ServiceInv, StateOf
<1>6. /\ log' \in [Task -> Seq(Event)]
      /\ \A u \in Task \ {t} : log'[u] = log[u]
      /\ log'[t][Len(log'[t])] = "TASK_STARTED"
  BY PublishEffect, "TASK_STARTED" \in Event
  DEF Event, ExecutionAgreement, RuntimeTypeOK, ExecBegins, Publish
<1>7. RuntimeTypeOK'
  BY <1>6 DEF ExecutionAgreement, RuntimeTypeOK
<1>8. ExecutionAgreement'
  BY <1>7 DEF ExecutionAgreement, DispatchedIsStartable, Startable, Executing
<1>9. AcceptanceAgrees'
  BY <1>5 DEF AcceptanceAgrees
<1>10. HandlesCoherent' /\ OutcomesAgree'
  BY DEF HandlesCoherent, OutcomesAgree, Terminal
<1>11. StreamsOpen'
  BY <1>6 DEF StreamsOpen, Closed, Terminal
<1> QED
  BY <1>8, <1>9, <1>10, <1>11

\* A handle cancelled before its first step ends; an execution whose outcome is
\* announced ends.
LEMMA EndsKeeps ==
  ASSUME RuntimeInv, SchedTypeOK', RegistryTypeOK', NEW t \in Task,
         ExecStillborn(t) \/ ExecFinishes(t)
  PROVE  ServiceInv'
<1>1. /\ handle'[t] = "done" /\ \A u \in Task \ {t} : handle'[u] = handle[u]
      /\ interrupted' = interrupted \ {t} /\ cancelRequested' = cancelRequested
  BY StagesTyped DEF ExecStillborn, RunnerEnds, ExecFinishes, HandleEnds
<1>0. /\ record[t].state # "running"
      /\ exec' \in [Task -> {"idle", "routing", "streaming", "announcing"}]
      /\ exec'[t] = "idle" /\ \A u \in Task \ {t} : exec'[u] = exec[u]
  <2>1. CASE ExecStillborn(t)
    BY <2>1, StagesTyped
    DEF ExecStillborn, execVars, RuntimeInv, ServiceInv, ExecutionAgreement, Executing,
        StateOf
  <2>2. CASE ExecFinishes(t)
    BY <2>2, StagesTyped
    DEF ExecFinishes, RuntimeInv, ServiceInv, OutcomesAgree, Terminal, StateOf
  <2> QED
    BY <2>1, <2>2
<1>2. UNCHANGED <<record, submitting, leases, outbox, log, cancelOf, swept, sweeping,
                  entering, queued, seqOf>>
  BY DEF ExecStillborn, ExecFinishes, RunnerEnds, registryVars, execVars, eventVars,
         sweepVars, queueVars
<1> USE <1>0, <1>1, <1>2 DEF RuntimeInv, ServiceInv, StateOf
<1>3. RuntimeTypeOK'
  BY DEF ExecutionAgreement, RuntimeTypeOK
<1>4. ExecutionAgreement'
  BY <1>3
  DEF ExecutionAgreement, DispatchedIsStartable, Startable, Executing
<1>5. AcceptanceAgrees' /\ StreamsOpen' /\ HandlesCoherent'
  BY DEF AcceptanceAgrees, StreamsOpen, Closed, HandlesCoherent
<1>6. OutcomesAgree'
  BY DEF OutcomesAgree
<1> QED
  BY <1>4, <1>5, <1>6

\* The coroutine goes on: a worker is leased, a piece of the answer arrives.
LEMMA ProgressKeeps ==
  ASSUME RuntimeInv, SchedTypeOK', RegistryTypeOK', submitting = NoTask,
         NEW t \in Task, Route(t) \/ Receive(t)
  PROVE  ServiceInv'
<1>1. /\ exec[t] \in {"routing", "streaming"}
      /\ \A u \in Task : /\ record'[u].state = record[u].state
                         /\ record'[u].enqueued = record[u].enqueued
  BY RecordsTyped DEF Route, Receive, MarkRouted, MarkFirstToken
<1>2. UNCHANGED <<submitting, outbox, cancelOf, swept, sweeping, handle, cancelRequested,
                  interrupted, entering, queued, seqOf>>
  BY DEF Route, Receive, schedVars, eventVars, sweepVars, handleVars, queueVars
<1> USE <1>1, <1>2 DEF RuntimeInv, ServiceInv, StateOf
<1>3. /\ exec' \in [Task -> {"idle", "routing", "streaming", "announcing"}]
      /\ exec'[t] \in {"routing", "streaming"}
      /\ \A u \in Task \ {t} : exec'[u] = exec[u]
      /\ \/ exec'[t] = "streaming" /\ leases' = leases \cup {t}
         \/ UNCHANGED <<exec, leases>>
  BY StagesTyped DEF Route, Receive, execVars
<1>4. /\ log' \in [Task -> Seq(Event)]
      /\ \A u \in Task \ {t} : log'[u] = log[u]
      /\ log'[t] = log[t] \/ log'[t][Len(log'[t])] = "TOKEN_DELTA"
  <2>1. CASE Route(t)
    BY <2>1 DEF Route, eventVars, ExecutionAgreement, RuntimeTypeOK
  <2>2. CASE Receive(t)
    BY <2>2, PublishEffect, "TOKEN_DELTA" \in Event
    DEF Event, ExecutionAgreement, RuntimeTypeOK, Receive, Publish
  <2> QED
    BY <2>1, <2>2
<1>5. RuntimeTypeOK'
  BY <1>3, <1>4 DEF ExecutionAgreement, RuntimeTypeOK
<1>6. ExecutionAgreement'
  BY <1>3, <1>5
  DEF ExecutionAgreement, DispatchedIsStartable, Startable, Executing
<1>7. AcceptanceAgrees' /\ HandlesCoherent'
  BY NothingEntering DEF AcceptanceAgrees, HandlesCoherent
<1>8. OutcomesAgree'
  BY <1>3 DEF OutcomesAgree
<1>9. StreamsOpen'
  BY <1>4 DEF StreamsOpen, Closed
<1> QED
  BY <1>6, <1>7, <1>8, <1>9

\* The coroutine leaves with an outcome.
LEMMA OutcomeKeeps ==
  ASSUME RuntimeInv, SchedTypeOK', RegistryTypeOK', submitting = NoTask, NEW t \in Task,
         Answer(t) \/ ExecFails(t) \/ ExecInterrupted(t)
  PROVE  ServiceInv'
<1>1. /\ exec[t] \in {"routing", "streaming"} /\ exec'[t] = "announcing"
      /\ exec' \in [Task -> {"idle", "routing", "streaming", "announcing"}]
      /\ \A u \in Task \ {t} : exec'[u] = exec[u]
      /\ leases' = leases \ {t} /\ outbox' = outbox \cup {t} /\ log' = log
  BY StagesTyped DEF Answer, ExecFails, ExecInterrupted, Leaves, Executing, ScheduleTerminal
<1>2. /\ record[t].state = "running"
      /\ record'[t].state \in Terminal /\ record'[t].enqueued = record[t].enqueued
      /\ \A u \in Task \ {t} : record'[u] = record[u]
  <2>1. record[t].state = "running"
    BY <1>1 DEF RuntimeInv, ServiceInv, ExecutionAgreement, Executing, StateOf
  <2>2. \/ TryComplete(t) \/ TryCancel(t)
        \/ \E error : record' = [record EXCEPT ![t].state = "failed", ![t].error = error]
    BY DEF Answer, ExecFails, ExecInterrupted, TryFail
  <2> QED
    BY <2>1, <2>2, RecordsTyped DEF TryComplete, TryCancel, Terminal
<1>3. UNCHANGED <<submitting, cancelOf, swept, sweeping, entering, queued, seqOf, handle,
                  cancelRequested>>
  BY DEF Answer, ExecFails, ExecInterrupted, RunnerInterrupted, HandleInterrupted,
         schedVars, handleVars, queueVars, sweepVars
<1>4. interrupted \ {t} \subseteq interrupted' /\ interrupted' \subseteq interrupted
      /\ handle[t] = "running"
  BY DEF Answer, ExecFails, ExecInterrupted, RunnerInterrupted, HandleInterrupted,
         schedVars, handleVars, Undisturbed
<1> USE <1>1, <1>2, <1>3, <1>4 DEF RuntimeInv, ServiceInv, StateOf
<1>5. RuntimeTypeOK'
  BY DEF ExecutionAgreement, RuntimeTypeOK
<1>6. ExecutionAgreement'
  BY <1>5
  DEF ExecutionAgreement, DispatchedIsStartable, Startable, Executing,
      Terminal
<1>7. AcceptanceAgrees'
  BY RegistryAssumption DEF AcceptanceAgrees, Terminal
<1>8. HandlesCoherent'
  BY DEF HandlesCoherent
<1>9. OutcomesAgree'
  BY DEF OutcomesAgree, Terminal
<1>10. StreamsOpen'
  BY DEF StreamsOpen, Closed, Terminal
<1> QED
  BY <1>6, <1>7, <1>8, <1>9, <1>10

\* The scheduled publication runs.
LEMMA PublicationKeeps ==
  ASSUME RuntimeInv, SchedTypeOK', RegistryTypeOK', NEW t \in Task, PublishTerminal(t)
  PROVE  ServiceInv'
<1>1. /\ t \in outbox /\ record[t].state \in Terminal
      /\ outbox' = outbox \ {t}
  BY DEF PublishTerminal, RuntimeInv, ServiceInv, OutcomesAgree, StateOf
<1>2. UNCHANGED <<record, handle, cancelRequested, interrupted, entering, queued, seqOf,
                  submitting, exec, leases, cancelOf, swept, sweeping>>
  BY DEF PublishTerminal, schedVars, registryVars, handleVars, queueVars, execVars,
         sweepVars
<1> USE <1>1, <1>2 DEF RuntimeInv, ServiceInv, StateOf
<1>3. /\ log' \in [Task -> Seq(Event)]
      /\ \A u \in Task \ {t} : log'[u] = log[u]
  <2>1. TerminalEvent[record[t].state] \in Event
    BY <1>1 DEF TerminalEvent, Terminal, Event
  <2>2. log' = [log EXCEPT ![t] = Append(log[t], TerminalEvent[record[t].state])]
    BY DEF PublishTerminal, Publish
  <2> QED
    BY <2>1, <2>2, PublishEffect DEF ExecutionAgreement, RuntimeTypeOK
<1>4. RuntimeTypeOK'
  BY <1>3 DEF ExecutionAgreement, RuntimeTypeOK
<1>5. ExecutionAgreement'
  BY <1>4 DEF ExecutionAgreement, DispatchedIsStartable, Startable, Executing
<1>6. AcceptanceAgrees' /\ HandlesCoherent' /\ OutcomesAgree'
  BY DEF AcceptanceAgrees, HandlesCoherent, OutcomesAgree
<1>7. StreamsOpen'
  BY <1>3 DEF StreamsOpen, Closed
<1> QED
  BY <1>5, <1>6, <1>7

\* lifespan() tries to cancel a task that shutdown() handed back.  It is in no
\* queue and has no handle.
LEMMA SweepKeeps ==
  ASSUME RuntimeInv, SchedTypeOK', RegistryTypeOK', submitting = NoTask,
         NEW t \in Task, Sweep(t)
  PROVE  ServiceInv'
<1>1. /\ t \notin running \cup queued /\ handle[t] = "none" /\ exec[t] = "idle"
      /\ record[t].state # "running"
  BY DEF Sweep, RuntimeInv, ServiceInv, SchedInv, QueueAgreement, SlotAccounting,
         ExecutionAgreement, Executing, StateOf
<1>2. UNCHANGED <<handle, cancelRequested, interrupted, entering, queued, seqOf,
                  submitting, exec, leases, cancelOf>>
  BY DEF Sweep, schedVars, handleVars, queueVars, execVars
<1>3. /\ \/ /\ record'[t].state = "cancelled" /\ record'[t].enqueued = record[t].enqueued
            /\ record[t].state = "queued" /\ outbox' = outbox \cup {t}
            /\ sweeping' = t
         \/ UNCHANGED <<record, outbox, sweeping>>
      /\ \A u \in Task \ {t} : record'[u] = record[u]
      /\ log' = log /\ swept' = swept \cup {t}
  <2>1. CASE record[t].state \in {"queued", "running"}
    <3>1. TryCancel(t) /\ ScheduleTerminal(t) /\ sweeping' = t /\ swept' = swept \cup {t}
      BY <2>1 DEF Sweep, StateOf
    <3> QED
      BY <1>1, <2>1, <3>1, RecordsTyped DEF TryCancel, ScheduleTerminal
  <2>2. CASE record[t].state \notin {"queued", "running"}
    BY <2>2 DEF Sweep, StateOf, registryVars, eventVars
  <2> QED
    BY <2>1, <2>2
<1> USE <1>1, <1>2, <1>3 DEF RuntimeInv, ServiceInv, StateOf
<1>4. RuntimeTypeOK'
  BY DEF ExecutionAgreement, RuntimeTypeOK
<1>5. ExecutionAgreement'
  BY <1>4 DEF ExecutionAgreement, DispatchedIsStartable, Startable, Executing
<1>6. AcceptanceAgrees'
  BY NothingEntering DEF AcceptanceAgrees
<1>7. HandlesCoherent' /\ OutcomesAgree'
  BY DEF HandlesCoherent, OutcomesAgree, Terminal
<1>8. StreamsOpen'
  BY DEF StreamsOpen, Closed, Terminal
<1> QED
  BY <1>5, <1>6, <1>7, <1>8

\* The scheduler's callbacks, cleanup tasks and shutdown.
LEMMA TurnKeeps ==
  ASSUME RuntimeInv, SchedTypeOK', submitting = NoTask, SchedulerTurn
  PROVE  ServiceInv'
<1>1. /\ UNCHANGED <<record, retryChild>> /\ UNCHANGED submitting
      /\ UNCHANGED <<execVars, eventVars, cancelOf, sweepVars>>
  BY DEF SchedulerTurn, registryVars
<1>2. UNCHANGED <<exec, leases, outbox, log, cancelOf, swept, sweeping>> /\ entering = {}
  BY <1>1, NothingEntering DEF execVars, eventVars, sweepVars
<1>3. ASSUME NEW t \in Task, ReleaseSlot(t)
      PROVE  ServiceInv'
  <2>1. /\ UNCHANGED <<cancelRequested, interrupted, seqOf, entering>>
        /\ \E batch \in SUBSET (queued \cup entering) :
             /\ handle' = [u \in Task |-> IF u \in batch THEN "created" ELSE handle[u]]
             /\ queued' \subseteq (queued \cup entering) \ batch
    BY <1>2, <1>3, ReleaseEffect DEF RuntimeInv
  <2> QED
    BY <1>1, <1>2, <2>1, BatchKeeps
<1>4. ASSUME \/ \E t \in Task : DoneCallbacks(t)
             \/ ShutdownBegins \/ ShutdownDrained \/ ShutdownReturns
      PROVE  ServiceInv'
  <2>1. UNCHANGED <<entering, seqOf>> /\ queued' \subseteq queued
    BY <1>4 DEF DoneCallbacks, ShutdownBegins, ShutdownDrained, ShutdownReturns, queueVars
  <2>2. /\ HandlesCoherent'
        /\ interrupted \subseteq interrupted'
        /\ \A t \in Task :
             \/ handle'[t] = handle[t]
             \/ handle[t] = "done" /\ handle'[t] = "none"
    <3>1. ASSUME NEW t \in Task, DoneCallbacks(t)
          PROVE  /\ HandlesCoherent' /\ interrupted' = interrupted
                 /\ handle[t] = "done" /\ handle' = [handle EXCEPT ![t] = "none"]
      BY <3>1, StagesTyped
      DEF DoneCallbacks, HandleForgotten, HandlesCoherent, RuntimeInv, ServiceInv
    <3>2. CASE ShutdownBegins
      <4>1. RequestCancel(running) /\ running \in SUBSET Task
        BY <3>2 DEF ShutdownBegins, RuntimeInv, SchedInv, SchedTypeOK
      <4> QED
        BY <4>1, CancelRequestKeeps
    <3>3. CASE ShutdownDrained \/ ShutdownReturns
      BY <3>3 DEF ShutdownDrained, ShutdownReturns, handleVars, HandlesCoherent,
                  RuntimeInv, ServiceInv
    <3> QED
      BY <1>4, <3>1, <3>2, <3>3, StagesTyped
  <2> USE <1>1, <1>2, <2>1, <2>2 DEF RuntimeInv, ServiceInv, StateOf
  <2>3. RuntimeTypeOK'
    BY DEF ExecutionAgreement, RuntimeTypeOK, RegistryTypeOK
  <2>4. ExecutionAgreement'
    BY <2>3 DEF ExecutionAgreement, DispatchedIsStartable, Startable, Executing
  <2>5. AcceptanceAgrees' /\ OutcomesAgree' /\ StreamsOpen'
    BY DEF AcceptanceAgrees, OutcomesAgree, StreamsOpen, Closed
  <2> QED
    BY <2>2, <2>4, <2>5
<1> QED
  BY <1>3, <1>4 DEF SchedulerTurn

\* A step that changes nothing.
LEMMA StutterKeeps ==
  ASSUME RuntimeInv, UNCHANGED runtimeVars
  PROVE  ServiceInv'
<1>1. UNCHANGED <<record, retryChild, handle, cancelRequested, interrupted, entering, queued,
                  seqOf, submitting, exec, leases, outbox, log, cancelOf, swept, sweeping>>
      /\ SchedTypeOK'
  BY DEF runtimeVars, schedVars, registryVars, handleVars, queueVars, shutdownVars,
         execVars, eventVars, sweepVars, RuntimeInv, SchedInv, SchedTypeOK, HandleTypeOK
<1> USE <1>1 DEF RuntimeInv, ServiceInv, StateOf
<1>2. ExecutionAgreement'
  BY DEF ExecutionAgreement, RuntimeTypeOK, RegistryTypeOK, DispatchedIsStartable,
         Startable, Executing
<1>3. AcceptanceAgrees' /\ HandlesCoherent' /\ OutcomesAgree' /\ StreamsOpen'
  BY DEF AcceptanceAgrees, HandlesCoherent, OutcomesAgree, StreamsOpen, Closed
<1> QED
  BY <1>2, <1>3

\* Every step keeps the invariant.
LEMMA RuntimeStep == RuntimeInv /\ [RuntimeNext]_runtimeVars => RuntimeInv'
<1> SUFFICES ASSUME RuntimeInv, [RuntimeNext]_runtimeVars PROVE RuntimeInv'
  OBVIOUS
<1>1. SchedInv'
  BY UsesScheduler, StepInv, EnqueueBeginsInv DEF RuntimeInv
<1>2. RegistryInv'
  BY UsesRegistry, RegistryStep DEF RuntimeInv
<1>3. SchedTypeOK' /\ RegistryTypeOK'
  BY <1>1, <1>2 DEF SchedInv, RegistryInv
<1>4. ServiceInv'
  <2>1. CASE UNCHANGED runtimeVars
    BY <2>1, StutterKeeps
  <2>2. ASSUME NEW t \in Task,
               EnqueueAccepted(t) \/ EnqueueDone(t) \/ EnqueueFailsClosing(t)
                 \/ EnqueueFailsClock(t)
        PROVE  ServiceInv'
    BY <1>3, <2>2, AcceptedKeeps, CommittedKeeps, RefusedKeeps
  <2>3. CASE submitting = NoTask /\ Turn
    <3> USE <1>3, <2>3
    <3>1. ASSUME NEW t \in Task, SubmitTask(t) \/ \E parent \in Task : SubmitRetry(parent, t)
          PROVE  ServiceInv'
      BY <3>1, SubmissionKeeps
    <3>2. ASSUME NEW t \in Task, NEW c \in Canceller,
                 CancelQueuedTask(c, t) \/ CancelRunningTask(c, t)
          PROVE  ServiceInv'
      BY <3>2, CancelQueuedKeeps, CancelRunningKeeps
    <3>3. ASSUME NEW t \in Task, ExecBegins(t) \/ ExecStillborn(t) \/ ExecFinishes(t)
          PROVE  ServiceInv'
      BY <3>3, BeginsKeeps, EndsKeeps
    <3>4. ASSUME NEW t \in Task,
                 Route(t) \/ Receive(t) \/ Answer(t) \/ ExecFails(t) \/ ExecInterrupted(t)
          PROVE  ServiceInv'
      BY <3>4, ProgressKeeps, OutcomeKeeps
    <3>5. ASSUME NEW t \in Task, PublishTerminal(t) \/ Sweep(t)
          PROVE  ServiceInv'
      BY <3>5, PublicationKeeps, SweepKeeps
    <3>6. ASSUME NEW c \in Canceller, CancelReturns(c)
          PROVE  ServiceInv'
      BY <3>6, CancelReturnsKeeps
    <3>7. CASE SchedulerTurn
      BY <3>7, TurnKeeps
    <3> QED
      BY <3>1, <3>2, <3>3, <3>4, <3>5, <3>6, <3>7 DEF Turn
  <2> QED
    BY <2>1, <2>2, <2>3 DEF RuntimeNext
<1> QED
  BY <1>1, <1>2, <1>4 DEF RuntimeInv

\* The invariant of the running service.
THEOREM RuntimeInvariant == RuntimeSpec => []RuntimeInv
<1>1. RuntimeInit => RuntimeInv
  <2> SUFFICES ASSUME RuntimeInit PROVE RuntimeInv
    OBVIOUS
  <2>1. SchedInv /\ RegistryInv
    BY InitInv, RegistryInitInv DEF RuntimeInit
  <2>2. /\ \A t \in Task : /\ handle[t] = "none" /\ seqOf[t] = 0 /\ exec[t] = "idle"
                           /\ record[t].state = "absent" /\ record[t].enqueued = FALSE
                           /\ log[t] = <<>>
        /\ \A c \in Canceller : cancelOf[c] = NoTask
        /\ cancelRequested = {} /\ interrupted = {} /\ entering = {} /\ queued = {}
        /\ leases = {} /\ outbox = {} /\ submitting = NoTask
    BY DEF RuntimeInit, SchedInit, HandleInit, RegistryInit, Blank
  <2> USE <2>2 DEF StateOf
  <2>3. RuntimeTypeOK
    <3>1. log \in [Task -> Seq(Event)]
      BY DEF RuntimeInit
    <3> QED
      BY <2>1, <3>1 DEF RuntimeTypeOK, RuntimeInit, SchedInv, RegistryInv
  <2>4. ExecutionAgreement
    BY <2>3 DEF ExecutionAgreement, DispatchedIsStartable, Executing
  <2>5. AcceptanceAgrees /\ HandlesCoherent
    BY DEF AcceptanceAgrees, HandlesCoherent
  <2>6. OutcomesAgree
    BY RegistryAssumption DEF OutcomesAgree
  <2>7. StreamsOpen
    BY DEF StreamsOpen, Closed
  <2> QED
    BY <2>1, <2>4, <2>5, <2>6, <2>7 DEF RuntimeInv, ServiceInv
<1> QED
  BY <1>1, RuntimeStep, PTL DEF RuntimeSpec

-----------------------------------------------------------------------------
(* What follows for the service.                                           *)

\* The record, the coroutine, the handle and the lease of a task agree: a record
\* says "running" exactly while its coroutine can still decide the outcome, and a
\* worker is leased exactly while its answer is awaited (main.py:375-470).
THEOREM AgreementHolds == RuntimeSpec => []ExecutionAgreement
  BY RuntimeInvariant, PTL DEF RuntimeInv, ServiceInv

\* POST cancel is never answered with a task that is still going, whichever of
\* the cancellation and the execution decides the outcome (main.py:300-345).
THEOREM CancelsAnswerTerminal == RuntimeSpec => []CancelAnswersTerminal
<1>1. RuntimeInv => CancelAnswersTerminal
  <2> SUFFICES ASSUME RuntimeInv, NEW c \in Canceller, cancelOf[c] # NoTask,
                      CancelOver(cancelOf[c])
               PROVE  StateOf(cancelOf[c]) \in Terminal
    BY DEF CancelAnswersTerminal
  <2>1. PICK t \in Task : cancelOf[c] = t
    BY DEF RuntimeInv, ServiceInv, ExecutionAgreement, RuntimeTypeOK
  <2>2. StateOf(t) \in {"running"} \cup Terminal
    BY <2>1 DEF RuntimeInv, ServiceInv, OutcomesAgree
  <2>3. StateOf(t) # "running"
    BY <2>1 DEF RuntimeInv, ServiceInv, ExecutionAgreement, Executing, CancelOver
  <2> QED
    BY <2>1, <2>2, <2>3
<1> QED
  BY <1>1, RuntimeInvariant, PTL

\* The service draws sequence numbers, starts and cancels handles only as the
\* scheduler's specification lets its environment do: what is proved of SchedSpec
\* holds in the service.  (MaxSeq = 0: without TLC's bound.)
THEOREM ServiceUsesScheduler ==
  ASSUME MaxSeq = 0
  PROVE  RuntimeSpec => UsesSchedulerAsSpecified
<1>1. RuntimeInv /\ [RuntimeNext]_runtimeVars => [SchedNext]_schedVars
  <2> SUFFICES ASSUME RuntimeInv, [RuntimeNext]_runtimeVars,
                      entering = {}, NEW t \in Task, EnqueueRefused(t)
               PROVE  [SchedNext]_schedVars
    BY UsesScheduler
  <2>1. SchedStep
    BY DEF SchedStep
  <2> QED
    BY <2>1 DEF SchedNext
<1> QED
  BY <1>1, RuntimeInvariant, PTL
  DEF RuntimeSpec, RuntimeInit, UsesSchedulerAsSpecified, SchedSpec

\* Every change of a record is one call of a registry method: retry chains stay
\* chains and outcomes stay final in the service.
THEOREM ServiceUsesRegistry == RuntimeSpec => RegistrySpec
<1>1. RuntimeInv /\ [RuntimeNext]_runtimeVars => [RegistryNext]_registryVars
  BY UsesRegistry
<1> QED
  BY <1>1, RuntimeInvariant, PTL DEF RuntimeSpec, RuntimeInit, RegistrySpec

-----------------------------------------------------------------------------
(* No accepted task is forgotten.                                          *)

\* A shutdown is not taken back.
LEMMA ClosingStays ==
  Closing /\ [RuntimeNext]_runtimeVars => Closing'
<1> SUFFICES ASSUME Closing, [RuntimeNext]_runtimeVars
             PROVE  Closing'
  OBVIOUS
<1>1. \/ shutdown' = shutdown
      \/ ShutdownBegins \/ ShutdownDrained \/ ShutdownReturns
  <2>1. CASE UNCHANGED runtimeVars
    BY <2>1 DEF runtimeVars, schedVars, shutdownVars
  <2>2. CASE \E t \in Task : EnqueueAccepted(t) \/ EnqueueDone(t) \/ EnqueueFailsClosing(t)
                               \/ EnqueueFailsClock(t)
    BY <2>2 DEF EnqueueAccepted, EnqueueDone, EnqueueFailsClosing, EnqueueFailsClock,
                EnqueueBegins, EnqueueCommits, EnqueueRefused, schedVars, shutdownVars
  <2>3. CASE Turn
    BY <2>3 DEF Turn, SubmitTask, SubmitRetry, CancelQueuedTask, CancelRunningTask,
                ExecBegins, ExecStillborn, Route, Receive, Answer, ExecFails,
                ExecInterrupted, ExecFinishes, PublishTerminal, Sweep, CancelReturns,
                SchedulerTurn, CancelQueued, CancelRunning, RunnerBegins, RunnerEnds,
                RunnerInterrupted, DoneCallbacks, ReleaseSlot, schedVars, shutdownVars
  <2> QED
    BY <2>1, <2>2, <2>3 DEF RuntimeNext
<1> QED
  BY <1>1 DEF ShutdownBegins, ShutdownDrained, ShutdownReturns, Closing

\* While nobody shuts the service down, the record of an accepted task is in the
\* hands of its submission, of the queue or of a fresh handle, and each step
\* passes it on: enqueue() to the queue, the dispatch loop to a handle, the
\* handle to the execution.
LEMMA NoneForgottenStep ==
  RuntimeInv /\ NoneForgotten /\ [RuntimeNext]_runtimeVars => NoneForgotten'
<1> SUFFICES ASSUME RuntimeInv, NoneForgotten, [RuntimeNext]_runtimeVars,
                    ~Closing, ~Closing'
             PROVE  NoneForgotten'
  BY ClosingStays DEF NoneForgotten
<1> USE DEF NoneForgotten, StateOf
<1>1. CASE UNCHANGED runtimeVars
  BY <1>1 DEF runtimeVars, schedVars, registryVars, handleVars, queueVars, shutdownVars,
              Closing
<1>2. ASSUME NEW t \in Task, EnqueueAccepted(t)
      PROVE  NoneForgotten'
  <2>1. /\ UNCHANGED <<shutdown, submitting, queued, handle, interrupted>>
        /\ submitting = t
        /\ \A u \in Task \ {t} : record'[u] = record[u]
    BY <1>2, RecordsTyped
    DEF EnqueueAccepted, EnqueueBegins, MarkEnqueued, handleVars, shutdownVars
  <2> QED
    BY <2>1 DEF Closing
<1>3. ASSUME NEW t \in Task, EnqueueDone(t)
      PROVE  NoneForgotten'
  <2>1. EnqueueCommits(t) /\ submitting = t /\ record' = record /\ shutdown' = shutdown
    BY <1>3 DEF EnqueueDone, EnqueueCommits, registryVars, shutdownVars
  <2>2. PICK batch \in SUBSET (queued \cup {t}) :
          /\ handle' = [u \in Task |-> IF u \in batch THEN "created" ELSE handle[u]]
          /\ queued' = (queued \cup {t}) \ batch
    BY <2>1, CommitEffect DEF RuntimeInv
  <2>3. interrupted' = interrupted
    BY <2>1, CommitEffect DEF RuntimeInv
  <2>4. \A u \in batch : u \notin interrupted
    BY <2>1, <2>2, QueuedAreStartable DEF EnqueueCommits
  <2> QED
    BY <2>1, <2>2, <2>3, <2>4 DEF Closing
<1>4. ASSUME NEW t \in Task, EnqueueFailsClosing(t) \/ EnqueueFailsClock(t)
      PROVE  NoneForgotten'
  <2>1. /\ UNCHANGED <<record, queued, handle, interrupted>>
        /\ submitting = t /\ seqOf[t] = 0
    BY <1>4 DEF EnqueueFailsClosing, EnqueueFailsClock, EnqueueRefused, registryVars,
                handleVars
  <2>2. ~record[t].enqueued
    BY <2>1 DEF RuntimeInv, ServiceInv, AcceptanceAgrees
  <2> QED
    BY <2>1, <2>2
<1>5. CASE submitting = NoTask /\ Turn
  <2> USE <1>5, RegistryAssumption
  <2>1. ASSUME NEW t \in Task, SubmitTask(t) \/ \E parent \in Task : SubmitRetry(parent, t)
        PROVE  NoneForgotten'
    <3>1. /\ submitting' = t /\ UNCHANGED schedVars
          /\ \E r : record' = [record EXCEPT ![t] = r]
      BY <2>1 DEF SubmitTask, SubmitRetry, Create, CreateRetry, Created
    <3>2. UNCHANGED <<shutdown, queued, handle, interrupted>>
      BY <3>1 DEF schedVars, handleVars, queueVars, shutdownVars
    <3> QED
      BY <3>1, <3>2, RecordsTyped DEF Closing
  <2>2. ASSUME NEW t \in Task, NEW c \in Canceller, CancelQueuedTask(c, t)
        PROVE  NoneForgotten'
    <3>1. /\ record'[t].state = "cancelled" /\ \A u \in Task \ {t} : record'[u] = record[u]
          /\ submitting' = submitting
      BY <2>2, RecordsTyped DEF CancelQueuedTask, TryCancel
    <3>2. CASE t \in queued
      <4>1. CancelQueued(t) /\ shutdown' = shutdown
        BY <2>2, <3>2 DEF CancelQueuedTask, CancelQueued, shutdownVars
      <4>2. PICK batch \in SUBSET (queued \ {t}) :
              /\ handle' = [u \in Task |-> IF u \in batch THEN "created" ELSE handle[u]]
              /\ queued' = (queued \ {t}) \ batch
        BY <4>1, CancelEffect DEF RuntimeInv
      <4>3. interrupted' = interrupted /\ \A u \in batch : u \notin interrupted
        BY <4>1, <4>2, CancelEffect, QueuedAreStartable DEF RuntimeInv
      <4> QED
        BY <3>1, <4>1, <4>2, <4>3 DEF Closing
    <3>3. CASE t \notin queued
      <4>1. /\ UNCHANGED <<shutdown, queued, handle>>
            /\ \A u \in Task \ {t} : u \in interrupted' <=> u \in interrupted
        BY <2>2, <3>3
        DEF CancelQueuedTask, CancelRunning, RequestCancel, queueVars, shutdownVars
      <4> QED
        BY <3>1, <4>1 DEF Closing
    <3> QED
      BY <3>2, <3>3
  <2>3. ASSUME NEW t \in Task, NEW c \in Canceller, CancelRunningTask(c, t)
        PROVE  NoneForgotten'
    <3>1. /\ UNCHANGED <<shutdown, queued, handle, record, submitting>>
          /\ record[t].state = "running"
          /\ \A u \in Task \ {t} : u \in interrupted' <=> u \in interrupted
      BY <2>3
      DEF CancelRunningTask, CancelRunning, RequestCancel, registryVars, queueVars,
          shutdownVars
    <3> QED
      BY <3>1 DEF Closing
  <2>4. ASSUME NEW t \in Task, ExecBegins(t)
        PROVE  NoneForgotten'
    <3>1. Startable(t) /\ handle[t] = "created"
      BY <2>4 DEF ExecBegins, HandleBegins, RunnerBegins, RuntimeInv, ServiceInv,
                  ExecutionAgreement, DispatchedIsStartable
    <3>2. RunnerBegins(t) /\ TryStart(t) /\ submitting' = submitting
      BY <2>4, <3>1 DEF ExecBegins
    <3>3. /\ UNCHANGED <<shutdown, queued, interrupted>>
          /\ \A u \in Task \ {t} : handle'[u] = handle[u] /\ record'[u] = record[u]
          /\ record'[t].state = "running"
      BY <3>2, RecordsTyped, StagesTyped
      DEF RunnerBegins, HandleBegins, TryStart, queueVars, shutdownVars
    <3> QED
      BY <3>2, <3>3 DEF Closing
  <2>5. ASSUME NEW t \in Task,
               \/ ExecStillborn(t) \/ ExecFinishes(t)
               \/ SchedulerTurn /\ DoneCallbacks(t)
        PROVE  NoneForgotten'
    <3>1. /\ UNCHANGED <<shutdown, queued, record, submitting>>
          /\ interrupted' \subseteq interrupted
          /\ \A u \in Task \ {t} : handle'[u] = handle[u]
          /\ handle[t] # "none" /\ (handle[t] # "created" \/ t \in interrupted)
      <4>1. CASE ExecStillborn(t)
        BY <4>1, StagesTyped
        DEF ExecStillborn, RunnerEnds, HandleEnds, Unfinished, registryVars, queueVars,
            shutdownVars
      <4>2. CASE ExecFinishes(t)
        BY <4>2, StagesTyped
        DEF ExecFinishes, HandleEnds, registryVars, queueVars, shutdownVars, RuntimeInv,
            ServiceInv, ExecutionAgreement
      <4>3. CASE SchedulerTurn /\ DoneCallbacks(t)
        <5>1. UNCHANGED <<record, submitting>>
          BY <4>3 DEF SchedulerTurn, registryVars
        <5> QED
          BY <4>3, <5>1, StagesTyped
          DEF DoneCallbacks, HandleForgotten, queueVars, shutdownVars
      <4> QED
        BY <2>5, <4>1, <4>2, <4>3
    <3>2. t \notin queued
      BY <3>1, QueuedAreStartable
    <3> QED
      BY <3>1, <3>2 DEF Closing
  <2>6. ASSUME NEW t \in Task,
               Route(t) \/ Receive(t) \/ Answer(t) \/ ExecFails(t) \/ ExecInterrupted(t)
        PROVE  NoneForgotten'
    <3>1. /\ UNCHANGED <<shutdown, queued, handle, submitting>>
          /\ interrupted' \subseteq interrupted
      BY <2>6
      DEF Route, Receive, Answer, ExecFails, ExecInterrupted, RunnerInterrupted,
          HandleInterrupted, schedVars, handleVars, queueVars, shutdownVars
    <3>2. record[t].state = "running"
      BY <2>6
      DEF Route, Receive, Answer, ExecFails, ExecInterrupted, Leaves, Executing, RuntimeInv,
          ServiceInv, ExecutionAgreement
    <3>3. \E r : record' = [record EXCEPT ![t] = r] /\ r.state # "queued"
      <4>1. CASE Route(t) \/ Receive(t)
        BY <3>2, <4>1, RecordsTyped DEF Route, Receive, MarkRouted, MarkFirstToken
      <4>2. CASE Answer(t) \/ ExecInterrupted(t)
        BY <4>2, RecordsTyped DEF Answer, ExecInterrupted, TryComplete, TryCancel
      <4>3. CASE ExecFails(t)
        <5>1. PICK error :
                record' = [record EXCEPT ![t].state = "failed", ![t].error = error]
          BY <4>3 DEF ExecFails, TryFail
        <5>2. record'[t].state = "failed" /\ record' = [record EXCEPT ![t] = record'[t]]
          BY <5>1, RecordsTyped
        <5> QED
          BY <5>2
      <4> QED
        BY <2>6, <4>1, <4>2, <4>3
    <3> QED
      BY <3>1, <3>2, <3>3, RecordsTyped DEF Closing
  <2>7. ASSUME (\E t \in Task : PublishTerminal(t)) \/ \E c \in Canceller : CancelReturns(c)
        PROVE  NoneForgotten'
    BY <2>7 DEF PublishTerminal, CancelReturns, schedVars, registryVars, handleVars,
                queueVars, shutdownVars, Closing
  <2>8. ASSUME NEW t \in Task, ReleaseSlot(t), SchedulerTurn
        PROVE  NoneForgotten'
    <3>1. UNCHANGED <<record, submitting, shutdown>>
      BY <2>8 DEF SchedulerTurn, ReleaseSlot, registryVars, shutdownVars
    <3>2. PICK batch \in SUBSET queued :
            /\ handle' = [u \in Task |-> IF u \in batch THEN "created" ELSE handle[u]]
            /\ queued' = queued \ batch
      BY <2>8, ReleaseEffect DEF RuntimeInv
    <3>3. interrupted' = interrupted /\ \A u \in batch : u \notin interrupted
      BY <2>8, <3>2, ReleaseEffect, QueuedAreStartable DEF RuntimeInv
    <3> QED
      BY <3>1, <3>2, <3>3 DEF Closing
  <2>9. /\ \A t \in Task : ~Sweep(t)
        /\ SchedulerTurn => \E t \in Task : DoneCallbacks(t) \/ ReleaseSlot(t)
    BY DEF Sweep, Closing, SchedulerTurn, ShutdownBegins, ShutdownDrained, ShutdownReturns
  <2> QED
    BY <2>1, <2>2, <2>3, <2>4, <2>5, <2>6, <2>7, <2>8, <2>9 DEF Turn
<1> QED
  BY <1>1, <1>2, <1>3, <1>4, <1>5 DEF RuntimeNext

\* A task that was accepted waits in the queue or for its handle's first step
\* until it is started or cancelled, as long as the application runs.
THEOREM NoTaskForgotten == RuntimeSpec => []NoneForgotten
<1>1. RuntimeInit => NoneForgotten
  BY DEF RuntimeInit, SchedInit, RegistryInit, Blank, NoneForgotten, StateOf
<1>2. RuntimeInv /\ NoneForgotten /\ [RuntimeNext]_runtimeVars => NoneForgotten'
  BY NoneForgottenStep
<1> QED
  BY <1>1, <1>2, RuntimeInvariant, PTL DEF RuntimeSpec

-----------------------------------------------------------------------------
(* Runtime implements TaskLifecycle.                                       *)

\* Of a step that touches only the record and the submission of t, the abstract
\* status changes only at t.
LEMMA StatusMoves ==
  ASSUME NEW t \in Task,
         \A u \in Task \ {t} :
           /\ record'[u] = record[u]
           /\ submitting' = u <=> submitting = u
  PROVE  [u \in Task |-> LifeStatus(u)]' =
           [[u \in Task |-> LifeStatus(u)] EXCEPT ![t] = LifeStatus(t)']
  BY DEF LifeStatus, StateOf

\* Records and submissions that stay as they are leave the abstract status alone.
LEMMA StatusStays ==
  ASSUME \A u \in Task :
           /\ record'[u].state = record[u].state
           /\ record'[u].enqueued = record[u].enqueued
           /\ record[u].state = "queued" /\ ~record[u].enqueued =>
                (submitting' = u <=> submitting = u)
  PROVE  UNCHANGED [u \in Task |-> LifeStatus(u)]
  BY DEF LifeStatus, StateOf

\* The submission of a task is accepted or refused; only then do its subscribers
\* learn of it, or its client that it was refused.
LEMMA SubmissionRefines ==
  ASSUME RuntimeInv, NEW t \in Task,
         \/ submitting = NoTask
              /\ (SubmitTask(t) \/ \E parent \in Task : SubmitRetry(parent, t))
         \/ EnqueueAccepted(t) \/ EnqueueDone(t) \/ EnqueueFailsClosing(t)
         \/ EnqueueFailsClock(t)
  PROVE  [Life!LifeNext]_(Life!lifeVars)
<1>1. CASE /\ submitting = NoTask
           /\ SubmitTask(t) \/ \E parent \in Task : SubmitRetry(parent, t)
  <2>1. /\ record[t].state = "absent" /\ submitting' = t /\ log' = log
        /\ \E parent, n : record' = [record EXCEPT ![t] =
                                       [Blank EXCEPT !.state = "queued", !.attempt = n,
                                                     !.retryOf = parent]]
    BY <1>1 DEF SubmitTask, SubmitRetry, Create, CreateRetry, Created, StateOf, eventVars
  <2>2. /\ record'[t].state = "queued" /\ record'[t].enqueued = FALSE
        /\ \A u \in Task \ {t} : record'[u] = record[u]
    BY <2>1, RecordsTyped DEF Blank
  <2>3. LifeStatus(t)' = LifeStatus(t)
    BY <2>1, <2>2 DEF LifeStatus, StateOf
  <2>4. UNCHANGED [u \in Task |-> LifeStatus(u)]
    BY <1>1, <2>1, <2>2, <2>3, StatusMoves, RegistryAssumption
  <2> QED
    BY <2>1, <2>4 DEF Life!lifeVars
<1>2. CASE EnqueueAccepted(t)
  <2>1. /\ LifeStatus(t) = "absent" /\ LifeStatus(t)' = "queued"
        /\ \A u \in Task \ {t} : record'[u] = record[u]
        /\ submitting' = submitting
        /\ log' = [log EXCEPT ![t] = Append(log[t], "TASK_QUEUED")]
    BY <1>2, RecordsTyped DEF EnqueueAccepted, MarkEnqueued, Publish, LifeStatus, StateOf
  <2>2. Life!Accept(t)
    BY <2>1, StatusMoves DEF Life!Accept, Life!Becomes, Life!Tells
  <2> QED
    BY <2>2 DEF Life!LifeNext
<1>3. CASE EnqueueDone(t)
  <2>1. /\ submitting = t /\ submitting' = NoTask /\ log' = log /\ record' = record
        /\ t \in entering
    BY <1>3 DEF EnqueueDone, EnqueueCommits, registryVars, eventVars
  <2>2. record[t].enqueued
    BY <2>1, QueuedAreStartable
  <2>3. UNCHANGED [u \in Task |-> LifeStatus(u)]
    BY <2>1, <2>2, RegistryAssumption, StatusStays
  <2> QED
    BY <2>1, <2>3 DEF Life!lifeVars
<1>4. CASE EnqueueFailsClosing(t) \/ EnqueueFailsClock(t)
  <2>1. /\ submitting = t /\ submitting' = NoTask /\ log' = log /\ record' = record
        /\ t \notin entering
    BY <1>4 DEF EnqueueFailsClosing, EnqueueFailsClock, EnqueueRefused, registryVars,
                eventVars, RuntimeInv, SchedInv, Provenance
  <2>2. ~record[t].enqueued /\ record[t].state = "queued"
    BY <2>1, RegistryAssumption DEF RuntimeInv, ServiceInv, AcceptanceAgrees, StateOf
  <2>3. LifeStatus(t) = "absent" /\ LifeStatus(t)' = "rejected"
    BY <2>1, <2>2, RegistryAssumption DEF LifeStatus, StateOf
  <2>4. Life!Reject(t)
    BY <2>1, <2>3, StatusMoves, RegistryAssumption DEF Life!Reject, Life!Becomes
  <2> QED
    BY <2>4 DEF Life!LifeNext
<1> QED
  BY <1>1, <1>2, <1>3, <1>4

\* Outside a submission, a record that changes from "running" to a terminal state,
\* or from "queued" to "cancelled", ends the task.
LEMMA EndRefines ==
  ASSUME RuntimeInv, NEW t \in Task, submitting = NoTask, submitting' = submitting,
         log' = log, \A u \in Task \ {t} : record'[u] = record[u],
         \/ record[t].state = "running" /\ record'[t].state \in Terminal
         \/ record[t].state = "queued" /\ record'[t].state = "cancelled"
  PROVE  [Life!LifeNext]_(Life!lifeVars)
<1>1. /\ LifeStatus(t)' = record'[t].state
      /\ \/ LifeStatus(t) = "running" /\ LifeStatus(t)' \in Life!Outcome
         \/ LifeStatus(t) \in {"queued", "rejected"} /\ LifeStatus(t)' = "cancelled"
  BY RegistryAssumption DEF LifeStatus, StateOf, Terminal, Life!Outcome
<1>2. Life!End(t)
  BY <1>1, StatusMoves DEF Life!End, Life!Becomes
<1> QED
  BY <1>2 DEF Life!LifeNext

\* Every step of the Runtime is a step of the life of one task, or invisible.
LEMMA LifeStep == RuntimeInv /\ [RuntimeNext]_runtimeVars => [Life!LifeNext]_(Life!lifeVars)
<1> SUFFICES ASSUME RuntimeInv, [RuntimeNext]_runtimeVars
             PROVE  [Life!LifeNext]_(Life!lifeVars)
  OBVIOUS
<1>1. ASSUME UNCHANGED <<record, submitting, log>>
      PROVE  [Life!LifeNext]_(Life!lifeVars)
  BY <1>1, StatusStays DEF Life!lifeVars
<1>2. CASE UNCHANGED runtimeVars
  BY <1>1, <1>2 DEF runtimeVars, registryVars, eventVars
<1>3. ASSUME NEW t \in Task,
             EnqueueAccepted(t) \/ EnqueueDone(t) \/ EnqueueFailsClosing(t)
               \/ EnqueueFailsClock(t)
      PROVE  [Life!LifeNext]_(Life!lifeVars)
  BY <1>3, SubmissionRefines
<1>4. CASE submitting = NoTask /\ Turn
  <2> USE <1>4
  <2>1. ASSUME NEW t \in Task, SubmitTask(t) \/ \E parent \in Task : SubmitRetry(parent, t)
        PROVE  [Life!LifeNext]_(Life!lifeVars)
    BY <2>1, SubmissionRefines
  <2>2. ASSUME NEW t \in Task, NEW c \in Canceller, CancelQueuedTask(c, t)
        PROVE  [Life!LifeNext]_(Life!lifeVars)
    <3>1. /\ record[t].state = "queued" /\ record'[t].state = "cancelled"
          /\ \A u \in Task \ {t} : record'[u] = record[u]
          /\ submitting' = submitting /\ log' = log
      BY <2>2, RecordsTyped DEF CancelQueuedTask, TryCancel, ScheduleTerminal, StateOf
    <3> QED
      BY <3>1, EndRefines
  <2>3. ASSUME \/ \E t \in Task, c \in Canceller : CancelRunningTask(c, t)
               \/ \E c \in Canceller : CancelReturns(c)
               \/ \E t \in Task : ExecStillborn(t) \/ ExecFinishes(t)
               \/ SchedulerTurn
        PROVE  [Life!LifeNext]_(Life!lifeVars)
    BY <1>1, <2>3
    DEF CancelRunningTask, CancelReturns, ExecStillborn, ExecFinishes, SchedulerTurn,
        registryVars, eventVars
  <2>4. ASSUME NEW t \in Task, ExecBegins(t)
        PROVE  [Life!LifeNext]_(Life!lifeVars)
    <3>1. Startable(t)
      BY <2>4 DEF ExecBegins, HandleBegins, RunnerBegins, RuntimeInv, ServiceInv,
                  ExecutionAgreement, DispatchedIsStartable
    <3>2. TryStart(t) /\ submitting' = submitting /\ Publish(t, "TASK_STARTED")
      BY <2>4, <3>1 DEF ExecBegins
    <3>3. /\ LifeStatus(t) = "queued" /\ LifeStatus(t)' = "running"
          /\ \A u \in Task \ {t} : record'[u] = record[u]
          /\ log' = [log EXCEPT ![t] = Append(log[t], "TASK_STARTED")]
      BY <3>2, RecordsTyped DEF TryStart, Startable, LifeStatus, StateOf, Publish
    <3>4. Life!Start(t)
      BY <3>2, <3>3, StatusMoves DEF Life!Start, Life!Becomes, Life!Tells
    <3> QED
      BY <3>4 DEF Life!LifeNext
  <2>5. ASSUME NEW t \in Task, Route(t)
        PROVE  [Life!LifeNext]_(Life!lifeVars)
    <3>1. /\ \A u \in Task : /\ record'[u].state = record[u].state
                             /\ record'[u].enqueued = record[u].enqueued
          /\ submitting' = submitting /\ log' = log
      BY <2>5, RecordsTyped DEF Route, MarkRouted, eventVars
    <3> QED
      BY <3>1, StatusStays DEF Life!lifeVars
  <2>6. ASSUME NEW t \in Task, Receive(t)
        PROVE  [Life!LifeNext]_(Life!lifeVars)
    <3>1. /\ LifeStatus(t) = "running"
          /\ \A u \in Task : /\ record'[u].state = record[u].state
                             /\ record'[u].enqueued = record[u].enqueued
          /\ submitting' = submitting
          /\ log' = [log EXCEPT ![t] = Append(log[t], "TOKEN_DELTA")]
      BY <2>6, RecordsTyped DEF Receive, MarkFirstToken, Publish, LifeStatus, StateOf
    <3>2. Life!Token(t)
      BY <3>1, StatusStays DEF Life!Token, Life!Tells
    <3> QED
      BY <3>2 DEF Life!LifeNext
  <2>7. ASSUME NEW t \in Task, Answer(t) \/ ExecFails(t) \/ ExecInterrupted(t)
        PROVE  [Life!LifeNext]_(Life!lifeVars)
    <3>1. submitting' = submitting /\ log' = log /\ record[t].state = "running"
      BY <2>7
      DEF Answer, ExecFails, ExecInterrupted, Leaves, ScheduleTerminal, Executing,
          RuntimeInv, ServiceInv, ExecutionAgreement, StateOf
    <3>2. \/ TryComplete(t) \/ TryCancel(t)
          \/ \E error : record' = [record EXCEPT ![t].state = "failed", ![t].error = error]
      BY <2>7 DEF Answer, ExecFails, ExecInterrupted, TryFail
    <3>3. record'[t].state \in Terminal /\ \A u \in Task \ {t} : record'[u] = record[u]
      BY <3>2, RecordsTyped DEF TryComplete, TryCancel, Terminal
    <3> QED
      BY <3>1, <3>3, EndRefines
  <2>8. ASSUME NEW t \in Task, Sweep(t)
        PROVE  [Life!LifeNext]_(Life!lifeVars)
    <3>1. CASE record[t].state \in {"queued", "running"}
      <4>1. TryCancel(t) /\ ScheduleTerminal(t) /\ submitting' = submitting
        BY <2>8, <3>1 DEF Sweep, StateOf
      <4>2. /\ record'[t].state = "cancelled" /\ log' = log
            /\ \A u \in Task \ {t} : record'[u] = record[u]
        BY <4>1, RecordsTyped DEF TryCancel, ScheduleTerminal
      <4> QED
        BY <3>1, <4>1, <4>2, EndRefines DEF Terminal
    <3>2. CASE record[t].state \notin {"queued", "running"}
      BY <1>1, <2>8, <3>2 DEF Sweep, StateOf, registryVars, eventVars
    <3> QED
      BY <3>1, <3>2
  <2>9. ASSUME NEW t \in Task, PublishTerminal(t)
        PROVE  [Life!LifeNext]_(Life!lifeVars)
    <3>1. /\ t \in outbox /\ record' = record /\ submitting' = submitting
          /\ log' = [log EXCEPT ![t] = Append(log[t], TerminalEvent[StateOf(t)])]
      BY <2>9 DEF PublishTerminal, Publish, registryVars
    <3>2. StateOf(t) \in Terminal /\ ~Closed(t)
      BY <3>1 DEF RuntimeInv, ServiceInv, OutcomesAgree, StreamsOpen
    <3>3. /\ LifeStatus(t) = StateOf(t) /\ StateOf(t) \in Life!Outcome
          /\ TerminalEvent[StateOf(t)] = Life!Announcement[StateOf(t)]
      BY <3>2 DEF LifeStatus, Terminal, Life!Outcome, TerminalEvent, Life!Announcement
    <3>4. ~Life!Announced(t)
      BY <3>2, <3>3 DEF Life!Announced, Closed, Life!Announcement, Life!Outcome
    <3>5. UNCHANGED [u \in Task |-> LifeStatus(u)]
      BY <3>1, StatusStays
    <3>6. Life!Announce(t)
      BY <3>1, <3>3, <3>4, <3>5 DEF Life!Announce, Life!Tells
    <3> QED
      BY <3>6 DEF Life!LifeNext
  <2> QED
    BY <2>1, <2>2, <2>3, <2>4, <2>5, <2>6, <2>7, <2>8, <2>9 DEF Turn
<1> QED
  BY <1>2, <1>3, <1>4 DEF RuntimeNext

\* The stream of every task is one that TaskLifecycle allows: it begins with
\* TASK_QUEUED, tokens come only between start and outcome, the outcome is decided
\* before it is announced, and it is announced once, as the last event.
THEOREM ImplementsTaskLifecycle == RuntimeSpec => ImplementsLifecycle
<1>1. RuntimeInit => Life!LifeInit
  BY RegistryAssumption
  DEF RuntimeInit, RegistryInit, Blank, Life!LifeInit, LifeStatus, StateOf
<1>2. RuntimeInv /\ [RuntimeNext]_runtimeVars => [Life!LifeNext]_(Life!lifeVars)
  BY LifeStep
<1> QED
  BY <1>1, <1>2, RuntimeInvariant, PTL DEF RuntimeSpec, ImplementsLifecycle, Life!LifeSpec
=============================================================================
