------------------------------- MODULE Router -------------------------------
(***************************************************************************)
(* HttpTaskRouter (runtime/app/router.py): which worker a task goes to.    *)
(*                                                                         *)
(* A route first refreshes the workers' health under _health_lock, which   *)
(* is held across the probes and is FIFO, then decides under _lock.  No    *)
(* await happens under _lock and none between the two, so recording the    *)
(* probes and deciding are one step.  The decision leaves a lease, which   *)
(* release gives back.                                                     *)
(***************************************************************************)
EXTENDS WorkerGateway

CONSTANTS
  Order,                \* _endpoints: the workers in configuration order
  Monitor,              \* the health monitor loop, as a user of the lock
  Home,                 \* Home[t]: the worker t's affinity key hashes to
  FailureThreshold,
  RecoveryThreshold,
  Setting               \* how a Router may be built, and which workers are flaky

ASSUME RouterAssumption ==
  /\ Order \in Seq(Worker) \ {<<>>} /\ Range(Order) = Worker /\ IsInjective(Order)
  /\ Monitor \notin Task
  /\ Home \in [Task -> Worker]
  /\ {FailureThreshold, RecoveryThreshold} \subseteq Nat \ {0}

VARIABLES
  setting,      \* mode, refresh_health_on_every_route; whose probes may fail
  tracker,      \* _health_trackers
  lock,         \* who holds _health_lock, followed by who waits for it
  answer,       \* answer[w]: what the probe of w under the lock returned
  monitor,      \* where the monitor loop is
  phase,        \* phase[t]: where the execution of t is in its use of the Router
  lease,        \* _leases
  assigned,     \* _assigned
  turn,         \* _round_robin_index, as a position of Order
  streak,       \* history: the probes of a worker that agree, latest first
  passedOver    \* history: the turns a selectable worker has been passed over

routerVars ==
  <<setting, tracker, lock, answer, monitor, phase, lease, assigned, turn,
    streak, passedOver>>

Mode == {"round_robin", "least_load", "branch_affinity", "bounded"}

\* The consecutive counters are compared with the thresholds only, so the
\* model lets them stop there.
Count(threshold) == 0..threshold

\* One worker's _WorkerHealthTracker.  The load is the one of the last probe
\* that succeeded; while the last probe failed nothing reads it.
Tracker ==
  [state : {"healthy", "unhealthy", "recovering"}, ok : BOOLEAN,
   failures : Count(FailureThreshold), successes : Count(RecoveryThreshold),
   load : Nat]

Unprobed ==
  [state |-> "healthy", ok |-> FALSE, failures |-> 0, successes |-> 0, load |-> 0]

RouterInit ==
  /\ WorkerInit
  /\ setting \in Setting
  /\ tracker = [w \in Worker |-> Unprobed]
  /\ lock = <<Monitor>> /\ monitor = "starting"
  /\ answer = [w \in Worker |-> None]
  /\ phase = [t \in Task |-> "idle"]
  /\ lease = [t \in Task |-> None]
  /\ assigned = [w \in Worker |-> 0]
  /\ turn = 1
  /\ streak = [w \in Worker |-> [ok |-> TRUE, length |-> 0]]
  /\ passedOver = [w \in Worker |-> 0]

(***************************************************************************)
(* Probes.                                                                 *)
(***************************************************************************)

\* The decision reads loads under these settings only; the model keeps none
\* under the others.
ReadsLoad == setting.refresh /\ setting.mode # "round_robin"

Failed == [ok |-> FALSE, load |-> 0]

\* GET /health of w returns: unreachable, late, wrongly identified or
\* unhealthy, or healthy with the load of the moment.
ProbeAnswers(w) ==
  /\ lock # <<>> /\ answer[w] = None
  /\ \E result \in (IF w \in setting.flaky THEN {Failed} ELSE {}) \cup {[ok |-> TRUE, load |-> IF ReadsLoad THEN ReportedLoad(w) ELSE 0]} :
       answer' = [answer EXCEPT ![w] = result]
  /\ UNCHANGED <<setting, tracker, lock, monitor, phase, lease, assigned, turn,
                 streak, passedOver, workerVars>>

\* Every probe that was due has returned.  The monitor probes every worker; a
\* route does if the setting says so, else only those not probed for a while.
Probed == setting.refresh \/ Head(lock) = Monitor => \A w \in Worker : answer[w] # None

Capped(n, threshold) == Smaller(n + 1, threshold)

AfterSuccessAtOnce(old, load) ==
  [state |-> "healthy", ok |-> TRUE, failures |-> 0,
   successes |-> Capped(old.successes, RecoveryThreshold), load |-> load]

\* _record_health_result
AfterSuccess(old, load) ==
  LET successes == IF old.state = "unhealthy" THEN 1
                   ELSE Capped(old.successes, RecoveryThreshold)
      back == old.state = "healthy" \/ successes >= RecoveryThreshold
  IN [state |-> IF back THEN "healthy" ELSE "recovering", ok |-> TRUE,
      failures |-> 0, successes |-> successes, load |-> load]

AfterFailure(old) ==
  LET failures == Capped(old.failures, FailureThreshold)
      stays == old.state = "healthy" /\ failures < FailureThreshold
  IN [state |-> IF stays THEN "healthy" ELSE "unhealthy", ok |-> FALSE,
      failures |-> failures, successes |-> 0, load |-> 0]

Recorded ==
  [w \in Worker |->
     IF answer[w] = None THEN tracker[w]
     ELSE IF answer[w].ok THEN AfterSuccess(tracker[w], answer[w].load)
     ELSE AfterFailure(tracker[w])]

S == INSTANCE ServiceStatus WITH
  inService <- {w \in Worker : tracker[w].state = "healthy"}

RefreshesWithoutRelease ==
  /\ lock # <<>> /\ Probed
  /\ tracker' = Recorded
  /\ streak' = [w \in Worker |->
       IF answer[w] = None THEN streak[w] ELSE S!Extended(streak[w], answer[w].ok)]
  /\ answer' = [w \in Worker |-> None]
  /\ UNCHANGED lock

\* The holder's probes are recorded and the lock goes to the next in line.
Refreshes ==
  /\ lock # <<>> /\ Probed
  /\ tracker' = Recorded
  /\ streak' = [w \in Worker |->
       IF answer[w] = None THEN streak[w] ELSE S!Extended(streak[w], answer[w].ok)]
  /\ answer' = [w \in Worker |-> None]
  /\ lock' = Tail(lock)

(***************************************************************************)
(* The decision.                                                           *)
(***************************************************************************)

\* _status_for(...).selectable
Selectable(workers) == {w \in Worker : workers[w].state = "healthy" /\ workers[w].ok}

\* _worker_order
Position(w) == CHOOSE i \in DOMAIN Order : Order[i] = w

EffectiveLoadReported(w, workers) == workers[w].load

\* effective_load: in cached mode an old report must not override the leases.
EffectiveLoad(w, workers) ==
  IF setting.refresh /\ workers[w].load > assigned[w]
    THEN workers[w].load ELSE assigned[w]

\* _select_least_load takes w from among.
LeastLoaded(w, among, workers) ==
  /\ w \in among
  /\ \A v \in among :
       \/ EffectiveLoad(w, workers) < EffectiveLoad(v, workers)
       \/ /\ EffectiveLoad(w, workers) = EffectiveLoad(v, workers)
          /\ Position(w) <= Position(v)

OffsetFromFirst(w) == Position(w)

\* Where the round robin finds w, counted from the worker whose turn it is.
Offset(w) == (Position(w) - turn + Len(Order)) % Len(Order)

\* _select_round_robin takes w from among.
NextInTurn(w, among) == w \in among /\ \A v \in among : Offset(w) <= Offset(v)

\* The branches of route: w is selected for t; under the two affinity policies
\* another worker than Home[t] means the task was rerouted.
Selects(t, w, workers) ==
  LET healthy == Selectable(workers)
      home == Home[t]
  IN
  /\ healthy # {}
  /\ \/ /\ setting.mode = "round_robin"
        /\ NextInTurn(w, healthy)
     \/ /\ setting.mode = "least_load"
        /\ LeastLoaded(w, healthy, workers)
     \/ /\ setting.mode \in {"branch_affinity", "bounded"} /\ home \notin healthy
        /\ LeastLoaded(w, healthy, workers)
     \/ /\ setting.mode = "branch_affinity" /\ home \in healthy
        /\ w = home
     \/ /\ setting.mode = "bounded" /\ home \in healthy
        /\ EffectiveLoad(home, workers) < MaxConcurrency[home]
        /\ w = home
     \/ /\ setting.mode = "bounded" /\ home \in healthy
        /\ EffectiveLoad(home, workers) >= MaxConcurrency[home]
        /\ healthy # {home}
        /\ LeastLoaded(w, healthy \ {home}, workers)

(***************************************************************************)
(* Actions.                                                                *)
(***************************************************************************)

Free(t) == phase[t] = "idle" /\ request[t].stage = "none"

\* route: the call waits for the health lock.
RouteBegins(t) ==
  /\ Free(t) /\ monitor \notin {"starting", "closed"}
  /\ phase' = [phase EXCEPT ![t] = "refreshing"]
  /\ lock' = Append(lock, t)
  /\ UNCHANGED <<setting, tracker, answer, monitor, lease, assigned, turn,
                 streak, passedOver, workerVars>>

Holds(actor) == lock # <<>> /\ Head(lock) = actor

\* route decides, and the execution sends its request to the worker.
RouteGranted(t) ==
  /\ Holds(t) /\ Refreshes
  /\ \E w \in Worker :
       /\ Selects(t, w, tracker')
       /\ lease' = [lease EXCEPT ![t] = w]
       /\ assigned' = [assigned EXCEPT ![w] = @ + 1]
       /\ IF setting.mode = "round_robin"
            THEN /\ turn' = (Position(w) % Len(Order)) + 1
                 /\ passedOver' = [v \in Worker |->
                      IF v = w \/ v \notin Selectable(tracker') THEN 0
                      ELSE passedOver[v] + 1]
            ELSE UNCHANGED <<turn, passedOver>>
       /\ Send(t, w)
  /\ phase' = [phase EXCEPT ![t] = "calling"]
  /\ UNCHANGED <<setting, monitor>>

\* RouterUnavailableError.
RouteRefused(t) ==
  /\ Holds(t) /\ Refreshes
  /\ ~\E w \in Worker : Selects(t, w, tracker')
  /\ phase' = [phase EXCEPT ![t] = "idle"]
  /\ UNCHANGED <<setting, monitor, lease, assigned, turn, passedOver,
                 workerVars>>

\* An actor gives up its place at the lock; if it was the holder its probes
\* are cancelled and nothing of them is recorded.
LeavesLock(actor) ==
  /\ lock' = RemoveFirst(lock, actor)
  /\ answer' = IF Holds(actor) THEN [w \in Worker |-> None] ELSE answer

\* The execution is cancelled or times out while it waits for its route.
RouteCancelled(t) ==
  /\ phase[t] = "refreshing" /\ LeavesLock(t)
  /\ phase' = [phase EXCEPT ![t] = "idle"]
  /\ UNCHANGED <<setting, tracker, monitor, lease, assigned, turn, streak,
                 passedOver, workerVars>>

\* release, in the finally of the execution.
Release(t) ==
  /\ lease' = [lease EXCEPT ![t] = None]
  /\ assigned' = [assigned EXCEPT ![lease[t]] = IF @ > 0 THEN @ - 1 ELSE 0]

\* The call ends: its request is over, or the execution is cancelled, times
\* out or rejects what it read, and leaves the worker with the request.
CallEnds(t) ==
  /\ phase[t] = "calling"
  /\ phase' = [phase EXCEPT ![t] = "idle"]
  /\ Release(t) /\ Disconnects(t)
  /\ UNCHANGED <<setting, tracker, lock, answer, monitor, turn, streak, passedOver>>

MonitorWakes ==
  /\ monitor = "sleeping" /\ monitor' = "probing"
  /\ lock' = Append(lock, Monitor)
  /\ UNCHANGED <<setting, tracker, answer, phase, lease, assigned, turn,
                 streak, passedOver, workerVars>>

\* start's first refresh, and each round of _health_monitor_loop.
MonitorRefreshes ==
  /\ Holds(Monitor) /\ Refreshes
  /\ monitor' = "sleeping"
  /\ UNCHANGED <<setting, phase, lease, assigned, turn, passedOver, workerVars>>

\* aclose, after the executions have been drained.
Close ==
  /\ monitor \in {"sleeping", "probing"} /\ \A t \in Task : phase[t] = "idle"
  /\ monitor' = "closed" /\ LeavesLock(Monitor)
  /\ UNCHANGED <<setting, tracker, phase, lease, assigned, turn, streak,
                 passedOver, workerVars>>

WorkerActs(t) == WorkerStep(t) /\ UNCHANGED routerVars

RouterNext ==
  \/ \E t \in Task :
       \/ RouteBegins(t) \/ RouteGranted(t) \/ RouteRefused(t)
       \/ RouteCancelled(t) \/ CallEnds(t) \/ WorkerActs(t)
  \/ \E w \in Worker : ProbeAnswers(w)
  \/ MonitorWakes \/ MonitorRefreshes \/ Close

allVars == <<routerVars, workerVars>>

RouterSpec == RouterInit /\ [][RouterNext]_allVars

(***************************************************************************)
(* Fairness: every probe has a timeout and the lock's holder resumes, and  *)
(* the workers serve what they hold, vLLM included.  Nothing makes a task  *)
(* be cancelled, the monitor wake or a router close.                       *)
(***************************************************************************)
RouterFairness ==
  /\ \A w \in Worker : WF_allVars(ProbeAnswers(w))
  /\ WF_allVars(MonitorRefreshes)
  /\ \A t \in Task :
       /\ WF_allVars(RouteGranted(t) \/ RouteRefused(t))
       /\ WF_allVars(WorkerActs(t))

FairRouterSpec == RouterSpec /\ RouterFairness

(***************************************************************************)
(* Properties.                                                             *)
(***************************************************************************)

RouterTypeOK ==
  /\ tracker \in [Worker -> Tracker]
  /\ lease \in [Task -> Worker \cup {None}]
  /\ assigned \in [Worker -> Nat]
  /\ turn \in DOMAIN Order

LeasesOn(w) == {t \in Task : lease[t] = w}

\* No lease outlives its execution, none is missing, and _assigned, from which
\* every load is computed, is the number of leases: whatever was cancelled in the line
\* for the health lock, in the probes or in the call, refused, timed out or failed.
LeasesAccounted ==
  /\ \A t \in Task : phase[t] = "calling" <=> lease[t] # None
  /\ \A w \in Worker : assigned[w] = Cardinality(LeasesOn(w))

\* Under the bounded policy a worker never serves more tasks of its own
\* branches than it has concurrency, however old the health it reported; only
\* tasks rerouted to it can exceed it.
HomeLeasesFit ==
  setting.mode = "bounded" =>
    \A w \in Worker : Cardinality({t \in LeasesOn(w) : Home[t] = w}) <= MaxConcurrency[w]

\* A worker that stays selectable gets its turn within a round, although the
\* set of selectable workers changes between any two decisions.
TurnsAreFair == \A w \in Worker : passedOver[w] < Len(Order)

\* The policies keep their promises (router.py, route), the bounded one about the
\* home workers, round robin about the turns; and the loads they weigh are those of
\* the executions that call a worker, whatever was cancelled on the way.
PoliciesKept == LeasesAccounted /\ HomeLeasesFit /\ TurnsAreFair

\* The counters and the recovering state implement the two thresholds.
Debounced == S!StatusSpec

\* Every route is decided: the lock held across probes starves nobody.
RouteAnswers ==
  \A t \in Task : phase[t] = "refreshing" ~> phase[t] # "refreshing"
=============================================================================
