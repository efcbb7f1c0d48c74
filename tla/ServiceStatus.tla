--------------------------- MODULE ServiceStatus ---------------------------
(***************************************************************************)
(* What the Router promises about the workers it offers: a worker leaves   *)
(* service only after FailureThreshold probes in a row failed, and comes   *)
(* back only after RecoveryThreshold in a row succeeded, whatever counters *)
(* and intermediate states the Router keeps to that end.                   *)
(***************************************************************************)
EXTENDS Integers

CONSTANTS Worker, FailureThreshold, RecoveryThreshold

VARIABLES
  inService,    \* the workers in service
  streak        \* streak[w]: the last probes of w that agree, and on what

statusVars == <<inService, streak>>

\* Longer streaks are not told apart.
MaxStreak ==
  IF FailureThreshold < RecoveryThreshold THEN RecoveryThreshold ELSE FailureThreshold

Extended(s, ok) ==
  IF s.ok = ok
    THEN [s EXCEPT !.length = IF @ < MaxStreak THEN @ + 1 ELSE @]
    ELSE [ok |-> ok, length |-> 1]

StatusInit ==
  /\ inService = Worker
  /\ streak = [w \in Worker |-> [ok |-> TRUE, length |-> 0]]

Serves(w, s) ==
  IF w \in inService THEN s.ok \/ s.length < FailureThreshold
  ELSE s.ok /\ s.length >= RecoveryThreshold

\* Some workers are probed, together.
Probed ==
  \E outcome \in [Worker -> {"none", "ok", "failed"}] :
    /\ streak' = [w \in Worker |->
         IF outcome[w] = "none" THEN streak[w]
         ELSE Extended(streak[w], outcome[w] = "ok")]
    /\ inService' = {w \in Worker :
         IF outcome[w] = "none" THEN w \in inService ELSE Serves(w, streak'[w])}

StatusSpec == StatusInit /\ [][Probed]_statusVars
=============================================================================
