----------------------------- MODULE MCRuntime -----------------------------
(***************************************************************************)
(* Instances of Runtime for TLC.  Tasks are numbered, so that a cfg can    *)
(* choose how many there are; task 1 is interactive (priority 0), the      *)
(* others are background work (2).                                         *)
(*                                                                         *)
(* A second retry of a task and a retry past the limit of two attempts     *)
(* both need a third id.  To keep the instance small, it is drawn for a    *)
(* retry only and when nothing is under way, and nobody cancels it or      *)
(* shuts the application down from then on (the bound ThirdTaskIsAlone).   *)
(***************************************************************************)
EXTENDS Runtime

CONSTANT TaskCount

MCTask == 1..TaskCount
MCPriorityOf == [t \in 1..TaskCount |-> IF t = 1 THEN 0 ELSE 2]

NothingUnderWay ==
  /\ Unfinished = {} /\ cleanup = {} /\ outbox = {}
  /\ \A c \in Canceller : cancelOf[c] = NoTask
  /\ \A t \in Task : StateOf(t) \in {"absent"} \cup Terminal

ThirdTaskIsAlone ==
  \A t \in Task : t > 2 =>
    IF StateOf(t) = "absent"
    THEN StateOf(t)' # "absent" =>
            NothingUnderWay /\ ~Closing /\ record'[t].retryOf # NoTask
    ELSE UNCHANGED <<cancelOf, shutdown>>

MCRuntimeSpec ==
  /\ RuntimeInit /\ [][RuntimeNext /\ ThirdTaskIsAlone]_runtimeVars
  /\ RuntimeFairness
=============================================================================
