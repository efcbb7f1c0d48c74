---------------------------- MODULE MCScheduler ----------------------------
(***************************************************************************)
(* Instances of Scheduler for TLC.  Tasks are numbered so that a cfg can   *)
(* choose how many there are; the priorities make an interactive task (0)  *)
(* arrive behind, between and ahead of background ones (2), with two equal *)
(* ones for the order of arrival.                                          *)
(***************************************************************************)
EXTENDS Scheduler

CONSTANT TaskCount

MCTask == 1..TaskCount
MCSuspending == {2}
MCPriorityOf == [t \in 1..TaskCount |-> IF t = 1 THEN 0 ELSE 2]
=============================================================================
