------------------------------ MODULE MCRouter ------------------------------
(***************************************************************************)
(* Instance of Router for TLC: a real gateway and a mock, one permit each; *)
(* both tasks are at home on the gateway.                                  *)
(***************************************************************************)
EXTENDS Router, TLC

CONSTANTS t1, t2, w1, w2

MCTask == {t1, t2}
MCWorker == {w1, w2}
MCChat == {t1}
MCReal == {w1}
MCOrder == <<w1, w2>>
MCMaxConcurrency == w1 :> 1 @@ w2 :> 1
MCHome == [t \in Task |-> w1]

Built(mode, refresh, flaky) == [mode |-> mode, refresh |-> refresh, flaky |-> flaky]

MCSetting == {Built("round_robin", TRUE, {w2}), Built("least_load", FALSE, {w1}),
              Built("branch_affinity", TRUE, {w1}), Built("bounded", TRUE, {w2})}
=============================================================================
