--------------------------- MODULE MCEventDelivery ---------------------------
(* A question (1), two retries of its answer (2, 3) and the card of the     *)
(* one that answered (4), all on one node; a question on another node (5).  *)
EXTENDS EventDelivery

MCCall == 1..5
MCKindOf == <<"send", "retry", "retry", "structure", "send">>
MCNodeOf == <<"n", "n", "n", "n", "m">>

(* A stop and a lost connection among a question, its retry and its card;   *)
(* two retries, a stop and no loss; two nodes that share the stream.        *)
MCPlans ==
  { [calls |-> {1, 2, 4}, drops |-> 1, stops |-> 1],
    [calls |-> {1, 2, 3}, drops |-> 0, stops |-> 1],
    [calls |-> {1, 5},    drops |-> 0, stops |-> 0] }
=============================================================================
