------------------------------ MODULE MCForest ------------------------------
(***************************************************************************)
(* Instance of Forest for TLC.  Ids of a kind are interchangeable, except  *)
(* that one file is unreadable.                                            *)
(***************************************************************************)
EXTENDS Forest, TLC

CONSTANTS pa, pb, n1, n2, f1, f2

Session(does, many, ids, entries) ==
    [does |-> does, projects |-> many, ids |-> ids, entries |-> entries]

MCSessions ==
    {Session({"rings", "nodeRings", "switch", "ask", "parallel"}, 2, 2, 3),
     Session({"rings", "nodeRings", "switch", "delete", "leaf"}, 2, 2, 3),
     Session({"rings", "delete", "switch", "ask", "reload"}, 2, 2, 2),
     Session({"rings", "leaf", "ask", "prune", "select", "reload"}, 1, 2, 3),
     Session({"rings", "switch", "files", "removal", "choice", "reload"}, 2, 0, 2),
     Session({"rings", "delete", "files", "ask", "reload"}, 2, 1, 2),
     Session({"rings", "delete", "leaf", "transfers"}, 2, 1, 2),
     Session({"switch", "leaf", "transfers", "select", "prune"}, 2, 2, 2),
     Session({"rings", "ask", "retry", "select", "parallel", "reload"}, 1, 2, 2),
     Session({"rings", "delete", "switch", "ask", "retry", "full", "reload"}, 2, 1, 2)}

MCPageSessions == {Session({"rings", "leaf", "ask"}, 1, 2, 3)}

MCProjectId == {pa, pb}
MCNodeId == {n1, n2}
MCNutrientId == {f1, f2}
MCUnreadable == {f2}
MCSymmetry == Permutations(ProjectId) \cup Permutations(NodeId)
=============================================================================
