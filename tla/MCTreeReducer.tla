--------------------------- MODULE MCTreeReducer ---------------------------
(***************************************************************************)
(* Instance of TreeReducer for TLC.  Ids are interchangeable.              *)
(***************************************************************************)
EXTENDS TreeReducer, TLC

CONSTANTS n1, n2, n3

Session(does, ids, entries) == [does |-> does, ids |-> ids, entries |-> entries]

\* Few gestures with three new nodes, more of them with two.
MCSessions ==
    {Session({"rings", "nodeRings", "leaf", "prune", "parallel"}, 2, 2),
     Session({"rings", "graft", "prune"}, 2, 2),
     Session({"rings", "nodeRings", "graft", "cards", "cardsFail", "parallel"}, 2, 2),
     Session({"rings", "leaf", "fail", "parallel"}, 2, 2),
     Session({"rings", "nodeRings", "leaf", "toggle"}, 2, 2),
     Session({"rings", "nodeRings", "leaf"}, 3, 2),
     Session({"rings", "graft"}, 3, 2),
     Session({"graft", "cards"}, 3, 1),
     Session({"rings", "nodeRings", "leaf", "auxo"}, 3, 3),
     Session({"rings", "graft", "auxo"}, 2, 2),
     Session({"rings", "nodeRings", "prune", "auxo"}, 2, 2),
     Session({"rings", "graft", "layer"}, 2, 2),
     Session({"rings", "nodeRings", "leaf", "layer"}, 2, 2),
     Session({"rings", "leaf", "fail", "parallel", "reload"}, 2, 2)}

MCRetrySessions == {Session({"rings", "leaf", "fail"}, 2, 3)}

MCNodeId == {n1, n2, n3}
MCSymmetry == Permutations(NodeId)
=============================================================================
