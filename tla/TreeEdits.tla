----------------------------- MODULE TreeEdits -----------------------------
(***************************************************************************)
(* What the modules of the mind-map share: nodes, the walks along their    *)
(* edges, and how the history (Rings) puts snapshots of nodes back.        *)
(*                                                                         *)
(* A node keeps what the reducer decides on: its kind, its two halves of   *)
(* the tree (parent, children), the status of its answer, the state of its *)
(* semantic card, whether it is a task of Auxo and whether a note is        *)
(* included in the context.  Texts, layers, offsets and nutrients are left  *)
(* out: a move to another layer only leaves its entry.                     *)
(*                                                                         *)
(* Root     the root of a project.  None   no node.                        *)
(* NodeId   the ids that may be drawn; an id is never drawn twice.         *)
(* MaxLeaves   MAX_LEAVES_PER_NODE of the code.                            *)
(***************************************************************************)
EXTENDS Naturals, FiniteSets, SequencesExt

CONSTANTS NodeId, Root, None, MaxLeaves

ASSUME EditsAssumption ==
    /\ Root \notin NodeId
    /\ None \notin NodeId \cup {Root}
    /\ MaxLeaves \in Nat \ {0}

AnyId == NodeId \cup {Root}
Status == {"streaming", "complete", "stopped", "failed"}

Node == [kind: {"root", "branch", "leaf"}, parent: AnyId \cup {None},
         children: Seq(AnyId), status: Status,
         context: {"missing", "valid", "stale"}, included: BOOLEAN,
         task: BOOLEAN]

ASSUME NoneAssumption == None \notin Node

-----------------------------------------------------------------------------
(* The tree.  Lookups in the code tolerate missing nodes.                   *)

ChildrenOf(ns, n) == IF n \in DOMAIN ns THEN ToSet(ns[n].children) ELSE {}

Subtree(ns, n) ==
    {m \in AnyId : \A S \in SUBSET AnyId :
        (n \in S /\ \A x \in S : ChildrenOf(ns, x) \subseteq S) => m \in S}

Ancestors(ns, n) ==
    LET up(x) == IF x \in DOMAIN ns THEN {ns[x].parent} \ {None} ELSE {} IN
    {m \in AnyId : \A S \in SUBSET AnyId :
        (up(n) \subseteq S /\ \A x \in S : up(x) \subseteq S) => m \in S}

ReachesRoot(ns, n) == n = Root \/ Root \in Ancestors(ns, n)

ResolveBranchParent(ns, n) ==
    IF n \in DOMAIN ns /\ ns[n].kind = "leaf" /\ ns[n].parent # None
    THEN ns[n].parent ELSE n

\* The node a question is asked under (resolveAnchorNode).
Anchor(ns, n) ==
    LET p == ns[n].parent IN
    IF ns[n].kind # "leaf" THEN n
    ELSE IF p \in DOMAIN ns /\ ns[p].kind # "leaf" THEN p ELSE Root

LeafChildren(ns, n) ==
    {c \in ChildrenOf(ns, n) \cap DOMAIN ns : ns[c].kind = "leaf"}

NewNode(kind, parent, status) ==
    [kind |-> kind, parent |-> parent, children |-> <<>>, status |-> status,
     context |-> "missing", included |-> FALSE, task |-> FALSE]

\* The list s without the members of S (filter), as a recursive function.
Without(s, S) ==
    LET kept[i \in 0..Len(s)] ==
            IF i = 0 THEN <<>>
            ELSE IF s[i] \in S THEN kept[i - 1] ELSE Append(kept[i - 1], s[i])
    IN kept[Len(s)]

WithChild(node, c)    == [node EXCEPT !.children = Append(@, c)]
WithoutChild(node, c) == [node EXCEPT !.children = Without(@, {c})]

\* The nodes with a card in the scene; notes hang from theirs.
Drawn(ns) == {n \in Subtree(ns, Root) \cap DOMAIN ns : ns[n].kind # "leaf"}

\* f overridden by g.
Override(f, g) ==
    [x \in DOMAIN f \cup DOMAIN g |-> IF x \in DOMAIN g THEN g[x] ELSE f[x]]

-----------------------------------------------------------------------------
(* The history.  A change of a node holds the snapshots before and after,   *)
(* None for no node; a group of changes maps nodes to their changes.        *)

Change(before, after) == [before |-> before, after |-> after]

\* Mutant: an edge comes back at the end, not next to its recorded sibling.
PlaceAtEnd(merged, target, c) == Append(merged, c)

\* Child c of target comes back before its next recorded sibling that is there,
\* else after the previous one, else at the end.
Place(merged, target, c) ==
    LET i == SelectInSeq(target, LAMBDA x : x = c)
        placed(x) == Contains(merged, x)
        next  == SelectInSubSeq(target, i + 1, Len(target), placed)
        prev  == SelectLastInSubSeq(target, 1, i - 1, placed)
    IN IF next # 0
       THEN InsertAt(merged, SelectInSeq(merged, LAMBDA x : x = target[next]), c)
       ELSE IF prev # 0
       THEN InsertAt(merged, 1 + SelectLastInSubSeq(merged, 1, Len(merged),
                                     LAMBDA x : x = target[prev]), c)
       ELSE Append(merged, c)

MergeTargetChildren(current, source, target) ==
    LET adds    == Without(target, ToSet(source))
        removes == Without(source, ToSet(target))
        merged[k \in 0..Len(adds)] ==
            IF k = 0 THEN Without(current, ToSet(removes) \cup ToSet(adds))
            ELSE Place(merged[k - 1], target, adds[k])
    IN merged[Len(adds)]

\* Mutant: the recorded children overwrite the current ones.
ResolveByOverwriting(ns, n, source, target) == target

ResolveNodePatchValue(ns, n, source, target) ==
    IF target = None \/ source = None \/ n \notin DOMAIN ns THEN target
    ELSE [target EXCEPT !.children =
            MergeTargetChildren(ns[n].children, source.children, @)]

NormalizeNode(node) ==
    [node EXCEPT !.status = IF @ = "streaming" THEN "stopped" ELSE @]

ApplyGroup(ns, group, direction) ==
    LET value(n) ==
            IF direction = "undo"
            THEN ResolveNodePatchValue(ns, n, group[n].after, group[n].before)
            ELSE ResolveNodePatchValue(ns, n, group[n].before, group[n].after)
        deleted == {n \in DOMAIN group : value(n) = None}
    IN [n \in (DOMAIN ns \cup DOMAIN group) \ deleted |->
            IF n \in DOMAIN group THEN NormalizeNode(value(n)) ELSE ns[n]]
=============================================================================
