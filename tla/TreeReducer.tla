---------------------------- MODULE TreeReducer ----------------------------
(***************************************************************************)
(* The mind-map of one project (treeReducer.ts) and its history, Rings,    *)
(* driven by the page (app/page.tsx): answers stream into nodes while the  *)
(* user adds notes, grafts, prunes, and goes back and forth in the history.*)
(*                                                                         *)
(* Sessions  bounds what happens in one behaviour: each behaviour keeps to *)
(*           one of these sets of gestures, besides asking questions, to   *)
(*           so many new nodes and so many entries of history, which stand *)
(*           for MAX_HISTORY.  "fail" stands for answers that fail or      *)
(*           are stopped, "cards" for semantic cards, "cardsFail" for      *)
(*           extractions that fail and are retried, "parallel" for several *)
(*           answers written at once.                                      *)
(***************************************************************************)
EXTENDS TreeEdits

CONSTANT Sessions

Gestures == {"leaf", "toggle", "graft", "prune", "cards", "cardsFail", "fail",
             "rings", "nodeRings", "parallel", "layer", "auxo", "reload"}

ASSUME TreeAssumption ==
    Sessions \subseteq [does: SUBSET Gestures, ids: Nat, entries: Nat \ {0}]

VARIABLES
    nodes,        \* nodes of the project, by id
    graftSource,  \* graftSourceId, None outside graft mode
    focus,        \* the node whose Rings are still open though its card is gone
    past, future, \* the history: past in order, future with the next redo first
    open,         \* requests for answers not over yet: <<node, parent>>
    structuring,  \* extractions of semantic cards under way: <<node, parent>>
    retryable,    \* nodes whose request has failed or was cancelled before
    origin,       \* ghost: the ancestors a node was created under
    session,      \* bound of this behaviour, one of Sessions
    orderly       \* ghost: see "What the history promises" below

vars == <<nodes, graftSource, focus, past, future, open, structuring, retryable,
          origin, session, orderly>>

-----------------------------------------------------------------------------
(* History entries.  A patch is a sequence of groups of changes.            *)

Entry(primary, affected, patch) ==
    [primary |-> primary, affected |-> affected, patch |-> patch,
     nodeUndoable |-> TRUE]

Creation(n, parent, parentBefore, parentAfter, node) ==
    <<[x \in {parent, n} |-> IF x = n THEN Change(None, node)
                             ELSE Change(parentBefore, parentAfter)]>>

Records(e, n) == {g \in 1..Len(e.patch) : n \in DOMAIN e.patch[g]}

HasCreationEntry(n) ==
    \E i \in DOMAIN past : /\ past[i].primary = n
                           /\ \E g \in Records(past[i], n) :
                                 past[i].patch[g][n].before = None

Capped(entries) == IF Len(entries) > session.entries THEN Tail(entries) ELSE entries

PushHistory(e) == past' = Capped(Append(past, e)) /\ future' = <<>>

\* Every snapshot of node n in the entries replaced by f(snapshot).
Rewrite(entries, n, f(_)) ==
    LET sync(s) == IF s = None THEN None ELSE f(s)
        synced(group) ==
            IF n \in DOMAIN group
            THEN [group EXCEPT ![n] = Change(sync(@.before), sync(@.after))]
            ELSE group
    IN [i \in DOMAIN entries |->
          [entries[i] EXCEPT !.patch = [g \in DOMAIN @ |-> synced(@[g])]]]

ApplyPatch(ns, e, direction) ==
    LET patched[g \in 0..Len(e.patch)] ==
            IF g = 0 THEN ns ELSE ApplyGroup(patched[g - 1], e.patch[g], direction)
    IN patched[Len(e.patch)]

-----------------------------------------------------------------------------
(* What the history promises, it promises to a user who goes back and forth *)
(* in order.  orderly becomes FALSE when an entry is undone or redone that  *)
(* is not the next one, when the history is used while an answer is being   *)
(* written, and when an answer is entered in the history after entries that *)
(* already build on its node (notes written below it in the meantime), or   *)
(* never, because its node was pruned before the answer ended.              *)

OpenNodes == {r[1] : r \in open}
BeingStructured == {r[1] : r \in structuring}
Fresh == {n \in NodeId \ DOMAIN origin :
             Cardinality(DOMAIN origin) < session.ids}
Does(gesture) == gesture \in session.does

\* Node n drawn under parent; where it stands matters only for its card.
BornUnder(n, parent) ==
    Override(origin, [x \in {n} |->
        IF Does("cards") THEN Ancestors(nodes, parent) \cup {parent} ELSE {}])

Init ==
    /\ nodes = [n \in {Root} |-> [NewNode("root", None, "complete")
                                     EXCEPT !.context = "valid"]]
    /\ graftSource = None
    /\ focus = None
    /\ past = <<>>
    /\ future = <<>>
    /\ open = {}
    /\ structuring = {}
    /\ retryable = {}
    /\ origin = [n \in {} |-> {}]
    /\ session \in Sessions
    /\ orderly = TRUE

-----------------------------------------------------------------------------
(* Streaming answers.                                                       *)

\* handleSendMessage up to STREAM_BRANCH_START: the question is asked at the node
\* at.  The composer refuses while that node is being answered or its card is
\* extracted, and the context compiler when it is not connected to the root.
StartBranch(n, at) ==
    LET parent == Anchor(nodes, at) IN
    /\ open # {} => Does("parallel")
    /\ n \in Fresh
    /\ at \in DOMAIN nodes \ OpenNodes
    /\ ResolveBranchParent(nodes, at) \notin BeingStructured
    /\ ReachesRoot(nodes, parent)
    /\ nodes' = Override(nodes, [x \in {parent, n} |->
                    IF x = n THEN NewNode("branch", parent, "streaming")
                    ELSE WithChild(nodes[parent], n)])
    /\ open' = open \cup {<<n, parent>>}
    /\ origin' = BornUnder(n, parent)
    /\ UNCHANGED <<graftSource, focus, past, future, structuring, retryable, session, orderly>>

\* STREAM_BRANCH_UPDATE: a token arrives; it matters only to a node that was
\* restored as stopped in the meantime.
UpdateBranch(n) ==
    /\ n \in OpenNodes \cap DOMAIN nodes
    /\ nodes[n].status # "streaming"
    /\ nodes' = [nodes EXCEPT ![n].status = "streaming"]
    /\ UNCHANGED <<graftSource, focus, past, future, open, structuring,
                   retryable, origin, session, orderly>>

\* STREAM_BRANCH_FINISH and STREAM_BRANCH_FAIL on node n with its parent there.
Settled(n, status) ==
    LET parent == nodes[n].parent
        after  == [nodes[n] EXCEPT !.status = status]
    IN
    /\ nodes' = [nodes EXCEPT ![n] = after]
    /\ IF HasCreationEntry(n)
       THEN UNCHANGED <<past, future, orderly>>
       ELSE /\ PushHistory(Entry(n, {parent, n},
                   Creation(n, parent, WithoutChild(nodes[parent], n),
                            nodes[parent], after)))
            /\ orderly' = /\ orderly
                           /\ nodes[n].children = <<>>
                           /\ \A i \in DOMAIN past : Records(past[i], n) = {}

\* The request of an answer ends; a complete answer goes on to extract its card.
SettleBranch(r, status) ==
    LET n == r[1] IN
    /\ r \in open
    /\ status = "complete" \/ Does("fail")
    /\ open' = open \ {r}
    /\ IF n \in DOMAIN nodes /\ nodes[n].parent \in DOMAIN nodes
       THEN Settled(n, status)
       ELSE /\ orderly' = FALSE
            /\ UNCHANGED <<nodes, past, future>>
    /\ structuring' = IF /\ status = "complete" /\ n \notin BeingStructured
                         /\ Does("cards")
                      THEN structuring \cup {r} ELSE structuring
    /\ retryable' = IF status = "complete" THEN retryable ELSE retryable \cup {n}
    /\ UNCHANGED <<graftSource, focus, origin, session>>

\* handleRetryAnswer: the node streams again, without a history entry.
RetryAnswer(n) ==
    /\ n \in (DOMAIN nodes \cap retryable) \ OpenNodes
    /\ nodes[n].kind = "branch"
    /\ nodes[n].status \in {"failed", "stopped"}
    /\ nodes' = [nodes EXCEPT ![n].status = "streaming"]
    /\ open' = open \cup {<<n, nodes[n].parent>>}
    /\ UNCHANGED <<graftSource, focus, past, future, structuring, retryable,
                   origin, session, orderly>>

-----------------------------------------------------------------------------
(* Semantic cards.                                                          *)

\* handleRetrySemantics
RetrySemantics(n) ==
    /\ Does("cardsFail")
    /\ n \in DOMAIN nodes \ BeingStructured
    /\ nodes[n].kind = "branch"
    /\ nodes[n].context = "missing"
    /\ nodes[n].status = "complete"
    /\ structuring' = structuring \cup {<<n, nodes[n].parent>>}
    /\ UNCHANGED <<nodes, graftSource, focus, past, future, open, retryable,
                   origin, session, orderly>>

CardAccepted(n, expectedParent) ==
    /\ n \in DOMAIN nodes
    /\ nodes[n].kind = "branch"
    /\ nodes[n].status = "complete"
    /\ nodes[n].context # "stale"
    /\ nodes[n].parent = expectedParent

\* A snapshot taken under the same parent gets the card; a stale one stays so.
SyncCard(s, parent) ==
    IF s.parent # parent \/ s.context = "stale" THEN s
    ELSE [s EXCEPT !.context = "valid"]

\* Mutant: the snapshots to redo are forgotten.
SetNodeSemanticsPastOnly(r) ==
    LET n == r[1]
        sync(s) == SyncCard(s, r[2])
    IN
    /\ r \in structuring
    /\ structuring' = structuring \ {r}
    /\ IF CardAccepted(n, r[2])
       THEN /\ nodes' = [nodes EXCEPT ![n].context = "valid"]
            /\ past'  = Rewrite(past, n, sync)
       ELSE UNCHANGED <<nodes, past>>
    /\ UNCHANGED <<graftSource, focus, future, open, retryable, origin, session, orderly>>

\* SET_NODE_SEMANTICS: the extraction has succeeded.
SetNodeSemantics(r) ==
    LET n == r[1]
        sync(s) == SyncCard(s, r[2])
    IN
    /\ r \in structuring
    /\ structuring' = structuring \ {r}
    /\ IF CardAccepted(n, r[2])
       THEN /\ nodes'  = [nodes EXCEPT ![n].context = "valid"]
            /\ past'   = Rewrite(past, n, sync)
            /\ future' = Rewrite(future, n, sync)
       ELSE UNCHANGED <<nodes, past, future>>
    /\ UNCHANGED <<graftSource, focus, open, retryable, origin, session, orderly>>

\* The extraction has failed: the answer stays without a card.
SemanticsFail(r) ==
    /\ Does("cardsFail")
    /\ r \in structuring
    /\ structuring' = structuring \ {r}
    /\ UNCHANGED <<nodes, graftSource, focus, past, future, open, retryable,
                   origin, session, orderly>>

-----------------------------------------------------------------------------
(* Notes.                                                                   *)

\* LEAF n on the node at, through commitNewChild.
Leaf(n, at) ==
    LET parent == ResolveBranchParent(nodes, at)
        leaf   == NewNode("leaf", parent, "complete")
    IN
    /\ Does("leaf")
    /\ n \in Fresh
    /\ at \in DOMAIN nodes
    /\ parent \in DOMAIN nodes
    /\ Cardinality(LeafChildren(nodes, parent)) < MaxLeaves
    /\ LET after == WithChild(nodes[parent], n) IN
       /\ nodes' = Override(nodes, [x \in {parent, n} |->
                                      IF x = n THEN leaf ELSE after])
       /\ PushHistory(Entry(n, {parent, n, at},
                            Creation(n, parent, nodes[parent], after, leaf)))
    /\ origin' = BornUnder(n, parent)
    /\ UNCHANGED <<graftSource, focus, open, structuring, retryable, session, orderly>>

\* A snapshot of a note follows the choice of the user.
SyncLeaf(s, included) ==
    IF s.kind = "leaf" THEN [s EXCEPT !.included = included] ELSE s

\* TOGGLE_LEAF_CONTEXT: no entry, every snapshot follows.
ToggleLeafContext(n) ==
    LET flipped == ~nodes[n].included
        sync(s) == SyncLeaf(s, flipped)
    IN
    /\ Does("toggle")
    /\ n \in DOMAIN nodes
    /\ nodes[n].kind = "leaf"
    /\ nodes'  = [nodes EXCEPT ![n].included = flipped]
    /\ past'   = Rewrite(past, n, sync)
    /\ future' = Rewrite(future, n, sync)
    /\ UNCHANGED <<graftSource, focus, open, structuring, retryable, origin,
                   session, orderly>>

-----------------------------------------------------------------------------
(* Grafting and pruning.                                                    *)

GraftStart(n) ==
    /\ Does("graft")
    /\ graftSource = None
    /\ n \in DOMAIN nodes \ {Root}
    /\ graftSource' = n
    /\ UNCHANGED <<nodes, focus, past, future, open, structuring, retryable,
                   origin, session, orderly>>

\* Mutant: a node may be moved below itself.
GraftableBelow(source, target) ==
    /\ source \in DOMAIN nodes \ {Root, target}
    /\ nodes[target].kind # "leaf"
    /\ nodes[source].parent # target
    /\ \A n \in (Subtree(nodes, source) \cup {target, nodes[source].parent})
                   \cap DOMAIN nodes : nodes[n].status # "streaming"

Graftable(source, target) ==
    LET subtree == Subtree(nodes, source)
        touched == subtree \cup {target, nodes[source].parent}
    IN
    /\ source \in DOMAIN nodes \ {Root, target}
    /\ nodes[target].kind # "leaf"
    /\ nodes[source].parent # target
    /\ target \notin subtree
    /\ \A n \in touched \cap DOMAIN nodes : nodes[n].status # "streaming"

\* Mutant: only the moved node turns stale, not what hangs below it.
MovedAlone(source, target) ==
    [n \in {source} |->
        [nodes[n] EXCEPT !.parent = target,
                         !.context = IF nodes[n].kind = "branch" THEN "stale"
                                     ELSE @]]

\* The nodes of the moved subtree that change: answers turn stale, the source
\* gets its new parent.
Moved(source, target) ==
    LET isAnswer(n) == /\ nodes[n].kind = "branch" /\ ~nodes[n].task
                       /\ nodes[n].context # "stale"
        after(n) ==
            [nodes[n] EXCEPT
                !.context = IF isAnswer(n) THEN "stale" ELSE @,
                !.parent  = IF n = source THEN target ELSE @]
    IN [n \in {m \in Subtree(nodes, source) \cap DOMAIN nodes :
                  m = source \/ isAnswer(m)} |-> after(n)]

\* The two parents: the old one may be missing.
Reparented(source, target) ==
    LET old == {nodes[source].parent} \cap DOMAIN nodes IN
    [n \in old \cup {target} |->
        IF n \in old THEN WithoutChild(nodes[n], source)
        ELSE IF Contains(nodes[n].children, source) THEN nodes[n]
        ELSE WithChild(nodes[n], source)]

\* What turns the nodes into their values in new, as a group of changes.
Changes(new) == [n \in DOMAIN new |-> Change(nodes[n], new[n])]

\* GRAFT_CONFIRM: a click on a node in graft mode.
GraftConfirm(target) ==
    /\ graftSource # None
    /\ target \in DOMAIN nodes
    /\ graftSource' = None
    /\ IF Graftable(graftSource, target)
       THEN LET parents == Reparented(graftSource, target)
                moved   == Moved(graftSource, target)
            IN /\ nodes' = Override(Override(nodes, parents), moved)
               /\ PushHistory(Entry(graftSource, DOMAIN parents \cup DOMAIN moved,
                                    <<Changes(parents), Changes(moved)>>))
       ELSE UNCHANGED <<nodes, past, future>>
    /\ UNCHANGED <<focus, open, structuring, retryable, origin, session, orderly>>

GraftCancel ==
    /\ graftSource # None
    /\ graftSource' = None
    /\ UNCHANGED <<nodes, focus, past, future, open, structuring, retryable,
                   origin, session, orderly>>

\* PRUNE of a node and its subtree, confirmed in the dialog.
Prune(n) ==
    LET subtree == Subtree(nodes, n)
        deleted == subtree \cap DOMAIN nodes
        parent  == {nodes[n].parent} \cap DOMAIN nodes
    IN
    /\ Does("prune")
    /\ n \in DOMAIN nodes \ {Root}
    /\ nodes' = [m \in DOMAIN nodes \ deleted |->
                    IF m \in parent THEN WithoutChild(nodes[m], n) ELSE nodes[m]]
    /\ graftSource' = IF graftSource \in subtree THEN None ELSE graftSource
    /\ PushHistory(Entry(nodes[n].parent, parent \cup deleted,
           <<[m \in parent  |-> Change(nodes[m], WithoutChild(nodes[m], n))],
             [m \in deleted |-> Change(nodes[m], None)]>>))
    /\ focus' \in {focus, None} \cup
                  (IF Does("nodeRings") THEN Drawn(nodes) \cap deleted ELSE {})
    /\ UNCHANGED <<open, structuring, retryable, origin, session, orderly>>

-----------------------------------------------------------------------------
(* Rings: undo and redo, of the next entry or of the next one of a node.    *)

UndoAt(i) ==
    LET e == past[i] IN
    /\ nodes' = ApplyPatch(nodes, e, "undo")
    /\ past' = RemoveAt(past, i)
    /\ future' = <<e>> \o future
    /\ orderly' = (orderly /\ i = Len(past) /\ open = {})
    /\ UNCHANGED <<graftSource, open, structuring, retryable, origin, session>>

RedoAt(i) ==
    LET e == future[i] IN
    /\ nodes' = ApplyPatch(nodes, e, "redo")
    /\ past' = Capped(Append(past, e))
    /\ future' = RemoveAt(future, i)
    /\ orderly' = (orderly /\ i = 1 /\ open = {})
    /\ UNCHANGED <<graftSource, open, structuring, retryable, origin, session>>

Affecting(entries, n) == {i \in DOMAIN entries : n \in entries[i].affected}

\* UNDO and REDO, while the panel shows the whole history.
Undo == Does("rings") /\ past # <<>> /\ UndoAt(Len(past)) /\ focus' = None
Redo == Does("rings") /\ future # <<>> /\ RedoAt(1) /\ focus' = None

\* The panel shows one node: it is opened on a card and stays open when the
\* card goes.
PanelOn(n) ==
    /\ Does("nodeRings")
    /\ n \in Drawn(nodes) \cup {focus}
    /\ focus' = IF n \in Drawn(nodes') THEN None ELSE n

\* Mutant: an Auxo batch is undone like any other entry.
UndoNodeThroughBatch(n) ==
    /\ \E i \in Affecting(past, n) :
          (\A j \in Affecting(past, n) : j <= i) /\ UndoAt(i)
    /\ PanelOn(n)

\* UNDO_NODE and REDO_NODE: latestPastIndexForNode, firstFutureIndexForNode.
UndoNode(n) ==
    /\ \E i \in Affecting(past, n) :
          /\ \A j \in Affecting(past, n) : j <= i
          /\ past[i].nodeUndoable
          /\ UndoAt(i)
    /\ PanelOn(n)
RedoNode(n) ==
    /\ \E i \in Affecting(future, n) :
          /\ \A j \in Affecting(future, n) : i <= j
          /\ future[i].nodeUndoable
          /\ RedoAt(i)
    /\ PanelOn(n)

-----------------------------------------------------------------------------
(* Auxo, layers and the browser.                                            *)

\* APPLY_AUXO_PLAN on a root without children: one task, or two of which the
\* second may hang from the first.  One entry for all of them, which node
\* Rings do not touch.
ApplyAuxoPlan(a, b, above) ==
    LET ids   == IF a = b THEN <<a>> ELSE <<a, b>>
        up(n) == IF n = a THEN Root ELSE above
        under(n) == Without(ids, {c \in ToSet(ids) : up(c) # n})
        batch == [n \in ToSet(ids) |->
                    [NewNode("branch", up(n), "complete") EXCEPT
                        !.children = under(n), !.context = "valid", !.task = TRUE]]
        root  == [nodes[Root] EXCEPT !.children = under(Root)]
    IN
    /\ Does("auxo")
    /\ {a, b} \subseteq Fresh /\ Cardinality(DOMAIN origin) + Len(ids) <= session.ids
    /\ Root \in DOMAIN nodes /\ nodes[Root].children = <<>>
    /\ ~\E n \in DOMAIN nodes : nodes[n].task
    /\ nodes' = Override(Override(nodes, batch), [n \in {Root} |-> root])
    /\ PushHistory([Entry(Root, {Root, a, b},
           <<[n \in {Root, a, b} |-> IF n = Root THEN Change(nodes[Root], root)
                                     ELSE Change(None, batch[n])]>>)
         EXCEPT !.nodeUndoable = FALSE])
    /\ origin' = Override(origin, [n \in {a, b} |-> {}])
    /\ UNCHANGED <<graftSource, focus, open, structuring, retryable, session, orderly>>

\* LAYER_MOVE_CONFIRM of a node that is still there: its entry holds the node
\* before and after, which differ in the layer alone.
LayerMove(n) ==
    /\ Does("layer")
    /\ n \in DOMAIN nodes
    /\ nodes[n].kind = "branch"
    /\ nodes[n].status # "streaming"
    /\ PushHistory(Entry(n, {n}, <<[x \in {n} |-> Change(nodes[x], nodes[x])]>>))
    /\ UNCHANGED <<nodes, graftSource, focus, open, structuring, retryable,
                   origin, session, orderly>>

\* The page is loaded again (loadInitialState, HYDRATE): the tree is there as
\* last saved.  Tokens are not saved: a retried answer may come back as it had
\* failed before.  The history and what the page was waiting for are gone.
Reload ==
    /\ Does("reload")
    /\ \E failed \in SUBSET {n \in retryable \cap DOMAIN nodes : nodes[n].status = "streaming"} :
          nodes' = [n \in DOMAIN nodes |->
                      IF n \in failed THEN [nodes[n] EXCEPT !.status = "failed"]
                      ELSE NormalizeNode(nodes[n])]
    /\ graftSource' = None /\ focus' = None
    /\ past' = <<>> /\ future' = <<>>
    /\ open' = {} /\ structuring' = {} /\ retryable' = {}
    /\ UNCHANGED <<origin, session, orderly>>

Next ==
    \/ \E n \in NodeId, at \in AnyId : StartBranch(n, at) \/ Leaf(n, at)
    \/ \E n \in NodeId : \/ UpdateBranch(n) \/ RetryAnswer(n)
                        \/ RetrySemantics(n) \/ ToggleLeafContext(n)
                        \/ GraftStart(n) \/ Prune(n) \/ LayerMove(n)
    \/ \E r \in open, status \in Status \ {"streaming"} : SettleBranch(r, status)
    \/ \E r \in structuring : SetNodeSemantics(r) \/ SemanticsFail(r)
    \/ \E a, b \in NodeId : \E above \in {Root, a} : ApplyAuxoPlan(a, b, above)
    \/ GraftCancel
    \/ Reload
    \/ Undo
    \/ Redo
    \/ \E n \in AnyId : GraftConfirm(n) \/ UndoNode(n) \/ RedoNode(n)

TreeSpec == Init /\ [][Next]_vars

-----------------------------------------------------------------------------
(* Properties.                                                              *)

Snapshots(n) ==
    (UNION {UNION {{e.patch[g][n].before, e.patch[g][n].after} :
                      g \in Records(e, n)} : e \in ToSet(past) \cup ToSet(future)})
        \ {None}

\* Every variable has its type.
TreeTypeOK ==
    /\ DOMAIN nodes \subseteq AnyId
    /\ \A n \in DOMAIN nodes : nodes[n] \in Node
    /\ session \in Sessions
    /\ graftSource \in AnyId \cup {None}
    /\ Len(past) <= session.entries
    /\ focus \in AnyId \cup {None}
    /\ \A n \in AnyId : Snapshots(n) \subseteq Node
    /\ open \in SUBSET (NodeId \X AnyId)
    /\ structuring \in SUBSET (NodeId \X AnyId)
    /\ retryable \in SUBSET NodeId
    /\ DOMAIN origin \subseteq NodeId
    /\ orderly \in BOOLEAN

\* Used in order, the reducer keeps a tree: the two halves of every edge agree
\* (parentId and children), every node hangs from the root, and notes have no
\* children.  commitNewChild, GRAFT_CONFIRM, PRUNE and applyPatch each edit one
\* half of the edges and then the other.  Whatever is undone in whatever order,
\* no child is listed twice (mergeTargetChildren inserts into lists that may
\* hold the child already).
WellFormedTree ==
    /\ TreeTypeOK
    /\ \A n \in DOMAIN nodes : IsInjective(nodes[n].children)
    /\ orderly =>
        /\ Root \in DOMAIN nodes /\ nodes[Root].parent = None
        /\ \A n \in DOMAIN nodes :
              /\ n # Root => /\ nodes[n].parent \in DOMAIN nodes
                             /\ n \in ChildrenOf(nodes, nodes[n].parent)
              /\ \A c \in ChildrenOf(nodes, n) :
                    c \in DOMAIN nodes /\ nodes[c].parent = n
              /\ nodes[n].kind = "leaf" => nodes[n].children = <<>>
        /\ DOMAIN nodes \subseteq Subtree(nodes, Root)

\* Used in order, a card that counts as valid describes its node where it
\* stands: the ancestors are those the answer was written under (README.md:51).
CardsFitTheirPath ==
    orderly /\ Does("cards") =>
        \A n \in DOMAIN nodes \ {Root} :
            nodes[n].context = "valid" /\ ~nodes[n].task => Ancestors(nodes, n) = origin[n]

\* Snapshots follow what is edited without an entry: the user's choice of notes
\* and, under the same parent, the semantic card.  A snapshot left behind would
\* bring the old value back with the next undo or redo.
SnapshotsFollow ==
    \A n \in DOMAIN nodes : \A s \in Snapshots(n) :
        /\ s.kind = "leaf" => s.included = nodes[n].included
        /\ s.parent = nodes[n].parent /\ nodes[n].context = "valid"
              => s.context # "missing"

\* What a node is apart from the status of its answer.
Shape(ns) == [n \in DOMAIN ns |-> [ns[n] EXCEPT !.status = "complete"]]

\* Used in order, undo and redo are each other's inverse: the last entry undone
\* and redone, and the next one redone and undone, leave the tree as it was.
HistoryReplays ==
    orderly /\ open = {} =>
      /\ past # <<>> =>
            LET e == past[Len(past)] IN
            Shape(ApplyPatch(ApplyPatch(nodes, e, "undo"), e, "redo")) = Shape(nodes)
      /\ future # <<>> =>
            LET e == future[1] IN
            Shape(ApplyPatch(ApplyPatch(nodes, e, "redo"), e, "undo")) = Shape(nodes)

\* The children of n an entry adds or removes; all of them when the entry
\* creates or deletes n, because then the whole snapshot is put in place.
EdgesOf(e, n) ==
    UNION {LET c == e.patch[g][n] IN
           IF c.before = None \/ c.after = None THEN AnyId
           ELSE (ToSet(c.before.children) \cup ToSet(c.after.children))
                  \ (ToSet(c.before.children) \cap ToSet(c.after.children)) :
           g \in Records(e, n)}

OtherEdgesKept(e) ==
    \A n \in DOMAIN nodes \cap DOMAIN nodes' :
        Without(nodes'[n].children, EdgesOf(e, n)) = Without(nodes[n].children, EdgesOf(e, n))

\* Undoing or redoing an entry, in whatever order, leaves every edge the entry
\* does not speak of where it is (the promise of mergeTargetChildren).
UnrelatedEdgesKept ==
    [][ /\ \A i \in DOMAIN past :
              future' = <<past[i]>> \o future => OtherEdgesKept(past[i])
        /\ \A i \in DOMAIN future :
              future' = RemoveAt(future, i) /\ past' = Capped(Append(past, future[i]))
                => OtherEdgesKept(future[i]) ]_vars

\* Node Rings neither undo an Auxo batch nor reach through it, so that a partial
\* undo cannot orphan tasks (treeReducer.ts:956-959): in whatever order answers
\* and notes below the tasks are undone and redone, node by node and as a whole,
\* the tasks of a batch are all there or all gone, as the history says, and each
\* hangs from the parent it names.  Grafts and prunes are excepted: an entry that
\* moved a task can be redone on the task alone, below a parent that is gone.
PlansStandWhole ==
    Does("auxo") /\ ~Does("prune") /\ ~Does("graft") =>
        /\ \A e \in ToSet(past) : e.nodeUndoable \/ e.affected \subseteq DOMAIN nodes
        /\ \A e \in ToSet(future) : e.nodeUndoable \/ e.affected \cap DOMAIN nodes = {Root}
        /\ \A n \in DOMAIN nodes : nodes[n].task =>
              nodes[n].parent \in DOMAIN nodes /\ n \in ChildrenOf(nodes, nodes[n].parent)

\* Undo and redo may take a node away, but never turn the complete answer of a
\* node that stays into an earlier, unfinished one (the purpose of
\* rewriteHistorySnapshots: no "pre-rewrite version of a node").  Violated.
AnswersKept ==
    [][ Undo \/ Redo =>
          \A n \in DOMAIN nodes \cap DOMAIN nodes' :
              nodes[n].status = "complete" => nodes'[n].status = "complete" ]_vars
=============================================================================
