----------------------------- MODULE TreeProofs -----------------------------
(***************************************************************************)
(* What the mind-map of a project and its history keep, whatever is undone *)
(* in whatever order.  The argument: take the looks a node has had, what   *)
(* it is apart from its children and its status.  Looks are never lost, new *)
(* ones are only added in agreement with the old, and the current tree and *)
(* every snapshot of the history show a look seen before.                  *)
(* The last part is about the tasks of a plan, while nothing is moved.      *)
(***************************************************************************)
EXTENDS TreeReducer, TreeEditsProofs

-----------------------------------------------------------------------------
(* The inductive invariant.                                                 *)

Look == [kind: {"root", "branch", "leaf"}, parent: AnyId \cup {None},
         context: {"missing", "valid", "stale"}, included: BOOLEAN,
         task: BOOLEAN]

LookOf(s) == [kind |-> s.kind, parent |-> s.parent, context |-> s.context,
              included |-> s.included, task |-> s.task]

\* Two looks of one node: a card seen under a parent is not missing there.
Agree(l, m) ==
    /\ l.kind = m.kind
    /\ l.task = m.task
    /\ l.kind = "leaf" => l.included = m.included
    /\ ~l.task /\ l.parent = m.parent /\ l.context = "valid" => m.context # "missing"

\* What a single look keeps to.
Proper(n, l) ==
    /\ n # Root => l.parent # None /\ l.kind # "root"
    /\ l.kind = "leaf" => l.context = "missing"
    /\ l.task => l.context = "valid"

\* seen: pairs of a node and a look.  ids: the nodes ever drawn.
Consistent(seen, ids) ==
    /\ seen \in SUBSET ((ids \cup {Root}) \X Look)
    /\ \A n, l : <<n, l>> \in seen => Proper(n, l)
    /\ \A n, l, m : <<n, l>> \in seen /\ <<n, m>> \in seen => Agree(l, m)

\* s may stand for node n: no child is listed twice, all have been drawn.
VersionOK(seen, ids, n, s) ==
    /\ s \in Node
    /\ IsInjective(s.children)
    /\ ToSet(s.children) \subseteq ids
    /\ <<n, LookOf(s)>> \in seen

NodesOK(seen, ids, ns) ==
    /\ ns \in NodeMap
    /\ Root \in DOMAIN ns
    /\ \A n \in DOMAIN ns : VersionOK(seen, ids, n, ns[n])

SnapshotOK(seen, ids, n, s) ==
    \/ s = None /\ n # Root
    \/ VersionOK(seen, ids, n, s)

GroupOK(seen, ids, group) ==
    /\ group \in Group
    /\ \A n \in DOMAIN group : /\ SnapshotOK(seen, ids, n, group[n].before)
                               /\ SnapshotOK(seen, ids, n, group[n].after)

EntryType == [primary: AnyId \cup {None}, affected: SUBSET AnyId, patch: Seq(Group),
              nodeUndoable: BOOLEAN]

EntryOK(seen, ids, e) ==
    /\ e \in EntryType
    /\ \A g \in 1..Len(e.patch) : GroupOK(seen, ids, e.patch[g])

HistoryOK(seen, ids, entries) ==
    /\ entries \in Seq(EntryType)
    /\ \A i \in 1..Len(entries) : EntryOK(seen, ids, entries[i])

\* The tree, the history and the nodes drawn.
StoryOK(ns, before, after, ids) ==
    \E seen : /\ Consistent(seen, ids)
              /\ NodesOK(seen, ids, ns)
              /\ HistoryOK(seen, ids, before)
              /\ HistoryOK(seen, ids, after)

VarsOK ==
    /\ session \in Sessions
    /\ graftSource \in AnyId \cup {None}
    /\ focus \in AnyId \cup {None}
    /\ open \in SUBSET (NodeId \X AnyId)
    /\ structuring \in SUBSET (NodeId \X AnyId)
    /\ retryable \in SUBSET NodeId
    /\ DOMAIN origin \subseteq NodeId
    /\ orderly \in BOOLEAN
    /\ Len(past) <= session.entries

TreeInv == VarsOK /\ StoryOK(nodes, past, future, DOMAIN origin)

-----------------------------------------------------------------------------
(* What was right stays right when more is seen and more nodes are drawn.   *)

LEMMA VersionGrows ==
    ASSUME NEW seen, NEW ids, NEW seen2, NEW ids2, seen \subseteq seen2, ids \subseteq ids2,
           NEW n, NEW s, VersionOK(seen, ids, n, s)
    PROVE  VersionOK(seen2, ids2, n, s)
BY DEF VersionOK

LEMMA NodesGrow ==
    ASSUME NEW seen, NEW ids, NEW seen2, NEW ids2, seen \subseteq seen2, ids \subseteq ids2,
           NEW ns, NodesOK(seen, ids, ns)
    PROVE  NodesOK(seen2, ids2, ns)
BY VersionGrows DEF NodesOK

LEMMA HistoryGrows ==
    ASSUME NEW seen, NEW ids, NEW seen2, NEW ids2, seen \subseteq seen2, ids \subseteq ids2,
           NEW entries, HistoryOK(seen, ids, entries)
    PROVE  HistoryOK(seen2, ids2, entries)
<1>1. ASSUME NEW n, NEW s, SnapshotOK(seen, ids, n, s)
      PROVE  SnapshotOK(seen2, ids2, n, s)
    BY <1>1, VersionGrows DEF SnapshotOK
<1>2. ASSUME NEW group, GroupOK(seen, ids, group)
      PROVE  GroupOK(seen2, ids2, group)
    BY <1>1, <1>2 DEF GroupOK
<1>3. ASSUME NEW e, EntryOK(seen, ids, e)
      PROVE  EntryOK(seen2, ids2, e)
    BY <1>2, <1>3 DEF EntryOK
<1> QED BY <1>3 DEF HistoryOK

-----------------------------------------------------------------------------
(* Histories.                                                               *)

LEMMA EmptyHistory ==
    ASSUME NEW seen, NEW ids
    PROVE  HistoryOK(seen, ids, <<>>)
BY DEF HistoryOK

LEMMA PushedHistory ==
    ASSUME NEW seen, NEW ids, NEW entries, HistoryOK(seen, ids, entries),
           NEW e, EntryOK(seen, ids, e), session.entries \in Nat \ {0},
           Len(entries) <= session.entries
    PROVE  /\ HistoryOK(seen, ids, Capped(Append(entries, e)))
           /\ Len(Capped(Append(entries, e))) <= session.entries
           /\ Capped(Append(entries, e)) # <<>>
           /\ Last(Capped(Append(entries, e))) = e
<1> DEFINE longer == Append(entries, e)
           n == Len(entries)
<1>1. entries \in Seq(EntryType) /\ e \in EntryType /\ n \in Nat
    BY LenProperties DEF HistoryOK, EntryOK
<1>2. /\ longer \in Seq(EntryType) /\ Len(longer) = n + 1
      /\ \A i \in 1..n : longer[i] = entries[i]
      /\ longer[n + 1] = e
    BY <1>1, AppendProperties
<1>3. \A i \in 1..(n + 1) : EntryOK(seen, ids, longer[i])
    <2> SUFFICES ASSUME NEW i \in 1..(n + 1) PROVE EntryOK(seen, ids, longer[i])
        OBVIOUS
    <2>1. CASE i \in 1..n
        BY <1>2, <2>1 DEF HistoryOK
    <2>2. CASE i = n + 1
        BY <1>2, <2>2
    <2> QED BY <1>1, <2>1, <2>2
<1> HIDE DEF longer
<1>4. CASE Len(longer) > session.entries
    <2>1. Capped(longer) = Tail(longer)
        BY <1>4 DEF Capped
    <2>2. /\ Tail(longer) \in Seq(EntryType) /\ Len(Tail(longer)) = n
          /\ \A i \in 1..n : Tail(longer)[i] = longer[i + 1]
        BY <1>1, <1>2
    <2>3. n # 0 /\ n <= session.entries
        BY <1>1, <1>2, <1>4 DEF n
    <2>4. HistoryOK(seen, ids, Tail(longer))
        <3>1. \A i \in 1..n : EntryOK(seen, ids, Tail(longer)[i])
            BY <1>1, <1>3, <2>2
        <3> QED BY <2>2, <3>1 DEF HistoryOK
    <2>5. Last(Tail(longer)) = e /\ Tail(longer) # <<>>
        BY <1>1, <1>2, <2>2, <2>3 DEF Last
    <2> QED BY <2>1, <2>2, <2>3, <2>4, <2>5 DEF longer
<1>5. CASE ~(Len(longer) > session.entries)
    <2>1. Capped(longer) = longer
        BY <1>5 DEF Capped
    <2>2. HistoryOK(seen, ids, longer)
        BY <1>2, <1>3 DEF HistoryOK
    <2>3. Last(longer) = e /\ longer # <<>> /\ Len(longer) <= session.entries
        BY <1>1, <1>2, <1>5 DEF Last
    <2> QED BY <2>1, <2>2, <2>3 DEF longer
<1> QED BY <1>4, <1>5

LEMMA RemoveAtProperties ==
    ASSUME NEW S, NEW s \in Seq(S), NEW i \in 1..Len(s)
    PROVE  /\ RemoveAt(s, i) \in Seq(S)
           /\ Len(RemoveAt(s, i)) = Len(s) - 1
           /\ \A j \in 1..(Len(s) - 1) :
                 RemoveAt(s, i)[j] = IF j < i THEN s[j] ELSE s[j + 1]
<1> DEFINE front == SubSeq(s, 1, i - 1)
           back == SubSeq(s, i + 1, Len(s))
<1>1. Len(s) \in Nat /\ i \in Nat /\ i >= 1 /\ i <= Len(s)
    BY LenProperties
<1>2. /\ front \in Seq(S) /\ Len(front) = i - 1
      /\ \A j \in 1..(i - 1) : front[j] = s[j]
    BY <1>1, SubSeqProperties
<1>3. /\ back \in Seq(S) /\ Len(back) = Len(s) - i
      /\ \A j \in 1..(Len(s) - i) : back[j] = s[i + j]
    BY <1>1, SubSeqProperties
<1>4. RemoveAt(s, i) = front \o back
    BY DEF RemoveAt
<1> HIDE DEF front, back
<1>5. /\ front \o back \in Seq(S) /\ Len(front \o back) = Len(s) - 1
      /\ \A j \in 1..(Len(s) - 1) :
            (front \o back)[j] = IF j <= i - 1 THEN front[j] ELSE back[j - (i - 1)]
    <2>1. /\ front \o back \in Seq(S) /\ Len(front \o back) = Len(front) + Len(back)
          /\ \A j \in 1..(Len(front) + Len(back)) :
                (front \o back)[j] = IF j <= Len(front) THEN front[j]
                                     ELSE back[j - Len(front)]
        BY <1>2, <1>3, ConcatProperties
    <2>2. Len(front) = i - 1 /\ Len(front) + Len(back) = Len(s) - 1
        BY <1>1, <1>2, <1>3
    <2> QED BY <2>1, <2>2
<1>6. ASSUME NEW j \in 1..(Len(s) - 1)
      PROVE  (front \o back)[j] = IF j < i THEN s[j] ELSE s[j + 1]
    <2>1. CASE j < i
        BY <1>1, <1>2, <1>5, <2>1
    <2>2. CASE ~(j < i)
        <3>1. j - (i - 1) \in 1..(Len(s) - i) /\ i + (j - (i - 1)) = j + 1
            BY <1>1, <2>2
        <3>2. back[j - (i - 1)] = s[j + 1]
            BY <1>3, <3>1
        <3> QED BY <1>1, <1>5, <2>2, <3>2
    <2> QED BY <2>1, <2>2
<1> QED BY <1>4, <1>5, <1>6

LEMMA ShorterHistory ==
    ASSUME NEW seen, NEW ids, NEW entries, HistoryOK(seen, ids, entries),
           NEW i \in 1..Len(entries)
    PROVE  /\ HistoryOK(seen, ids, RemoveAt(entries, i))
           /\ Len(RemoveAt(entries, i)) = Len(entries) - 1
<1>1. entries \in Seq(EntryType) /\ Len(entries) \in Nat
    BY LenProperties DEF HistoryOK
<1>2. /\ RemoveAt(entries, i) \in Seq(EntryType)
      /\ Len(RemoveAt(entries, i)) = Len(entries) - 1
      /\ \A j \in 1..(Len(entries) - 1) :
            RemoveAt(entries, i)[j] = IF j < i THEN entries[j] ELSE entries[j + 1]
    BY <1>1, RemoveAtProperties
<1>3. ASSUME NEW j \in 1..(Len(entries) - 1)
      PROVE  EntryOK(seen, ids, RemoveAt(entries, i)[j])
    <2>1. j \in 1..Len(entries) /\ j + 1 \in 1..Len(entries)
        BY <1>1
    <2> QED BY <1>2, <2>1 DEF HistoryOK
<1> QED BY <1>2, <1>3 DEF HistoryOK

LEMMA LongerHistory ==
    ASSUME NEW seen, NEW ids, NEW entries, HistoryOK(seen, ids, entries),
           NEW e, EntryOK(seen, ids, e)
    PROVE  HistoryOK(seen, ids, <<e>> \o entries)
<1>1. entries \in Seq(EntryType) /\ Len(entries) \in Nat /\ e \in EntryType
    BY LenProperties DEF HistoryOK, EntryOK
<1>2. <<e>> \in Seq(EntryType) /\ Len(<<e>>) = 1 /\ <<e>>[1] = e
    BY <1>1
<1>3. /\ <<e>> \o entries \in Seq(EntryType) /\ Len(<<e>> \o entries) = 1 + Len(entries)
      /\ \A j \in 1..(1 + Len(entries)) :
            (<<e>> \o entries)[j] = IF j <= 1 THEN <<e>>[j] ELSE entries[j - 1]
    BY <1>1, <1>2, ConcatProperties
<1>4. ASSUME NEW j \in 1..(1 + Len(entries))
      PROVE  EntryOK(seen, ids, (<<e>> \o entries)[j])
    <2>1. CASE j = 1
        BY <1>2, <1>3, <2>1
    <2>2. CASE j - 1 \in 1..Len(entries)
        BY <1>1, <1>3, <2>2 DEF HistoryOK
    <2> QED BY <1>1, <2>1, <2>2
<1> QED BY <1>3, <1>4 DEF HistoryOK

-----------------------------------------------------------------------------
(* Versions of a node.                                                      *)

LEMMA LookTyped ==
    ASSUME NEW s \in Node
    PROVE  LookOf(s) \in Look
BY NodeFields DEF LookOf, Look

\* What an edit that keeps the look has to care for.
LEMMA EditedVersion ==
    ASSUME NEW seen, NEW ids, NEW n, NEW s, VersionOK(seen, ids, n, s),
           NEW new \in Node, LookOf(new) = LookOf(s),
           \/ new.children = s.children
           \/ IsInjective(new.children) /\ ToSet(new.children) \subseteq ids
    PROVE  VersionOK(seen, ids, n, new)
BY DEF VersionOK

LEMMA StatusVersion ==
    ASSUME NEW seen, NEW ids, NEW n, NEW s, VersionOK(seen, ids, n, s),
           NEW status \in Status
    PROVE  VersionOK(seen, ids, n, [s EXCEPT !.status = status])
<1> DEFINE new == [s EXCEPT !.status = status]
<1>1. s \in Node
    BY DEF VersionOK
<1>2. new \in Node /\ LookOf(new) = LookOf(s) /\ new.children = s.children
    BY <1>1 DEF Node, LookOf
<1> HIDE DEF new
<1>3. VersionOK(seen, ids, n, new)
    BY <1>2, EditedVersion
<1> QED BY <1>3 DEF new

LEMMA NormalVersion ==
    ASSUME NEW seen, NEW ids, NEW n, NEW s, VersionOK(seen, ids, n, s)
    PROVE  VersionOK(seen, ids, n, NormalizeNode(s))
<1>1. s \in Node /\ s.status \in Status
    BY NodeFields DEF VersionOK
<1>2. NormalizeNode(s) = [s EXCEPT !.status = IF s.status = "streaming" THEN "stopped"
                                              ELSE s.status]
    BY <1>1 DEF NormalizeNode
<1>3. (IF s.status = "streaming" THEN "stopped" ELSE s.status) \in Status
    BY <1>1 DEF Status
<1> QED BY <1>2, <1>3, StatusVersion

LEMMA WithoutVersion ==
    ASSUME NEW seen, NEW ids, NEW n, NEW s, VersionOK(seen, ids, n, s), NEW c
    PROVE  VersionOK(seen, ids, n, WithoutChild(s, c))
<1> DEFINE new == WithoutChild(s, c)
           children == Without(s.children, {c})
<1>1. s \in Node /\ s.children \in Seq(AnyId)
    BY NodeFields DEF VersionOK
<1>2. /\ children \in Seq(AnyId) /\ ToSet(children) = ToSet(s.children) \ {c}
      /\ IsInjective(s.children) => IsInjective(children)
    BY <1>1, WithoutElements
<1>3. new = [s EXCEPT !.children = children]
    BY <1>1 DEF WithoutChild, Node
<1> HIDE DEF new, children
<1>4. new \in Node /\ LookOf(new) = LookOf(s) /\ new.children = children
    BY <1>1, <1>2, <1>3 DEF Node, LookOf
<1>5. IsInjective(children) /\ ToSet(children) \subseteq ids
    BY <1>2 DEF VersionOK
<1>6. VersionOK(seen, ids, n, new)
    BY <1>4, <1>5, EditedVersion
<1> QED BY <1>6 DEF new

LEMMA WithVersion ==
    ASSUME NEW seen, NEW ids, NEW n, NEW s, VersionOK(seen, ids, n, s),
           NEW c \in ids, c \in AnyId, c \notin ToSet(s.children)
    PROVE  VersionOK(seen, ids, n, WithChild(s, c))
<1> DEFINE new == WithChild(s, c)
           children == Append(s.children, c)
<1>1. s \in Node /\ s.children \in Seq(AnyId)
    BY NodeFields DEF VersionOK
<1>2. /\ children \in Seq(AnyId) /\ ToSet(children) = ToSet(s.children) \cup {c}
      /\ IsInjective(s.children) => IsInjective(children)
    <2>1. children = InsertAt(s.children, Len(s.children) + 1, c)
        BY <1>1, AppendIsInsert
    <2>2. Len(s.children) + 1 \in 1..(Len(s.children) + 1)
        BY <1>1, LenProperties
    <2> QED BY <1>1, <2>1, <2>2, InsertElements DEF GrownBy
<1>3. new = [s EXCEPT !.children = children]
    BY <1>1 DEF WithChild, Node
<1> HIDE DEF new, children
<1>4. new \in Node /\ LookOf(new) = LookOf(s) /\ new.children = children
    BY <1>1, <1>2, <1>3 DEF Node, LookOf
<1>5. IsInjective(children) /\ ToSet(children) \subseteq ids
    BY <1>2 DEF VersionOK
<1>6. VersionOK(seen, ids, n, new)
    BY <1>4, <1>5, EditedVersion
<1> QED BY <1>6 DEF new

\* A recorded change, merged into the node as it is.
LEMMA ChangedVersion ==
    ASSUME NEW seen, NEW ids, NEW ns, NodesOK(seen, ids, ns), NEW n,
           NEW change \in [before: Snapshot, after: Snapshot],
           SnapshotOK(seen, ids, n, change.before), SnapshotOK(seen, ids, n, change.after),
           NEW d \in Direction, NEW node, ChangedTo(node, ns, n, change, d)
    PROVE  VersionOK(seen, ids, n, node)
<1> DEFINE source == Source(change, d)
           target == Target(change, d)
<1>1. /\ node \in Node /\ target \in Node
      /\ node.kind = target.kind /\ node.parent = target.parent
      /\ node.context = target.context /\ node.included = target.included
      /\ node.task = target.task
      /\ \/ (source = None \/ n \notin DOMAIN ns) /\ node.children = target.children
         \/ /\ source \in Node /\ n \in DOMAIN ns
            /\ MergedFrom(node.children, AnyId, ns[n].children, source.children,
                          target.children)
    BY ChangedNode
<1>2. SnapshotOK(seen, ids, n, target)
    BY DEF Target
<1> HIDE DEF source, target
<1>3. VersionOK(seen, ids, n, target)
    BY <1>1, <1>2, NoneAssumption DEF SnapshotOK
<1>4. LookOf(node) = LookOf(target)
    BY <1>1 DEF LookOf
<1>5. CASE node.children = target.children
    BY <1>1, <1>3, <1>4, <1>5, EditedVersion
<1>6. CASE /\ n \in DOMAIN ns
           /\ MergedFrom(node.children, AnyId, ns[n].children, source.children,
                         target.children)
    <2>1. VersionOK(seen, ids, n, ns[n])
        BY <1>6 DEF NodesOK
    <2>2. IsInjective(node.children) /\ ToSet(node.children) \subseteq ids
        BY <1>3, <1>6, <2>1 DEF MergedFrom, VersionOK
    <2> QED BY <1>1, <1>3, <1>4, <2>2, EditedVersion
<1> QED BY <1>1, <1>5, <1>6

-----------------------------------------------------------------------------
(* Undoing and redoing an entry, group by group.                            *)

LEMMA GroupKeepsNodes ==
    ASSUME NEW seen, NEW ids, NEW ns, NodesOK(seen, ids, ns),
           NEW group, GroupOK(seen, ids, group), NEW d \in Direction
    PROVE  NodesOK(seen, ids, ApplyGroup(ns, group, d))
<1> DEFINE result == ApplyGroup(ns, group, d)
<1>1. ns \in NodeMap /\ group \in Group
    BY DEF NodesOK, GroupOK
<1>2. result \in NodeMap
    BY <1>1, GroupTyped
<1>3. Root \in DOMAIN result
    <2>1. Root \in DOMAIN ns
        BY DEF NodesOK
    <2>2. \/ Root \in DOMAIN result
          \/ Root \in DOMAIN group /\ Target(group[Root], d) = None
        BY <1>1, <2>1, GroupDomain
    <2>3. ASSUME Root \in DOMAIN group, Target(group[Root], d) = None
          PROVE  FALSE
        <3>1. SnapshotOK(seen, ids, Root, Target(group[Root], d))
            BY <2>3 DEF Target, GroupOK
        <3> QED BY <2>3, <3>1, NoneAssumption DEF SnapshotOK, VersionOK
    <2> QED BY <2>2, <2>3
<1>4. ASSUME NEW n \in DOMAIN result
      PROVE  VersionOK(seen, ids, n, result[n])
    <2>1. CASE n \in DOMAIN ns /\ result[n] = ns[n]
        BY <2>1 DEF NodesOK
    <2>2. CASE n \in DOMAIN group /\ ChangedTo(result[n], ns, n, group[n], d)
        <3>1. /\ group[n] \in [before: Snapshot, after: Snapshot]
              /\ SnapshotOK(seen, ids, n, group[n].before)
              /\ SnapshotOK(seen, ids, n, group[n].after)
            BY <1>1, <2>2 DEF GroupOK, Group
        <3> HIDE DEF result
        <3> QED BY <2>2, <3>1, ChangedVersion
    <2> QED BY <1>1, <1>4, <2>1, <2>2, GroupValue
<1> QED BY <1>2, <1>3, <1>4 DEF NodesOK

\* f goes through the groups of the patch one after the other.
Patches(f, ns, patch, d) ==
    /\ f[0] = ns
    /\ \A g \in 1..Len(patch) : f[g] = ApplyGroup(f[g - 1], patch[g], d)

LEMMA PatchSteps ==
    ASSUME NEW ns \in NodeMap, NEW e, e.patch \in Seq(Group), NEW d \in Direction
    PROVE  \E f : /\ f \in [0..Len(e.patch) -> NodeMap]
                  /\ Patches(f, ns, e.patch, d)
                  /\ ApplyPatch(ns, e, d) = f[Len(e.patch)]
<1> DEFINE n == Len(e.patch)
           step == [g \in 1..n |-> [m \in NodeMap |-> ApplyGroup(m, e.patch[g], d)]]
           Def(f) == [g \in 0..n |-> IF g = 0 THEN ns
                                     ELSE ApplyGroup(f[g - 1], e.patch[g], d)]
           patched == CHOOSE f : f = Def(f)
<1>1. n \in Nat /\ \A g \in 1..n : e.patch[g] \in Group
    BY ElementOfSeq, LenProperties
<1>2. step \in [1..n -> [NodeMap -> NodeMap]]
    <2> SUFFICES ASSUME NEW g \in 1..n, NEW m \in NodeMap
                 PROVE  ApplyGroup(m, e.patch[g], d) \in NodeMap
        OBVIOUS
    <2>1. e.patch[g] \in Group
        BY <1>1
    <2> QED BY <2>1, GroupTyped
<1>3. ApplyPatch(ns, e, d) = patched[n]
    BY DEF ApplyPatch
<1> HIDE DEF n
<1>4. PICK f : Solves(f, NodeMap, ns, n, step)
    <2> HIDE DEF step
    <2> QED BY <1>1, <1>2, RecursionExists
<1>5. ASSUME NEW g \in 1..n
      PROVE  f[g] = ApplyGroup(f[g - 1], e.patch[g], d)
    <2>1. f[g - 1] \in NodeMap
        BY <1>1, <1>4 DEF Solves
    <2> QED BY <1>4, <2>1 DEF Solves
<1>6. f \in [0..n -> NodeMap] /\ f[0] = ns
    BY <1>4 DEF Solves
<1>7. f = Def(f)
    <2>1. \A g \in 0..n : f[g] = Def(f)[g]
        <3>1. 0 \in 0..n /\ Def(f)[0] = ns
            BY <1>1
        <3>2. ASSUME NEW g \in 1..n
              PROVE  f[g] = Def(f)[g]
            BY <1>5, <3>2
        <3>3. 0..n = {0} \cup 1..n
            BY <1>1
        <3> HIDE DEF Def
        <3> QED BY <1>6, <3>1, <3>2, <3>3
    <2> QED BY <1>6, <2>1
<1>8. patched = Def(patched)
    <2> HIDE DEF Def
    <2> QED BY <1>7
<1> HIDE DEF patched
<1>9. patched[0] = ns /\ \A g \in 1..n : patched[g] = ApplyGroup(patched[g - 1], e.patch[g], d)
    <2>1. \A g \in 0..n : patched[g] = Def(patched)[g]
        BY <1>8
    <2> QED BY <1>1, <2>1
<1> DEFINE T == {k \in Nat : k <= n => patched[k] = f[k]}
<1>10. 0 \in T
    BY <1>6, <1>9
<1>11. ASSUME NEW k \in Nat, k \in T
       PROVE  k + 1 \in T
    <2> SUFFICES ASSUME k + 1 <= n
                 PROVE  patched[k + 1] = f[k + 1]
        OBVIOUS
    <2>1. k + 1 \in 1..n /\ (k + 1) - 1 = k /\ patched[k] = f[k]
        BY <1>1, <1>11
    <2>2. patched[k + 1] = ApplyGroup(patched[k], e.patch[k + 1], d)
        BY <1>9, <2>1
    <2>3. f[k + 1] = ApplyGroup(f[k], e.patch[k + 1], d)
        BY <1>5, <2>1
    <2> QED BY <2>1, <2>2, <2>3
<1>12. patched[n] = f[n]
    <2>1. n \in T
        <3> HIDE DEF T
        <3> QED BY <1>1, <1>10, <1>11, SetInduction
    <2> QED BY <1>1, <2>1
<1> QED BY <1>3, <1>5, <1>6, <1>12 DEF Patches, n

LEMMA PatchKeepsNodes ==
    ASSUME NEW seen, NEW ids, NEW ns, NodesOK(seen, ids, ns),
           NEW e, EntryOK(seen, ids, e), NEW d \in Direction
    PROVE  NodesOK(seen, ids, ApplyPatch(ns, e, d))
<1> DEFINE n == Len(e.patch)
<1>1. ns \in NodeMap /\ e.patch \in Seq(Group) /\ n \in Nat
    BY LenProperties DEF NodesOK, EntryOK, EntryType
<1>2. PICK f : Patches(f, ns, e.patch, d) /\ ApplyPatch(ns, e, d) = f[n]
    BY <1>1, PatchSteps
<1> DEFINE T == {k \in Nat : k <= n => NodesOK(seen, ids, f[k])}
<1>3. 0 \in T
    BY <1>2 DEF Patches
<1>4. ASSUME NEW k \in Nat, k \in T
      PROVE  k + 1 \in T
    <2> SUFFICES ASSUME k + 1 <= n
                 PROVE  NodesOK(seen, ids, f[k + 1])
        OBVIOUS
    <2>1. k + 1 \in 1..n /\ (k + 1) - 1 = k /\ NodesOK(seen, ids, f[k])
        BY <1>1, <1>4
    <2>2. f[k + 1] = ApplyGroup(f[k], e.patch[k + 1], d)
        BY <1>2, <2>1 DEF Patches
    <2>3. GroupOK(seen, ids, e.patch[k + 1])
        BY <2>1 DEF EntryOK
    <2> QED BY <2>1, <2>2, <2>3, GroupKeepsNodes
<1>5. n \in T
    <2> HIDE DEF T
    <2> QED BY <1>1, <1>3, <1>4, SetInduction
<1> QED BY <1>1, <1>2, <1>5

-----------------------------------------------------------------------------
(* Trees and entries put together.                                          *)

LEMMA NodeEdited ==
    ASSUME NEW seen, NEW ids, NEW ns, NodesOK(seen, ids, ns), NEW n \in DOMAIN ns,
           NEW v, VersionOK(seen, ids, n, v)
    PROVE  NodesOK(seen, ids, [ns EXCEPT ![n] = v])
<1>1. PICK D \in SUBSET AnyId : ns \in [D -> Node]
    BY DEF NodesOK, NodeMap
<1>2. v \in Node
    BY DEF VersionOK
<1>3. [ns EXCEPT ![n] = v] \in [D -> Node]
    BY <1>1, <1>2
<1>4. [ns EXCEPT ![n] = v] \in NodeMap
    BY <1>3 DEF NodeMap
<1> QED BY <1>1, <1>4 DEF NodesOK

\* A function on some of the ids whose values are versions of their nodes.
LEMMA NodesFrom ==
    ASSUME NEW seen, NEW ids, NEW ns, ns = [n \in DOMAIN ns |-> ns[n]],
           DOMAIN ns \subseteq AnyId, Root \in DOMAIN ns,
           \A n \in DOMAIN ns : VersionOK(seen, ids, n, ns[n])
    PROVE  NodesOK(seen, ids, ns)
<1>1. \A n \in DOMAIN ns : ns[n] \in Node
    BY DEF VersionOK
<1>2. ns \in [DOMAIN ns -> Node]
    BY <1>1
<1>3. ns \in NodeMap
    BY <1>2 DEF NodeMap
<1> QED BY <1>3 DEF NodesOK

LEMMA OverrideOK ==
    ASSUME NEW seen, NEW ids, NEW ns, NodesOK(seen, ids, ns), NEW new,
           DOMAIN new \subseteq AnyId,
           \A n \in DOMAIN new : VersionOK(seen, ids, n, new[n])
    PROVE  NodesOK(seen, ids, Override(ns, new))
<1> DEFINE result == Override(ns, new)
<1>1. result = [n \in DOMAIN result |-> result[n]]
    BY DEF Override
<1>2. DOMAIN ns \subseteq AnyId
    BY DEF NodesOK, NodeMap
<1>3. /\ DOMAIN result = DOMAIN ns \cup DOMAIN new
      /\ \A n \in DOMAIN new : result[n] = new[n]
      /\ \A n \in DOMAIN ns \ DOMAIN new : result[n] = ns[n]
    BY OverrideIs
<1> HIDE DEF result
<1>4. \A n \in DOMAIN result : VersionOK(seen, ids, n, result[n])
    BY <1>3 DEF NodesOK
<1>5. NodesOK(seen, ids, result)
    BY <1>1, <1>2, <1>3, <1>4, NodesFrom DEF NodesOK
<1> QED BY <1>5 DEF result

LEMMA SnapshotTyped ==
    ASSUME NEW seen, NEW ids, NEW n, NEW s, SnapshotOK(seen, ids, n, s)
    PROVE  s \in Snapshot
BY DEF SnapshotOK, VersionOK, Snapshot

LEMMA GroupFrom ==
    ASSUME NEW seen, NEW ids, NEW group, group = [n \in DOMAIN group |-> group[n]],
           DOMAIN group \subseteq AnyId,
           \A n \in DOMAIN group : \E b, a : /\ group[n] = Change(b, a)
                                             /\ SnapshotOK(seen, ids, n, b)
                                             /\ SnapshotOK(seen, ids, n, a)
    PROVE  GroupOK(seen, ids, group)
<1>1. ASSUME NEW n \in DOMAIN group
      PROVE  /\ group[n] \in [before: Snapshot, after: Snapshot]
             /\ SnapshotOK(seen, ids, n, group[n].before)
             /\ SnapshotOK(seen, ids, n, group[n].after)
    <2>1. PICK b, a : /\ group[n] = Change(b, a)
                      /\ SnapshotOK(seen, ids, n, b)
                      /\ SnapshotOK(seen, ids, n, a)
        OBVIOUS
    <2>2. b \in Snapshot /\ a \in Snapshot
        BY <2>1, SnapshotTyped
    <2> QED BY <2>1, <2>2 DEF Change
<1>2. group \in [DOMAIN group -> [before: Snapshot, after: Snapshot]]
    BY <1>1
<1>3. group \in Group
    BY <1>2 DEF Group
<1> QED BY <1>1, <1>3 DEF GroupOK

LEMMA EntryOfOne ==
    ASSUME NEW seen, NEW ids, NEW primary \in AnyId \cup {None},
           NEW affected \in SUBSET AnyId, NEW group, GroupOK(seen, ids, group)
    PROVE  EntryOK(seen, ids, Entry(primary, affected, <<group>>))
<1>1. group \in Group
    BY DEF GroupOK
<1>2. <<group>> \in Seq(Group) /\ Len(<<group>>) = 1 /\ <<group>>[1] = group
    BY <1>1
<1>3. Entry(primary, affected, <<group>>) \in EntryType
    BY <1>2 DEF Entry, EntryType
<1>4. Entry(primary, affected, <<group>>).patch = <<group>>
    BY DEF Entry
<1> QED BY <1>2, <1>3, <1>4 DEF EntryOK

LEMMA EntryOfTwo ==
    ASSUME NEW seen, NEW ids, NEW primary \in AnyId \cup {None},
           NEW affected \in SUBSET AnyId, NEW first, NEW second,
           GroupOK(seen, ids, first), GroupOK(seen, ids, second)
    PROVE  EntryOK(seen, ids, Entry(primary, affected, <<first, second>>))
<1> DEFINE patch == <<first, second>>
<1>1. first \in Group /\ second \in Group
    BY DEF GroupOK
<1>2. /\ patch \in Seq(Group) /\ Len(patch) = 2 /\ patch[1] = first /\ patch[2] = second
    BY <1>1
<1> HIDE DEF patch
<1>3. Entry(primary, affected, patch) \in EntryType
    BY <1>2 DEF Entry, EntryType
<1>4. Entry(primary, affected, patch).patch = patch
    BY DEF Entry
<1>5. \A g \in 1..2 : g = 1 \/ g = 2
    OBVIOUS
<1>6. EntryOK(seen, ids, Entry(primary, affected, patch))
    BY <1>2, <1>3, <1>4, <1>5 DEF EntryOK
<1> QED BY <1>6 DEF patch

LEMMA CreationOK ==
    ASSUME NEW seen, NEW ids, NEW n \in NodeId, NEW parent \in AnyId,
           NEW before, NEW after, NEW node,
           VersionOK(seen, ids, parent, before), VersionOK(seen, ids, parent, after),
           VersionOK(seen, ids, n, node), NEW affected \in SUBSET AnyId
    PROVE  EntryOK(seen, ids, Entry(n, affected, Creation(n, parent, before, after, node)))
<1> DEFINE group == [x \in {parent, n} |-> IF x = n THEN Change(None, node)
                                           ELSE Change(before, after)]
<1>1. n # Root /\ n \in AnyId
    BY EditsAssumption DEF AnyId
<1>2. ASSUME NEW x \in DOMAIN group
      PROVE  \E b, a : /\ group[x] = Change(b, a)
                       /\ SnapshotOK(seen, ids, x, b)
                       /\ SnapshotOK(seen, ids, x, a)
    <2>1. CASE x = n
        BY <1>1, <2>1 DEF SnapshotOK
    <2>2. CASE x # n /\ x = parent
        BY <2>2 DEF SnapshotOK
    <2> QED BY <2>1, <2>2
<1>3. group = [x \in DOMAIN group |-> group[x]] /\ DOMAIN group \subseteq AnyId
    BY <1>1
<1>4. Creation(n, parent, before, after, node) = <<group>>
    BY DEF Creation
<1> HIDE DEF group
<1>5. GroupOK(seen, ids, group)
    BY <1>2, <1>3, GroupFrom
<1> QED BY <1>1, <1>4, <1>5, EntryOfOne

-----------------------------------------------------------------------------
(* New looks.                                                               *)

LEMMA SeenNew ==
    ASSUME NEW seen, NEW ids, Consistent(seen, ids), NEW M \in SUBSET (NodeId \ ids),
           NEW look \in [M -> Look], \A n \in M : Proper(n, look[n])
    PROVE  Consistent(seen \cup {<<n, look[n]>> : n \in M}, ids \cup M)
<1> DEFINE new == {<<n, look[n]>> : n \in M}
<1>1. ASSUME NEW n, NEW l, <<n, l>> \in new
      PROVE  n \in M /\ l = look[n]
    BY <1>1
<1>2. ASSUME NEW n \in M, NEW l
      PROVE  <<n, l>> \notin seen
    <2>1. n \notin ids \cup {Root}
        BY EditsAssumption
    <2> QED BY <2>1 DEF Consistent
<1>3. new \subseteq M \X Look
    OBVIOUS
<1> HIDE DEF new
<1>4. seen \cup new \in SUBSET ((ids \cup M \cup {Root}) \X Look)
    BY <1>3 DEF Consistent
<1>5. ASSUME NEW n, NEW l, <<n, l>> \in seen \cup new
      PROVE  Proper(n, l)
    BY <1>1, <1>5 DEF Consistent
<1>6. ASSUME NEW n, NEW l, NEW m, <<n, l>> \in seen \cup new, <<n, m>> \in seen \cup new
      PROVE  Agree(l, m)
    <2>1. CASE n \in M
        <3>1. l = look[n] /\ m = look[n]
            BY <1>1, <1>2, <1>6, <2>1
        <3> QED BY <3>1 DEF Agree
    <2>2. CASE n \notin M
        <3>1. <<n, l>> \in seen /\ <<n, m>> \in seen
            BY <1>1, <1>6, <2>2
        <3> QED BY <3>1 DEF Consistent
    <2> QED BY <2>1, <2>2
<1>7. Consistent(seen \cup new, ids \cup M)
    BY <1>4, <1>5, <1>6 DEF Consistent
<1> QED BY <1>7 DEF new

\* A look a node may turn to in a graft: a note moves, a task moves, an answer
\* turns stale.
Turned(l, m) ==
    /\ m.kind = l.kind /\ m.task = l.task /\ m.included = l.included
    /\ m.parent \in {l.parent} \cup AnyId
    /\ \/ m.context = "stale" /\ l.kind # "leaf" /\ ~l.task
       \/ m.context = l.context /\ (m.parent = l.parent \/ l.kind = "leaf" \/ l.task
                                       \/ l.context = "stale")

LEMMA SeenTurned ==
    ASSUME NEW seen, NEW ids, Consistent(seen, ids), NEW M,
           NEW look \in [M -> Look],
           \A n \in M : \E l : <<n, l>> \in seen /\ Turned(l, look[n])
    PROVE  Consistent(seen \cup {<<n, look[n]>> : n \in M}, ids)
<1> DEFINE new == {<<n, look[n]>> : n \in M}
           all == seen \cup new
<1>1. ASSUME NEW n, NEW m, <<n, m>> \in all
      PROVE  m \in Look /\ \E l : <<n, l>> \in seen /\ Turned(l, m)
    <2>1. CASE <<n, m>> \in seen
        <3>1. m \in Look
            BY <2>1 DEF Consistent
        <3>2. Turned(m, m)
            BY DEF Turned
        <3> QED BY <2>1, <3>1, <3>2
    <2>2. CASE <<n, m>> \in new
        BY <2>2
    <2> QED BY <1>1, <2>1, <2>2
<1> HIDE DEF all
<1>2. all \in SUBSET ((ids \cup {Root}) \X Look)
    <2>1. new \subseteq (ids \cup {Root}) \X Look
        <3> SUFFICES ASSUME NEW n \in M
                     PROVE  n \in ids \cup {Root}
            OBVIOUS
        <3> QED BY DEF Consistent
    <2> QED BY <2>1 DEF Consistent, all
<1> HIDE DEF new
<1>3. ASSUME NEW n, NEW m, <<n, m>> \in all
      PROVE  Proper(n, m)
    <2>1. PICK l : <<n, l>> \in seen /\ Turned(l, m)
        BY <1>1, <1>3
    <2>2. Proper(n, l)
        BY <2>1 DEF Consistent
    <2>3. None \notin AnyId
        BY EditsAssumption DEF AnyId
    <2> QED BY <2>1, <2>2, <2>3 DEF Proper, Turned
<1>4. ASSUME NEW n, NEW l2, NEW m2, <<n, l2>> \in all, <<n, m2>> \in all
      PROVE  Agree(l2, m2)
    <2>1. PICK l : <<n, l>> \in seen /\ Turned(l, l2)
        BY <1>1, <1>4
    <2>2. PICK m : <<n, m>> \in seen /\ Turned(m, m2)
        BY <1>1, <1>4
    <2>3. Agree(l, m) /\ Agree(m, l) /\ Proper(n, l) /\ Proper(n, m)
        BY <2>1, <2>2 DEF Consistent
    <2>4. l \in Look /\ m \in Look /\ l2 \in Look /\ m2 \in Look
        BY <1>1, <1>4, <2>1, <2>2 DEF Consistent
    <2> QED BY <2>1, <2>2, <2>3, <2>4 DEF Agree, Turned, Proper, Look
<1>5. Consistent(all, ids)
    BY <1>2, <1>3, <1>4 DEF Consistent
<1> QED BY <1>5 DEF all, new

-----------------------------------------------------------------------------
(* The invariant holds at first and every action keeps it.                  *)

LEMMA SessionTyped ==
    ASSUME VarsOK
    PROVE  session.entries \in Nat \ {0}
BY TreeAssumption DEF VarsOK

\* The invariant of the next state, from what it says of its parts.
LEMMA Story ==
    ASSUME NEW seen, NEW ids, NEW ns, NEW before, NEW after, Consistent(seen, ids),
           NodesOK(seen, ids, ns), HistoryOK(seen, ids, before), HistoryOK(seen, ids, after)
    PROVE  StoryOK(ns, before, after, ids)
BY DEF StoryOK

LEMMA NewNodeIs ==
    ASSUME NEW seen, NEW ids, NEW n, NEW kind \in {"root", "branch", "leaf"},
           NEW parent \in AnyId \cup {None}, NEW status \in Status,
           <<n, LookOf(NewNode(kind, parent, status))>> \in seen
    PROVE  VersionOK(seen, ids, n, NewNode(kind, parent, status))
<1>1. NewNode(kind, parent, status) \in Node
    <2>1. <<>> \in Seq(AnyId)
        OBVIOUS
    <2> QED BY <2>1 DEF NewNode, Node
<1>2. IsInjective(<<>>) /\ ToSet(<<>>) = {}
    BY DEF IsInjective, ToSet
<1>3. NewNode(kind, parent, status).children = <<>>
    BY DEF NewNode
<1> QED BY <1>1, <1>2, <1>3 DEF VersionOK

LEMMA InitOK == ASSUME Init PROVE TreeInv
<1> DEFINE root == [NewNode("root", None, "complete") EXCEPT !.context = "valid"]
           seen == {<<Root, LookOf(root)>>}
<1>1. NewNode("root", None, "complete") \in Node
    <2>1. <<>> \in Seq(AnyId)
        OBVIOUS
    <2> QED BY <2>1 DEF NewNode, Node, Status
<1>2. /\ root \in Node /\ root.children = <<>> /\ root.task = FALSE
      /\ root.kind = "root"
    BY <1>1 DEF NewNode, Node
<1>3. LookOf(root) \in Look
    BY <1>2, LookTyped
<1>4. Proper(Root, LookOf(root)) /\ Agree(LookOf(root), LookOf(root))
    BY <1>2 DEF Proper, Agree, LookOf, NewNode
<1>5. nodes = [n \in {Root} |-> root]
    BY DEF Init
<1> HIDE DEF root
<1>6. Consistent(seen, {})
    <2>1. \A n, l : <<n, l>> \in seen => n = Root /\ l = LookOf(root)
        OBVIOUS
    <2>2. seen \in SUBSET (({} \cup {Root}) \X Look)
        BY <1>3
    <2> HIDE DEF seen
    <2> QED BY <1>4, <2>1, <2>2 DEF Consistent
<1>7. VersionOK(seen, {}, Root, root)
    BY <1>2 DEF VersionOK, IsInjective, ToSet
<1> HIDE DEF seen
<1>8. NodesOK(seen, {}, nodes)
    <2>1. /\ nodes = [n \in DOMAIN nodes |-> nodes[n]] /\ DOMAIN nodes = {Root}
          /\ nodes[Root] = root
        BY <1>5
    <2> QED BY <1>7, <2>1, NodesFrom DEF AnyId
<1>9. HistoryOK(seen, {}, past) /\ HistoryOK(seen, {}, future)
    BY EmptyHistory DEF Init
<1>10. DOMAIN origin = {}
    BY DEF Init
<1>11. StoryOK(nodes, past, future, DOMAIN origin)
    BY <1>6, <1>8, <1>9, <1>10, Story
<1>12. VarsOK
    <2>1. past = <<>> /\ session \in Sessions
        BY DEF Init
    <2>2. Len(past) = 0 /\ session.entries \in Nat
        BY <2>1, TreeAssumption
    <2> QED BY <1>10, <2>1, <2>2 DEF Init, VarsOK
<1> QED BY <1>11, <1>12 DEF TreeInv

LEMMA NodesKnown ==
    ASSUME NEW seen, NEW ids, NEW ns, Consistent(seen, ids), NodesOK(seen, ids, ns)
    PROVE  /\ DOMAIN ns \subseteq ids \cup {Root} /\ DOMAIN ns \subseteq AnyId
           /\ Root \in DOMAIN ns
           /\ \A n \in DOMAIN ns : /\ VersionOK(seen, ids, n, ns[n])
                                   /\ ns[n] \in Node /\ Proper(n, LookOf(ns[n]))
<1>1. ASSUME NEW n \in DOMAIN ns
      PROVE  /\ VersionOK(seen, ids, n, ns[n]) /\ n \in ids \cup {Root}
             /\ ns[n] \in Node /\ Proper(n, LookOf(ns[n]))
    <2>1. VersionOK(seen, ids, n, ns[n])
        BY DEF NodesOK
    <2> QED BY <2>1 DEF VersionOK, Consistent
<1>2. DOMAIN ns \subseteq AnyId /\ Root \in DOMAIN ns
    BY DEF NodesOK, NodeMap
<1> QED BY <1>1, <1>2

LEMMA ParentKnown ==
    ASSUME NEW seen, NEW ids, NEW ns, Consistent(seen, ids), NodesOK(seen, ids, ns),
           NEW n \in DOMAIN ns \ {Root}
    PROVE  ns[n].parent \in AnyId
<1>1. ns[n] \in Node /\ Proper(n, LookOf(ns[n]))
    BY NodesKnown
<1>2. ns[n].parent \in AnyId \cup {None}
    BY <1>1, NodeFields
<1> QED BY <1>1, <1>2 DEF Proper, LookOf

LEMMA AnchorKnown ==
    ASSUME NEW ns, NEW at \in DOMAIN ns, Root \in DOMAIN ns
    PROVE  Anchor(ns, at) \in DOMAIN ns
BY DEF Anchor

\* The tree with n below parent.
Grown(ns, n, parent, node) ==
    Override(ns, [x \in {parent, n} |-> IF x = n THEN node ELSE WithChild(ns[parent], n)])

\* What is known when node n, not drawn before, has joined the tree.
Joined(seen2, seen, ids, ns, n, parent, node) ==
    /\ seen \subseteq seen2 /\ Consistent(seen2, ids \cup {n})
    /\ VersionOK(seen2, ids \cup {n}, n, node)
    /\ VersionOK(seen2, ids \cup {n}, parent, WithChild(ns[parent], n))
    /\ NodesOK(seen2, ids \cup {n}, Grown(ns, n, parent, node))

LEMMA BirthOK ==
    ASSUME NEW seen, NEW ids, NEW ns, Consistent(seen, ids), NodesOK(seen, ids, ns),
           NEW n \in NodeId \ ids, NEW parent \in DOMAIN ns,
           NEW kind \in {"branch", "leaf"}, NEW status \in Status
    PROVE  \E seen2 : Joined(seen2, seen, ids, ns, n, parent, NewNode(kind, parent, status))
<1> DEFINE node == NewNode(kind, parent, status)
           look == [x \in {n} |-> LookOf(node)]
           seen2 == seen \cup {<<x, look[x]>> : x \in {n}}
           after == WithChild(ns[parent], n)
           new == [x \in {parent, n} |-> IF x = n THEN node ELSE after]
<1>1. parent \in AnyId /\ parent # None /\ n \in AnyId /\ n # Root
    BY NodesKnown, EditsAssumption DEF AnyId
<1>2. node \in Node
    <2>1. <<>> \in Seq(AnyId)
        OBVIOUS
    <2> QED BY <1>1, <2>1 DEF NewNode, Node
<1>3. LookOf(node) \in Look /\ Proper(n, LookOf(node))
    <2>1. LookOf(node) \in Look
        BY <1>2, LookTyped
    <2> QED BY <1>1, <2>1 DEF Proper, LookOf, NewNode
<1> HIDE DEF node
<1>4. Consistent(seen2, ids \cup {n})
    <2>1. look \in [{n} -> Look] /\ \A x \in {n} : Proper(x, look[x])
        BY <1>3
    <2> HIDE DEF look
    <2> QED BY <2>1, SeenNew
<1>5. seen \subseteq seen2 /\ <<n, LookOf(node)>> \in seen2
    OBVIOUS
<1> HIDE DEF seen2, look
<1>6. VersionOK(seen2, ids \cup {n}, n, node)
    BY <1>1, <1>5, NewNodeIs DEF node
<1>7. VersionOK(seen2, ids \cup {n}, parent, after)
    <2>1. VersionOK(seen, ids, parent, ns[parent])
        BY DEF NodesOK
    <2>2. n \notin ToSet(ns[parent].children)
        BY <2>1 DEF VersionOK
    <2>3. VersionOK(seen2, ids \cup {n}, parent, ns[parent])
        BY <1>5, <2>1, VersionGrows
    <2> QED BY <1>1, <2>2, <2>3, WithVersion
<1> HIDE DEF after
<1>8. NodesOK(seen2, ids \cup {n}, Override(ns, new))
    <2>1. NodesOK(seen2, ids \cup {n}, ns)
        BY <1>5, NodesGrow
    <2>2. /\ DOMAIN new \subseteq AnyId
          /\ \A x \in DOMAIN new : VersionOK(seen2, ids \cup {n}, x, new[x])
        BY <1>1, <1>6, <1>7
    <2> HIDE DEF new
    <2> QED BY <2>1, <2>2, OverrideOK
<1> QED BY <1>4, <1>5, <1>6, <1>7, <1>8 DEF node, after, Joined, Grown

LEMMA BornIs ==
    ASSUME NEW n, NEW parent
    PROVE  DOMAIN BornUnder(n, parent) = DOMAIN origin \cup {n}
<1> DEFINE new == [x \in {n} |-> IF Does("cards") THEN Ancestors(nodes, parent) \cup {parent}
                                 ELSE {}]
<1>1. DOMAIN new = {n}
    OBVIOUS
<1>2. BornUnder(n, parent) = Override(origin, new)
    BY DEF BornUnder
<1> HIDE DEF new
<1> QED BY <1>1, <1>2, OverrideIs

LEMMA StartBranchOK ==
    ASSUME TreeInv, NEW n \in NodeId, NEW at \in AnyId, StartBranch(n, at)
    PROVE  TreeInv'
<1> DEFINE parent == Anchor(nodes, at)
           ids == DOMAIN origin
<1> USE DEF TreeInv
<1>1. PICK seen : /\ Consistent(seen, ids) /\ NodesOK(seen, ids, nodes)
                  /\ HistoryOK(seen, ids, past) /\ HistoryOK(seen, ids, future)
    BY DEF StoryOK
<1>2. /\ n \notin ids /\ at \in DOMAIN nodes
      /\ nodes' = Grown(nodes, n, parent, NewNode("branch", parent, "streaming"))
      /\ open' = open \cup {<<n, parent>>} /\ origin' = BornUnder(n, parent)
      /\ UNCHANGED <<graftSource, focus, past, future, structuring, retryable, session,
                     orderly>>
    BY DEF StartBranch, Fresh, Grown
<1>3. parent \in DOMAIN nodes /\ parent \in AnyId
    BY <1>1, <1>2, AnchorKnown, NodesKnown
<1> HIDE DEF parent
<1>4. DOMAIN origin' = ids \cup {n}
    BY <1>2, BornIs
<1>5. PICK seen2 : /\ seen \subseteq seen2 /\ Consistent(seen2, ids \cup {n})
                   /\ NodesOK(seen2, ids \cup {n}, nodes')
    <2>1. "streaming" \in Status
        BY DEF Status
    <2> HIDE DEF ids
    <2> QED BY <1>1, <1>2, <1>3, <2>1, BirthOK DEF Joined
<1>6. HistoryOK(seen2, ids \cup {n}, past') /\ HistoryOK(seen2, ids \cup {n}, future')
    BY <1>1, <1>2, <1>5, HistoryGrows
<1>7. StoryOK(nodes, past, future, DOMAIN origin)'
    BY <1>4, <1>5, <1>6, Story
<1>8. VarsOK'
    BY <1>2, <1>3, <1>4 DEF VarsOK
<1> QED BY <1>7, <1>8

\* The status of one node changes, the history does not.
LEMMA StatusOK ==
    ASSUME StoryOK(nodes, past, future, DOMAIN origin), NEW n \in DOMAIN nodes,
           NEW status \in Status,
           nodes' = [nodes EXCEPT ![n].status = status],
           UNCHANGED <<past, future, origin>>
    PROVE  StoryOK(nodes, past, future, DOMAIN origin)'
<1> DEFINE ids == DOMAIN origin
<1>1. PICK seen : /\ Consistent(seen, ids) /\ NodesOK(seen, ids, nodes)
                  /\ HistoryOK(seen, ids, past) /\ HistoryOK(seen, ids, future)
    BY DEF StoryOK
<1> DEFINE v == [nodes[n] EXCEPT !.status = status]
<1>2. VersionOK(seen, ids, n, v)
    BY <1>1, StatusVersion, NodesKnown
<1>3. nodes' = [nodes EXCEPT ![n] = v]
    OBVIOUS
<1> HIDE DEF v, ids
<1>4. NodesOK(seen, ids, nodes')
    <2>1. NodesOK(seen, ids, [nodes EXCEPT ![n] = v])
        BY <1>1, <1>2, NodeEdited
    <2> QED BY <1>3, <2>1
<1>5. StoryOK(nodes', past, future, ids)
    BY <1>1, <1>4, Story
<1> QED BY <1>5 DEF ids

LEMMA UpdateBranchOK ==
    ASSUME TreeInv, NEW n \in NodeId, UpdateBranch(n)
    PROVE  TreeInv'
<1>1. StoryOK(nodes, past, future, DOMAIN origin)'
    BY StatusOK DEF UpdateBranch, TreeInv, Status
<1>2. VarsOK'
    BY DEF UpdateBranch, TreeInv, VarsOK
<1> QED BY <1>1, <1>2 DEF TreeInv

LEMMA RetryAnswerOK ==
    ASSUME TreeInv, NEW n \in NodeId, RetryAnswer(n)
    PROVE  TreeInv'
<1>1. StoryOK(nodes, past, future, DOMAIN origin)'
    BY StatusOK DEF RetryAnswer, TreeInv, Status
<1>2. n \in DOMAIN nodes \ {Root}
    BY EditsAssumption DEF RetryAnswer
<1>3. nodes[n].parent \in AnyId
    BY <1>2, ParentKnown DEF TreeInv, StoryOK
<1>4. VarsOK'
    BY <1>3 DEF RetryAnswer, TreeInv, VarsOK
<1> QED BY <1>1, <1>4 DEF TreeInv

LEMMA RetrySemanticsOK ==
    ASSUME TreeInv, NEW n \in NodeId, RetrySemantics(n)
    PROVE  TreeInv'
<1>1. StoryOK(nodes, past, future, DOMAIN origin)'
    BY DEF RetrySemantics, TreeInv
<1>2. n \in DOMAIN nodes \ {Root}
    BY EditsAssumption DEF RetrySemantics
<1>3. nodes[n].parent \in AnyId
    BY <1>2, ParentKnown DEF TreeInv, StoryOK
<1>4. VarsOK'
    BY <1>3 DEF RetrySemantics, TreeInv, VarsOK
<1> QED BY <1>1, <1>4 DEF TreeInv

LEMMA IdleOK ==
    ASSUME TreeInv,
           \/ \E r \in structuring : SemanticsFail(r)
           \/ \E n \in NodeId : GraftStart(n)
           \/ GraftCancel
    PROVE  TreeInv'
<1>1. StoryOK(nodes, past, future, DOMAIN origin)'
    BY DEF SemanticsFail, GraftStart, GraftCancel, TreeInv
<1>2. VarsOK'
    <2>1. ASSUME NEW r \in structuring, SemanticsFail(r) PROVE VarsOK'
        BY <2>1 DEF SemanticsFail, TreeInv, VarsOK
    <2>2. ASSUME NEW n \in NodeId, GraftStart(n) PROVE VarsOK'
        BY <2>2 DEF GraftStart, TreeInv, VarsOK, AnyId
    <2>3. CASE GraftCancel
        BY <2>3 DEF GraftCancel, TreeInv, VarsOK
    <2> QED BY <2>1, <2>2, <2>3
<1> QED BY <1>1, <1>2 DEF TreeInv

\* The end of an answer.  The entry says what the node and its parent were.
LEMMA SettleBranchOK ==
    ASSUME TreeInv, NEW r \in open, NEW status \in Status \ {"streaming"},
           SettleBranch(r, status)
    PROVE  TreeInv'
<1> DEFINE ids == DOMAIN origin
           n == r[1]
           parent == nodes[n].parent
           after == [nodes[n] EXCEPT !.status = status]
<1>1. PICK seen : /\ Consistent(seen, ids) /\ NodesOK(seen, ids, nodes)
                  /\ HistoryOK(seen, ids, past) /\ HistoryOK(seen, ids, future)
    BY DEF StoryOK, TreeInv
<1>2. r \in NodeId \X AnyId /\ n \in NodeId
    BY DEF TreeInv, VarsOK
<1>3. /\ structuring' \in SUBSET (NodeId \X AnyId) /\ retryable' \in SUBSET NodeId
      /\ open' \in SUBSET (NodeId \X AnyId)
      /\ UNCHANGED <<graftSource, focus, origin, session>>
    BY <1>2 DEF SettleBranch, TreeInv, VarsOK
<1>4. CASE ~(n \in DOMAIN nodes /\ nodes[n].parent \in DOMAIN nodes)
    <2>1. orderly' = FALSE /\ UNCHANGED <<nodes, past, future>>
        BY <1>4 DEF SettleBranch
    <2>2. VarsOK'
        BY <1>3, <2>1 DEF TreeInv, VarsOK
    <2>3. StoryOK(nodes, past, future, DOMAIN origin)'
        BY <1>3, <2>1 DEF TreeInv
    <2> QED BY <2>2, <2>3 DEF TreeInv
<1>5. CASE n \in DOMAIN nodes /\ parent \in DOMAIN nodes
    <2>1. Settled(n, status)
        BY <1>5 DEF SettleBranch
    <2>2. VersionOK(seen, ids, n, after)
        BY <1>1, <1>5, StatusVersion, NodesKnown
    <2>3. nodes' = [nodes EXCEPT ![n] = after]
        BY <2>1 DEF Settled
    <2>4. NodesOK(seen, ids, nodes')
        BY <1>1, <1>5, <2>2, <2>3, NodeEdited
    <2> HIDE DEF after, n, parent, ids
    <2>5. CASE HasCreationEntry(n)
        <3>1. UNCHANGED <<past, future, orderly>>
            BY <2>1, <2>5 DEF Settled
        <3>2. VarsOK'
            BY <1>3, <3>1 DEF TreeInv, VarsOK
        <3> QED BY <1>1, <1>3, <2>4, <3>1, <3>2, Story DEF TreeInv, ids
    <2>6. CASE ~HasCreationEntry(n)
        <3> DEFINE e == Entry(n, {parent, n}, Creation(n, parent, WithoutChild(nodes[parent], n),
                                                       nodes[parent], after))
        <3>1. PushHistory(e) /\ orderly' \in BOOLEAN
            BY <2>1, <2>6 DEF Settled, n, parent, after, TreeInv, VarsOK
        <3>2. EntryOK(seen, ids, e)
            <4>1. parent \in AnyId /\ n \in AnyId
                BY <1>1, <1>2, <1>5, NodesKnown DEF AnyId
            <4>2. VersionOK(seen, ids, parent, nodes[parent])
                BY <1>1, <1>5, NodesKnown
            <4>3. VersionOK(seen, ids, parent, WithoutChild(nodes[parent], n))
                BY <4>2, WithoutVersion
            <4> QED BY <1>2, <2>2, <4>1, <4>2, <4>3, CreationOK
        <3> HIDE DEF e
        <3>3. past' = Capped(Append(past, e)) /\ future' = <<>>
            BY <3>1 DEF PushHistory
        <3>4. session.entries \in Nat \ {0} /\ Len(past) <= session.entries
            BY SessionTyped DEF TreeInv, VarsOK
        <3>5. HistoryOK(seen, ids, past') /\ Len(past') <= session.entries
            BY <1>1, <3>2, <3>3, <3>4, PushedHistory
        <3>6. HistoryOK(seen, ids, future')
            BY <3>3, EmptyHistory
        <3>7. VarsOK'
            BY <1>3, <3>1, <3>5 DEF TreeInv, VarsOK
        <3>8. StoryOK(nodes, past, future, DOMAIN origin)'
            BY <1>1, <1>3, <2>4, <3>5, <3>6, Story DEF ids
        <3> QED BY <3>7, <3>8 DEF TreeInv
    <2> QED BY <2>5, <2>6
<1> QED BY <1>4, <1>5

\* An entry is pushed onto a history that has been seen.
LEMMA PushOK ==
    ASSUME NEW seen, NEW ids, NEW seen2, NEW ids2, seen \subseteq seen2, ids \subseteq ids2,
           HistoryOK(seen, ids, past), VarsOK,
           NEW e, EntryOK(seen2, ids2, e), PushHistory(e)
    PROVE  /\ HistoryOK(seen2, ids2, past') /\ HistoryOK(seen2, ids2, future')
           /\ Len(past') <= session.entries
<1>1. past' = Capped(Append(past, e)) /\ future' = <<>>
    BY DEF PushHistory
<1>2. session.entries \in Nat \ {0} /\ Len(past) <= session.entries
    BY SessionTyped DEF VarsOK
<1>3. HistoryOK(seen2, ids2, past)
    BY HistoryGrows
<1> QED BY <1>1, <1>2, <1>3, PushedHistory, EmptyHistory

LEMMA LeafOK ==
    ASSUME TreeInv, NEW n \in NodeId, NEW at \in AnyId, Leaf(n, at)
    PROVE  TreeInv'
<1> DEFINE parent == ResolveBranchParent(nodes, at)
           leaf == NewNode("leaf", parent, "complete")
           after == WithChild(nodes[parent], n)
           ids == DOMAIN origin
           e == Entry(n, {parent, n, at}, Creation(n, parent, nodes[parent], after, leaf))
<1>1. PICK seen : /\ Consistent(seen, ids) /\ NodesOK(seen, ids, nodes)
                  /\ HistoryOK(seen, ids, past) /\ HistoryOK(seen, ids, future)
    BY DEF StoryOK, TreeInv
<1>2. /\ n \notin ids /\ parent \in DOMAIN nodes
      /\ nodes' = Grown(nodes, n, parent, leaf) /\ PushHistory(e)
      /\ origin' = BornUnder(n, parent)
      /\ UNCHANGED <<graftSource, focus, open, structuring, retryable, session, orderly>>
    BY DEF Leaf, Fresh, Grown
<1>3. parent \in AnyId
    BY <1>1, <1>2, NodesKnown
<1> HIDE DEF parent, ids
<1>4. DOMAIN origin' = ids \cup {n}
    BY <1>2, BornIs DEF ids
<1>5. PICK seen2 : Joined(seen2, seen, ids, nodes, n, parent, leaf)
    <2>1. "complete" \in Status
        BY DEF Status
    <2> QED BY <1>1, <1>2, <2>1, BirthOK
<1> HIDE DEF leaf, after
<1>6. EntryOK(seen2, ids \cup {n}, e)
    <2>1. VersionOK(seen2, ids \cup {n}, parent, nodes[parent])
        BY <1>1, <1>2, <1>5, NodesKnown, VersionGrows DEF Joined
    <2>2. {parent, n, at} \in SUBSET AnyId
        BY <1>3 DEF AnyId
    <2> QED BY <1>3, <1>5, <2>1, <2>2, CreationOK DEF Joined, after
<1> HIDE DEF e
<1>7. /\ HistoryOK(seen2, ids \cup {n}, past') /\ HistoryOK(seen2, ids \cup {n}, future')
      /\ Len(past') <= session.entries
    BY <1>1, <1>2, <1>5, <1>6, PushOK DEF Joined, TreeInv
<1>8. StoryOK(nodes, past, future, DOMAIN origin)'
    BY <1>2, <1>4, <1>5, <1>7, Story DEF Joined
<1>9. VarsOK'
    BY <1>2, <1>4, <1>7 DEF VarsOK, TreeInv, ids
<1> QED BY <1>8, <1>9 DEF TreeInv

LEMMA LayerMoveOK ==
    ASSUME TreeInv, NEW n \in NodeId, LayerMove(n)
    PROVE  TreeInv'
<1> DEFINE ids == DOMAIN origin
           group == [x \in {n} |-> Change(nodes[x], nodes[x])]
           e == Entry(n, {n}, <<group>>)
<1>1. PICK seen : /\ Consistent(seen, ids) /\ NodesOK(seen, ids, nodes)
                  /\ HistoryOK(seen, ids, past) /\ HistoryOK(seen, ids, future)
    BY DEF StoryOK, TreeInv
<1>2. /\ n \in DOMAIN nodes /\ PushHistory(e)
      /\ UNCHANGED <<nodes, graftSource, focus, open, structuring, retryable, origin,
                     session, orderly>>
    BY DEF LayerMove
<1>3. GroupOK(seen, ids, group)
    <2>1. \A x \in DOMAIN group : \E b, a : /\ group[x] = Change(b, a)
                                            /\ SnapshotOK(seen, ids, x, b)
                                            /\ SnapshotOK(seen, ids, x, a)
        BY <1>1, <1>2, NodesKnown DEF SnapshotOK
    <2>2. group = [x \in DOMAIN group |-> group[x]] /\ DOMAIN group \subseteq AnyId
        BY DEF AnyId
    <2> HIDE DEF group
    <2> QED BY <2>1, <2>2, GroupFrom
<1> HIDE DEF group
<1>4. EntryOK(seen, ids, e)
    BY <1>3, EntryOfOne DEF AnyId
<1> HIDE DEF e
<1>5. /\ HistoryOK(seen, ids, past') /\ HistoryOK(seen, ids, future')
      /\ Len(past') <= session.entries
    BY <1>1, <1>2, <1>4, PushOK DEF TreeInv
<1>6. StoryOK(nodes, past, future, DOMAIN origin)'
    BY <1>1, <1>2, <1>5, Story
<1>7. VarsOK'
    BY <1>2, <1>5 DEF VarsOK, TreeInv
<1> QED BY <1>6, <1>7 DEF TreeInv

LEMMA ReloadOK ==
    ASSUME TreeInv, Reload
    PROVE  TreeInv'
<1> DEFINE ids == DOMAIN origin
<1>1. PICK seen : Consistent(seen, ids) /\ NodesOK(seen, ids, nodes)
    BY DEF StoryOK, TreeInv
<1>2. PICK failed \in SUBSET DOMAIN nodes :
          nodes' = [n \in DOMAIN nodes |->
                      IF n \in failed THEN [nodes[n] EXCEPT !.status = "failed"]
                      ELSE NormalizeNode(nodes[n])]
    BY DEF Reload
<1>3. ASSUME NEW n \in DOMAIN nodes
      PROVE  VersionOK(seen, ids, n, nodes'[n])
    <2>1. VersionOK(seen, ids, n, nodes[n])
        BY <1>1, NodesKnown
    <2>2. "failed" \in Status
        BY DEF Status
    <2> QED BY <1>2, <2>1, <2>2, StatusVersion, NormalVersion
<1>4. NodesOK(seen, ids, nodes')
    <2>1. DOMAIN nodes' = DOMAIN nodes /\ nodes' = [n \in DOMAIN nodes' |-> nodes'[n]]
        BY <1>2
    <2>2. DOMAIN nodes \subseteq AnyId /\ Root \in DOMAIN nodes
        BY <1>1, NodesKnown
    <2> QED BY <1>3, <2>1, <2>2, NodesFrom
<1>5. past' = <<>> /\ future' = <<>> /\ UNCHANGED <<origin, session>>
    BY DEF Reload
<1>6. StoryOK(nodes, past, future, DOMAIN origin)'
    BY <1>1, <1>4, <1>5, EmptyHistory, Story
<1>7. VarsOK'
    <2>1. Len(past') = 0 /\ session.entries \in Nat
        BY <1>5, SessionTyped DEF TreeInv
    <2> QED BY <2>1 DEF Reload, VarsOK, TreeInv
<1> QED BY <1>6, <1>7 DEF TreeInv

LEMMA PatchedOK ==
    ASSUME NEW seen, NEW ids, NodesOK(seen, ids, nodes), NEW e, EntryOK(seen, ids, e)
    PROVE  /\ NodesOK(seen, ids, ApplyPatch(nodes, e, "undo"))
           /\ NodesOK(seen, ids, ApplyPatch(nodes, e, "redo"))
BY PatchKeepsNodes DEF Direction

LEMMA UndoAtOK ==
    ASSUME TreeInv, NEW i \in DOMAIN past, UndoAt(i), focus' \in AnyId \cup {None}
    PROVE  TreeInv'
<1> DEFINE ids == DOMAIN origin
           e == past[i]
<1>1. PICK seen : /\ Consistent(seen, ids) /\ NodesOK(seen, ids, nodes)
                  /\ HistoryOK(seen, ids, past) /\ HistoryOK(seen, ids, future)
    BY DEF StoryOK, TreeInv
<1>2. /\ nodes' = ApplyPatch(nodes, e, "undo") /\ past' = RemoveAt(past, i)
      /\ future' = <<e>> \o future /\ orderly' \in BOOLEAN
      /\ UNCHANGED <<graftSource, open, structuring, retryable, origin, session>>
    BY DEF UndoAt, TreeInv, VarsOK
<1>3. past \in Seq(EntryType) /\ i \in 1..Len(past) /\ Len(past) \in Nat
    BY <1>1, LenProperties DEF HistoryOK
<1>4. EntryOK(seen, ids, e)
    BY <1>1, <1>3 DEF HistoryOK
<1> HIDE DEF e, ids
<1>5. NodesOK(seen, ids, nodes')
    BY <1>1, <1>2, <1>4, PatchedOK
<1>6. HistoryOK(seen, ids, past') /\ Len(past') = Len(past) - 1
    BY <1>1, <1>2, <1>3, ShorterHistory
<1>7. HistoryOK(seen, ids, future')
    BY <1>1, <1>2, <1>4, LongerHistory
<1>8. StoryOK(nodes', past', future', ids)
    BY <1>1, <1>5, <1>6, <1>7, Story
<1>9. Len(past') <= session.entries
    <2>1. session.entries \in Nat /\ Len(past) <= session.entries
        BY SessionTyped DEF TreeInv, VarsOK
    <2> QED BY <1>3, <1>6, <2>1
<1>10. VarsOK'
    BY <1>2, <1>9 DEF VarsOK, TreeInv
<1> QED BY <1>2, <1>8, <1>10 DEF TreeInv, ids

LEMMA RedoAtOK ==
    ASSUME TreeInv, NEW i \in DOMAIN future, RedoAt(i), focus' \in AnyId \cup {None}
    PROVE  TreeInv'
<1> DEFINE ids == DOMAIN origin
           e == future[i]
<1>1. PICK seen : /\ Consistent(seen, ids) /\ NodesOK(seen, ids, nodes)
                  /\ HistoryOK(seen, ids, past) /\ HistoryOK(seen, ids, future)
    BY DEF StoryOK, TreeInv
<1>2. /\ nodes' = ApplyPatch(nodes, e, "redo") /\ past' = Capped(Append(past, e))
      /\ future' = RemoveAt(future, i) /\ orderly' \in BOOLEAN
      /\ UNCHANGED <<graftSource, open, structuring, retryable, origin, session>>
    BY DEF RedoAt, TreeInv, VarsOK
<1>3. future \in Seq(EntryType) /\ i \in 1..Len(future)
    BY <1>1, LenProperties DEF HistoryOK
<1>4. EntryOK(seen, ids, e)
    BY <1>1, <1>3 DEF HistoryOK
<1> HIDE DEF e, ids
<1>5. NodesOK(seen, ids, nodes')
    BY <1>1, <1>2, <1>4, PatchedOK
<1>6. HistoryOK(seen, ids, past') /\ Len(past') <= session.entries
    <2>1. session.entries \in Nat \ {0} /\ Len(past) <= session.entries
        BY SessionTyped DEF TreeInv, VarsOK
    <2> QED BY <1>1, <1>2, <1>4, <2>1, PushedHistory
<1>7. HistoryOK(seen, ids, future')
    BY <1>1, <1>2, <1>3, ShorterHistory
<1>8. StoryOK(nodes', past', future', ids)
    BY <1>1, <1>5, <1>6, <1>7, Story
<1>9. VarsOK'
    BY <1>2, <1>6 DEF VarsOK, TreeInv
<1> QED BY <1>2, <1>8, <1>9 DEF TreeInv, ids

LEMMA LastOfPast ==
    ASSUME TreeInv
    PROVE  /\ past # <<>> => Len(past) \in DOMAIN past
           /\ future # <<>> => 1 \in DOMAIN future
<1>1. past \in Seq(EntryType) /\ future \in Seq(EntryType)
    BY DEF TreeInv, StoryOK, HistoryOK
<1> QED BY <1>1, EmptySeq, LenProperties

LEMMA RingsOK ==
    ASSUME TreeInv, \/ Undo \/ Redo
                    \/ \E n \in AnyId : UndoNode(n) \/ RedoNode(n)
    PROVE  TreeInv'
<1>1. CASE Undo
    BY <1>1, LastOfPast, UndoAtOK DEF Undo
<1>2. CASE Redo
    BY <1>2, LastOfPast, RedoAtOK DEF Redo
<1>3. ASSUME NEW n \in AnyId, PanelOn(n)
      PROVE  focus' \in AnyId \cup {None}
    BY <1>3 DEF PanelOn
<1>4. ASSUME NEW n \in AnyId, UndoNode(n)
      PROVE  TreeInv'
    <2>1. PICK i \in DOMAIN past : UndoAt(i)
        BY <1>4 DEF UndoNode, Affecting
    <2>2. focus' \in AnyId \cup {None}
        BY <1>3, <1>4 DEF UndoNode
    <2> QED BY <2>1, <2>2, UndoAtOK
<1>5. ASSUME NEW n \in AnyId, RedoNode(n)
      PROVE  TreeInv'
    <2>1. PICK i \in DOMAIN future : RedoAt(i)
        BY <1>5 DEF RedoNode, Affecting
    <2>2. focus' \in AnyId \cup {None}
        BY <1>3, <1>5 DEF RedoNode
    <2> QED BY <2>1, <2>2, RedoAtOK
<1> QED BY <1>1, <1>2, <1>4, <1>5

-----------------------------------------------------------------------------
(* Rewritten snapshots.                                                     *)

\* What has been seen, with the looks of n changed by F.
Recast(seen, n, F) == {<<p[1], IF p[1] = n THEN F[p[2]] ELSE p[2]>> : p \in seen}

LEMMA SeenRecast ==
    ASSUME NEW seen, NEW ids, Consistent(seen, ids), NEW n, NEW F \in [Look -> Look],
           \A l : <<n, l>> \in seen => Proper(n, F[l]),
           \A l, m : <<n, l>> \in seen /\ <<n, m>> \in seen => Agree(F[l], F[m])
    PROVE  /\ Consistent(Recast(seen, n, F), ids)
           /\ \A l : <<n, l>> \in seen => <<n, F[l]>> \in Recast(seen, n, F)
           /\ \A m, l : m # n /\ <<m, l>> \in seen => <<m, l>> \in Recast(seen, n, F)
<1> DEFINE seen2 == Recast(seen, n, F)
<1>1. ASSUME NEW m, NEW l, <<m, l>> \in seen2
      PROVE  \E k : <<m, k>> \in seen /\ l = IF m = n THEN F[k] ELSE k
    <2>1. PICK p \in seen : <<m, l>> = <<p[1], IF p[1] = n THEN F[p[2]] ELSE p[2]>>
        BY <1>1 DEF Recast
    <2>2. p = <<p[1], p[2]>> /\ p[1] = m
        BY <2>1 DEF Consistent
    <2> QED BY <2>1, <2>2
<1>2. ASSUME NEW m, NEW k, <<m, k>> \in seen
      PROVE  <<m, IF m = n THEN F[k] ELSE k>> \in seen2
    <2> DEFINE p == <<m, k>>
    <2>1. p[1] = m /\ p[2] = k /\ p \in seen
        BY <1>2
    <2>2. <<p[1], IF p[1] = n THEN F[p[2]] ELSE p[2]>> \in seen2
        BY <2>1 DEF Recast
    <2> QED BY <2>1, <2>2
<1>3. seen2 \in SUBSET ((ids \cup {Root}) \X Look)
    <2> SUFFICES ASSUME NEW p \in seen
                 PROVE  <<p[1], IF p[1] = n THEN F[p[2]] ELSE p[2]>> \in (ids \cup {Root}) \X Look
        BY DEF Recast
    <2>1. p[1] \in ids \cup {Root} /\ p[2] \in Look
        BY DEF Consistent
    <2> QED BY <2>1
<1> HIDE DEF seen2
<1>4. ASSUME NEW m, NEW l, <<m, l>> \in seen2
      PROVE  Proper(m, l)
    <2>1. PICK k : <<m, k>> \in seen /\ l = IF m = n THEN F[k] ELSE k
        BY <1>1, <1>4
    <2> QED BY <2>1 DEF Consistent
<1>5. ASSUME NEW m, NEW l1, NEW l2, <<m, l1>> \in seen2, <<m, l2>> \in seen2
      PROVE  Agree(l1, l2)
    <2>1. PICK k1 : <<m, k1>> \in seen /\ l1 = IF m = n THEN F[k1] ELSE k1
        BY <1>1, <1>5
    <2>2. PICK k2 : <<m, k2>> \in seen /\ l2 = IF m = n THEN F[k2] ELSE k2
        BY <1>1, <1>5
    <2> QED BY <2>1, <2>2 DEF Consistent
<1>6. Consistent(seen2, ids)
    BY <1>3, <1>4, <1>5 DEF Consistent
<1> QED BY <1>2, <1>6 DEF seen2

RewrittenGroup(seen, ids, n, new, group) ==
    IF n \in DOMAIN group
    THEN \E b, a : /\ new = [group EXCEPT ![n] = Change(b, a)]
                   /\ SnapshotOK(seen, ids, n, b) /\ SnapshotOK(seen, ids, n, a)
    ELSE new = group

LEMMA RewrittenGroupOK ==
    ASSUME NEW seen, NEW ids, NEW seen2, NEW n, NEW group, GroupOK(seen, ids, group),
           \A m, l : m # n /\ <<m, l>> \in seen => <<m, l>> \in seen2,
           NEW new, RewrittenGroup(seen2, ids, n, new, group)
    PROVE  GroupOK(seen2, ids, new)
<1>1. group \in Group /\ DOMAIN group \subseteq AnyId /\ group = [m \in DOMAIN group |-> group[m]]
    BY DEF GroupOK, Group
<1>2. ASSUME NEW m \in DOMAIN group, m # n
      PROVE  \E b, a : /\ group[m] = Change(b, a)
                       /\ SnapshotOK(seen2, ids, m, b) /\ SnapshotOK(seen2, ids, m, a)
    <2>1. group[m] \in [before: Snapshot, after: Snapshot]
        BY <1>1 DEF Group
    <2>2. group[m] = Change(group[m].before, group[m].after)
        BY <2>1 DEF Change
    <2>3. SnapshotOK(seen, ids, m, group[m].before) /\ SnapshotOK(seen, ids, m, group[m].after)
        BY DEF GroupOK
    <2>4. /\ SnapshotOK(seen2, ids, m, group[m].before)
          /\ SnapshotOK(seen2, ids, m, group[m].after)
        BY <1>2, <2>3 DEF SnapshotOK, VersionOK
    <2> QED BY <2>2, <2>4
<1>3. CASE n \in DOMAIN group
    <2>1. PICK b, a : /\ new = [group EXCEPT ![n] = Change(b, a)]
                      /\ SnapshotOK(seen2, ids, n, b) /\ SnapshotOK(seen2, ids, n, a)
        BY <1>3 DEF RewrittenGroup
    <2>2. /\ DOMAIN new = DOMAIN group /\ new = [m \in DOMAIN new |-> new[m]]
          /\ new[n] = Change(b, a) /\ \A m \in DOMAIN group : m # n => new[m] = group[m]
        BY <1>1, <1>3, <2>1
    <2>3. ASSUME NEW m \in DOMAIN new
          PROVE  \E b1, a1 : /\ new[m] = Change(b1, a1)
                             /\ SnapshotOK(seen2, ids, m, b1) /\ SnapshotOK(seen2, ids, m, a1)
        <3>1. CASE m = n
            BY <2>1, <2>2, <3>1
        <3>2. CASE m # n
            BY <1>2, <2>2, <3>2
        <3> QED BY <3>1, <3>2
    <2> QED BY <1>1, <2>2, <2>3, GroupFrom
<1>4. CASE n \notin DOMAIN group
    <2>1. new = group
        BY <1>4 DEF RewrittenGroup
    <2> QED BY <1>1, <1>2, <1>4, <2>1, GroupFrom
<1> QED BY <1>3, <1>4

RewrittenEntry(seen, ids, n, new, e) ==
    \E patch : /\ new = [e EXCEPT !.patch = patch]
               /\ patch = [g \in DOMAIN e.patch |-> patch[g]]
               /\ \A g \in DOMAIN e.patch :
                     RewrittenGroup(seen, ids, n, patch[g], e.patch[g])

RewrittenEntries(seen, ids, n, new, old) ==
    /\ new = [i \in DOMAIN old |-> new[i]]
    /\ \A i \in DOMAIN old : RewrittenEntry(seen, ids, n, new[i], old[i])

LEMMA RewrittenHistory ==
    ASSUME NEW seen, NEW ids, NEW seen2, NEW n, NEW old, HistoryOK(seen, ids, old),
           \A m, l : m # n /\ <<m, l>> \in seen => <<m, l>> \in seen2,
           NEW new, RewrittenEntries(seen2, ids, n, new, old)
    PROVE  HistoryOK(seen2, ids, new) /\ Len(new) = Len(old)
<1> USE DEF RewrittenEntries
<1>1. old \in Seq(EntryType) /\ Len(old) \in Nat /\ DOMAIN old = 1..Len(old)
    BY LenProperties DEF HistoryOK
<1>2. ASSUME NEW i \in 1..Len(old)
      PROVE  EntryOK(seen2, ids, new[i])
    <2>1. EntryOK(seen, ids, old[i]) /\ old[i] \in EntryType
        BY DEF HistoryOK, EntryOK
    <2>2. PICK patch : /\ new[i] = [old[i] EXCEPT !.patch = patch]
                       /\ patch = [g \in DOMAIN old[i].patch |-> patch[g]]
                       /\ \A g \in DOMAIN old[i].patch :
                             RewrittenGroup(seen2, ids, n, patch[g], old[i].patch[g])
        BY <1>1 DEF RewrittenEntry
    <2>3. /\ old[i].patch \in Seq(Group) /\ Len(old[i].patch) \in Nat
          /\ DOMAIN old[i].patch = 1..Len(old[i].patch)
        BY <2>1, LenProperties DEF EntryType
    <2>4. ASSUME NEW g \in 1..Len(old[i].patch)
          PROVE  GroupOK(seen2, ids, patch[g])
        <3>1. GroupOK(seen, ids, old[i].patch[g])
            BY <2>1 DEF EntryOK
        <3>2. RewrittenGroup(seen2, ids, n, patch[g], old[i].patch[g])
            BY <2>2, <2>3
        <3> QED BY <3>1, <3>2, RewrittenGroupOK
    <2>5. patch \in Seq(Group) /\ Len(patch) = Len(old[i].patch)
        <3>1. \A g \in 1..Len(old[i].patch) : patch[g] \in Group
            BY <2>4 DEF GroupOK
        <3>2. patch \in [1..Len(old[i].patch) -> Group]
            BY <2>2, <2>3, <3>1
        <3> QED BY <2>3, <3>2
    <2>6. new[i] \in EntryType /\ new[i].patch = patch
        BY <2>1, <2>2, <2>5 DEF EntryType
    <2> QED BY <2>4, <2>5, <2>6 DEF EntryOK
<1>3. new \in Seq(EntryType) /\ Len(new) = Len(old)
    <2>1. \A i \in 1..Len(old) : new[i] \in EntryType
        BY <1>2 DEF EntryOK
    <2>2. new \in [1..Len(old) -> EntryType]
        BY <1>1, <2>1
    <2> QED BY <1>1, <2>2
<1> QED BY <1>2, <1>3 DEF HistoryOK

\* The snapshots of a note follow the choice of the user.
LeavesRewritten(entries, n, included) ==
    Rewrite(entries, n, LAMBDA s : SyncLeaf(s, included))

LEMMA LeafSnapshotsFollow ==
    ASSUME NEW seen, NEW ids, NEW seen2, NEW n, NEW old, HistoryOK(seen, ids, old),
           \A m, l : m # n /\ <<m, l>> \in seen => <<m, l>> \in seen2,
           NEW included, \A s : VersionOK(seen, ids, n, s)
                                   => VersionOK(seen2, ids, n, SyncLeaf(s, included)),
           NEW new, new = LeavesRewritten(old, n, included)
    PROVE  HistoryOK(seen2, ids, new) /\ Len(new) = Len(old)
<1> DEFINE sync(s) == IF s = None THEN None ELSE SyncLeaf(s, included)
           synced(group) ==
               IF n \in DOMAIN group
               THEN [group EXCEPT ![n] = Change(sync(@.before), sync(@.after))]
               ELSE group
           patch(i) == [g \in DOMAIN old[i].patch |-> synced(old[i].patch[g])]
<1>1. new = [i \in DOMAIN old |-> [old[i] EXCEPT !.patch = patch(i)]]
    <2>1. ASSUME NEW i \in DOMAIN old
          PROVE  old[i] \in EntryType
        <3>1. old \in Seq(EntryType)
            BY DEF HistoryOK
        <3> QED BY <3>1, ElementOfSeq, LenProperties
    <2> QED BY <2>1 DEF Rewrite, EntryType, LeavesRewritten
<1>2. ASSUME NEW i \in DOMAIN old, NEW g \in DOMAIN old[i].patch
      PROVE  RewrittenGroup(seen2, ids, n, synced(old[i].patch[g]), old[i].patch[g])
    <2> DEFINE group == old[i].patch[g]
    <2>1. GroupOK(seen, ids, group)
        <3>1. old \in Seq(EntryType) /\ i \in 1..Len(old)
            BY LenProperties DEF HistoryOK
        <3>2. EntryOK(seen, ids, old[i])
            BY <3>1 DEF HistoryOK
        <3>3. g \in 1..Len(old[i].patch)
            BY <3>2, LenProperties DEF EntryOK, EntryType
        <3> QED BY <3>2, <3>3 DEF EntryOK
    <2> HIDE DEF group
    <2>2. CASE n \in DOMAIN group
        <3>1. /\ SnapshotOK(seen, ids, n, group[n].before)
              /\ SnapshotOK(seen, ids, n, group[n].after)
            BY <2>1, <2>2 DEF GroupOK
        <3>2. ASSUME NEW s, SnapshotOK(seen, ids, n, s)
              PROVE  SnapshotOK(seen2, ids, n, sync(s))
            BY <3>2, NoneAssumption DEF SnapshotOK, VersionOK
        <3>3. synced(group) = [group EXCEPT ![n] = Change(sync(group[n].before),
                                                          sync(group[n].after))]
            BY <2>2
        <3> HIDE DEF sync, synced
        <3>4. RewrittenGroup(seen2, ids, n, synced(group), group)
            BY <2>2, <3>1, <3>2, <3>3 DEF RewrittenGroup
        <3> QED BY <3>4 DEF group
    <2>3. CASE n \notin DOMAIN group
        <3>1. RewrittenGroup(seen2, ids, n, synced(group), group)
            BY <2>3 DEF RewrittenGroup
        <3> QED BY <3>1 DEF group
    <2> QED BY <2>2, <2>3
<1>3. ASSUME NEW i \in DOMAIN old
      PROVE  RewrittenEntry(seen2, ids, n, new[i], old[i])
    <2>1. /\ patch(i) = [g \in DOMAIN old[i].patch |-> patch(i)[g]]
          /\ \A g \in DOMAIN old[i].patch : patch(i)[g] = synced(old[i].patch[g])
        OBVIOUS
    <2>2. new[i] = [old[i] EXCEPT !.patch = patch(i)]
        BY <1>1
    <2>3. PICK p : p = patch(i)
        OBVIOUS
    <2>4. ASSUME NEW g \in DOMAIN old[i].patch
          PROVE  RewrittenGroup(seen2, ids, n, p[g], old[i].patch[g])
        <3>1. p[g] = synced(old[i].patch[g])
            BY <2>1, <2>3
        <3> HIDE DEF synced, patch
        <3> QED BY <1>2, <3>1
    <2> HIDE DEF synced, patch
    <2> QED BY <2>1, <2>2, <2>3, <2>4 DEF RewrittenEntry
<1>4. new = [i \in DOMAIN old |-> new[i]]
    BY <1>1
<1>5. RewrittenEntries(seen2, ids, n, new, old)
    BY <1>3, <1>4 DEF RewrittenEntries
<1> QED BY <1>5, RewrittenHistory

LEMMA ToggleLeafContextOK ==
    ASSUME TreeInv, NEW n \in NodeId, ToggleLeafContext(n)
    PROVE  TreeInv'
<1> DEFINE ids == DOMAIN origin
           flipped == ~nodes[n].included
           F == [l \in Look |-> IF l.kind = "leaf" THEN [l EXCEPT !.included = flipped] ELSE l]
<1>1. PICK seen : /\ Consistent(seen, ids) /\ NodesOK(seen, ids, nodes)
                  /\ HistoryOK(seen, ids, past) /\ HistoryOK(seen, ids, future)
    BY DEF StoryOK, TreeInv
<1>2. /\ n \in DOMAIN nodes /\ nodes[n].kind = "leaf"
      /\ nodes' = [nodes EXCEPT ![n].included = flipped]
      /\ past' = LeavesRewritten(past, n, flipped)
      /\ future' = LeavesRewritten(future, n, flipped)
      /\ UNCHANGED <<graftSource, focus, open, structuring, retryable, origin, session,
                     orderly>>
    BY DEF ToggleLeafContext, LeavesRewritten
<1>3. flipped \in BOOLEAN
    OBVIOUS
<1> HIDE DEF ids, flipped
<1> DEFINE seen2 == Recast(seen, n, F)
<1>4. F \in [Look -> Look]
    BY <1>3 DEF Look
<1>5. /\ Consistent(seen2, ids)
      /\ \A l : <<n, l>> \in seen => <<n, F[l]>> \in seen2
      /\ \A m, l : m # n /\ <<m, l>> \in seen => <<m, l>> \in seen2
    <2>1. ASSUME NEW l, <<n, l>> \in seen
          PROVE  l \in Look /\ Proper(n, F[l])
        <3>1. l \in Look /\ Proper(n, l)
            BY <1>1, <2>1 DEF Consistent
        <3> QED BY <3>1 DEF Proper, Look
    <2>2. ASSUME NEW l, NEW m, <<n, l>> \in seen, <<n, m>> \in seen
          PROVE  Agree(F[l], F[m])
        <3>1. l \in Look /\ m \in Look /\ Agree(l, m)
            BY <1>1, <2>2, <2>1 DEF Consistent
        <3> QED BY <3>1 DEF Agree, Look
    <2> HIDE DEF F
    <2> QED BY <1>1, <1>4, <2>1, <2>2, SeenRecast
<1> HIDE DEF seen2
<1>6. ASSUME NEW s, VersionOK(seen, ids, n, s)
      PROVE  VersionOK(seen2, ids, n, SyncLeaf(s, flipped))
    <2>1. s \in Node
        BY <1>6 DEF VersionOK
    <2>2. SyncLeaf(s, flipped) \in Node /\ SyncLeaf(s, flipped).children = s.children
        BY <1>3, <2>1 DEF SyncLeaf, Node
    <2>3. LookOf(SyncLeaf(s, flipped)) = F[LookOf(s)]
        <3>1. LookOf(s) \in Look
            BY <2>1, LookTyped
        <3>2. LookOf(s).kind = s.kind
            BY DEF LookOf
        <3>3. CASE s.kind = "leaf"
            <4>1. LookOf([s EXCEPT !.included = flipped]) = [LookOf(s) EXCEPT !.included = flipped]
                BY <2>1 DEF LookOf, Node
            <4> QED BY <3>1, <3>2, <3>3, <4>1 DEF SyncLeaf
        <3>4. CASE s.kind # "leaf"
            BY <3>1, <3>2, <3>4 DEF SyncLeaf
        <3> QED BY <3>3, <3>4
    <2> HIDE DEF F
    <2> QED BY <1>5, <1>6, <2>2, <2>3 DEF VersionOK
<1> HIDE DEF F
<1>7. /\ HistoryOK(seen2, ids, past') /\ Len(past') = Len(past)
      /\ HistoryOK(seen2, ids, future')
    BY <1>1, <1>2, <1>5, <1>6, LeafSnapshotsFollow
<1>8. NodesOK(seen2, ids, nodes')
    <2>1. VersionOK(seen, ids, n, nodes[n]) /\ nodes[n] \in Node
        BY <1>1, <1>2, NodesKnown
    <2>2. nodes' = [m \in DOMAIN nodes |-> IF m = n THEN SyncLeaf(nodes[n], flipped) ELSE nodes[m]]
        <3>1. nodes = [m \in DOMAIN nodes |-> nodes[m]]
            BY <1>1 DEF NodesOK, NodeMap
        <3> QED BY <1>2, <3>1 DEF SyncLeaf
    <2>3. DOMAIN nodes' = DOMAIN nodes /\ nodes' = [m \in DOMAIN nodes' |-> nodes'[m]]
        BY <2>2
    <2>4. ASSUME NEW m \in DOMAIN nodes'
          PROVE  VersionOK(seen2, ids, m, nodes'[m])
        <3>1. CASE m = n
            <4>1. VersionOK(seen2, ids, n, SyncLeaf(nodes[n], flipped))
                BY <1>6, <2>1
            <4> QED BY <2>2, <2>3, <3>1, <4>1
        <3>2. CASE m # n
            <4>1. VersionOK(seen, ids, m, nodes[m])
                BY <1>1, <2>3, NodesKnown
            <4> QED BY <1>5, <2>2, <2>3, <3>2, <4>1 DEF VersionOK
        <3> QED BY <3>1, <3>2
    <2>5. DOMAIN nodes \subseteq AnyId /\ Root \in DOMAIN nodes
        BY <1>1, NodesKnown
    <2> QED BY <2>3, <2>4, <2>5, NodesFrom
<1>9. StoryOK(nodes', past', future', ids)
    BY <1>5, <1>7, <1>8, Story
<1>10. VarsOK'
    BY <1>2, <1>7 DEF VarsOK, TreeInv
<1> QED BY <1>2, <1>9, <1>10 DEF TreeInv, ids
\* The snapshots taken under a parent get the card written there.
CardsRewritten(entries, n, parent) ==
    Rewrite(entries, n, LAMBDA s : SyncCard(s, parent))

LEMMA CardSnapshotsFollow ==
    ASSUME NEW seen, NEW ids, NEW seen2, NEW n, NEW old, HistoryOK(seen, ids, old),
           \A m, l : m # n /\ <<m, l>> \in seen => <<m, l>> \in seen2,
           NEW parent, \A s : VersionOK(seen, ids, n, s)
                                   => VersionOK(seen2, ids, n, SyncCard(s, parent)),
           NEW new, new = CardsRewritten(old, n, parent)
    PROVE  HistoryOK(seen2, ids, new) /\ Len(new) = Len(old)
<1> DEFINE sync(s) == IF s = None THEN None ELSE SyncCard(s, parent)
           synced(group) ==
               IF n \in DOMAIN group
               THEN [group EXCEPT ![n] = Change(sync(@.before), sync(@.after))]
               ELSE group
           patch(i) == [g \in DOMAIN old[i].patch |-> synced(old[i].patch[g])]
<1>1. new = [i \in DOMAIN old |-> [old[i] EXCEPT !.patch = patch(i)]]
    <2>1. ASSUME NEW i \in DOMAIN old
          PROVE  old[i] \in EntryType
        <3>1. old \in Seq(EntryType)
            BY DEF HistoryOK
        <3> QED BY <3>1, ElementOfSeq, LenProperties
    <2> QED BY <2>1 DEF Rewrite, EntryType, CardsRewritten
<1>2. ASSUME NEW i \in DOMAIN old, NEW g \in DOMAIN old[i].patch
      PROVE  RewrittenGroup(seen2, ids, n, synced(old[i].patch[g]), old[i].patch[g])
    <2> DEFINE group == old[i].patch[g]
    <2>1. GroupOK(seen, ids, group)
        <3>1. old \in Seq(EntryType) /\ i \in 1..Len(old)
            BY LenProperties DEF HistoryOK
        <3>2. EntryOK(seen, ids, old[i])
            BY <3>1 DEF HistoryOK
        <3>3. g \in 1..Len(old[i].patch)
            BY <3>2, LenProperties DEF EntryOK, EntryType
        <3> QED BY <3>2, <3>3 DEF EntryOK
    <2> HIDE DEF group
    <2>2. CASE n \in DOMAIN group
        <3>1. /\ SnapshotOK(seen, ids, n, group[n].before)
              /\ SnapshotOK(seen, ids, n, group[n].after)
            BY <2>1, <2>2 DEF GroupOK
        <3>2. ASSUME NEW s, SnapshotOK(seen, ids, n, s)
              PROVE  SnapshotOK(seen2, ids, n, sync(s))
            BY <3>2, NoneAssumption DEF SnapshotOK, VersionOK
        <3>3. synced(group) = [group EXCEPT ![n] = Change(sync(group[n].before),
                                                          sync(group[n].after))]
            BY <2>2
        <3> HIDE DEF sync, synced
        <3>4. RewrittenGroup(seen2, ids, n, synced(group), group)
            BY <2>2, <3>1, <3>2, <3>3 DEF RewrittenGroup
        <3> QED BY <3>4 DEF group
    <2>3. CASE n \notin DOMAIN group
        <3>1. RewrittenGroup(seen2, ids, n, synced(group), group)
            BY <2>3 DEF RewrittenGroup
        <3> QED BY <3>1 DEF group
    <2> QED BY <2>2, <2>3
<1>3. ASSUME NEW i \in DOMAIN old
      PROVE  RewrittenEntry(seen2, ids, n, new[i], old[i])
    <2>1. /\ patch(i) = [g \in DOMAIN old[i].patch |-> patch(i)[g]]
          /\ \A g \in DOMAIN old[i].patch : patch(i)[g] = synced(old[i].patch[g])
        OBVIOUS
    <2>2. new[i] = [old[i] EXCEPT !.patch = patch(i)]
        BY <1>1
    <2>3. PICK p : p = patch(i)
        OBVIOUS
    <2>4. ASSUME NEW g \in DOMAIN old[i].patch
          PROVE  RewrittenGroup(seen2, ids, n, p[g], old[i].patch[g])
        <3>1. p[g] = synced(old[i].patch[g])
            BY <2>1, <2>3
        <3> HIDE DEF synced, patch
        <3> QED BY <1>2, <3>1
    <2> HIDE DEF synced, patch
    <2> QED BY <2>1, <2>2, <2>3, <2>4 DEF RewrittenEntry
<1>4. new = [i \in DOMAIN old |-> new[i]]
    BY <1>1
<1>5. RewrittenEntries(seen2, ids, n, new, old)
    BY <1>3, <1>4 DEF RewrittenEntries
<1> QED BY <1>5, RewrittenHistory


LEMMA SetNodeSemanticsOK ==
    ASSUME TreeInv, NEW r \in structuring, SetNodeSemantics(r)
    PROVE  TreeInv'
<1> DEFINE ids == DOMAIN origin
           n == r[1]
           parent == r[2]
           F == [l \in Look |-> IF l.parent # parent \/ l.context = "stale" THEN l
                                ELSE [l EXCEPT !.context = "valid"]]
<1>1. PICK seen : /\ Consistent(seen, ids) /\ NodesOK(seen, ids, nodes)
                  /\ HistoryOK(seen, ids, past) /\ HistoryOK(seen, ids, future)
    BY DEF StoryOK, TreeInv
<1>2. /\ structuring' = structuring \ {r}
      /\ UNCHANGED <<graftSource, focus, open, retryable, origin, session, orderly>>
    BY DEF SetNodeSemantics
<1>3. CASE ~CardAccepted(n, parent)
    <2>1. UNCHANGED <<nodes, past, future>>
        BY <1>3 DEF SetNodeSemantics
    <2>2. VarsOK'
        BY <1>2, <2>1 DEF TreeInv, VarsOK
    <2> QED BY <1>2, <2>1, <2>2 DEF TreeInv
<1>4. CASE CardAccepted(n, parent)
    <2>1. /\ nodes' = [nodes EXCEPT ![n].context = "valid"]
          /\ past' = CardsRewritten(past, n, parent)
          /\ future' = CardsRewritten(future, n, parent)
        BY <1>4 DEF SetNodeSemantics, CardsRewritten
    <2>2. /\ n \in DOMAIN nodes /\ nodes[n].kind = "branch" /\ nodes[n].parent = parent
          /\ nodes[n].context # "stale"
        BY <1>4 DEF CardAccepted
    <2> HIDE DEF ids, n, parent
    <2> DEFINE seen2 == Recast(seen, n, F)
    <2>4. F \in [Look -> Look]
        BY DEF Look
    <2>5. /\ Consistent(seen2, ids)
          /\ \A l : <<n, l>> \in seen => <<n, F[l]>> \in seen2
          /\ \A m, l : m # n /\ <<m, l>> \in seen => <<m, l>> \in seen2
        <3>1. <<n, LookOf(nodes[n])>> \in seen /\ LookOf(nodes[n]).kind = "branch"
            <4>1. VersionOK(seen, ids, n, nodes[n])
                BY <1>1, <2>2, NodesKnown
            <4> QED BY <2>2, <4>1 DEF VersionOK, LookOf
        <3>2. ASSUME NEW l, <<n, l>> \in seen
              PROVE  l \in Look /\ l.kind = "branch" /\ Proper(n, F[l])
            <4>1. l \in Look /\ Proper(n, l) /\ Agree(l, LookOf(nodes[n]))
                BY <1>1, <3>1, <3>2 DEF Consistent
            <4> QED BY <3>1, <4>1 DEF Proper, Look, Agree
        <3>3. ASSUME NEW l, NEW m, <<n, l>> \in seen, <<n, m>> \in seen
              PROVE  Agree(F[l], F[m])
            <4>1. l \in Look /\ m \in Look /\ Agree(l, m) /\ l.kind = "branch"
                BY <1>1, <3>2, <3>3 DEF Consistent
            <4> QED BY <4>1 DEF Agree, Look
        <3> HIDE DEF F
        <3> QED BY <1>1, <2>4, <3>2, <3>3, SeenRecast
    <2> HIDE DEF seen2
    <2>6. ASSUME NEW s, VersionOK(seen, ids, n, s)
          PROVE  VersionOK(seen2, ids, n, SyncCard(s, parent))
        <3>1. s \in Node
            BY <2>6 DEF VersionOK
        <3>2. SyncCard(s, parent) \in Node /\ SyncCard(s, parent).children = s.children
            BY <3>1 DEF SyncCard, Node
        <3>3. LookOf(SyncCard(s, parent)) = F[LookOf(s)]
            <4>1. LookOf(s) \in Look
                BY <3>1, LookTyped
            <4>2. LookOf(s).parent = s.parent /\ LookOf(s).context = s.context
                BY DEF LookOf
            <4>3. CASE s.parent # parent \/ s.context = "stale"
                BY <4>1, <4>2, <4>3 DEF SyncCard
            <4>4. CASE ~(s.parent # parent \/ s.context = "stale")
                <5>1. LookOf([s EXCEPT !.context = "valid"]) = [LookOf(s) EXCEPT !.context = "valid"]
                    BY <3>1 DEF LookOf, Node
                <5> QED BY <4>1, <4>2, <4>4, <5>1 DEF SyncCard
            <4> QED BY <4>3, <4>4
        <3> HIDE DEF F
        <3> QED BY <2>5, <2>6, <3>2, <3>3 DEF VersionOK
    <2> HIDE DEF F
    <2>7. /\ HistoryOK(seen2, ids, past') /\ Len(past') = Len(past)
          /\ HistoryOK(seen2, ids, future')
        BY <1>1, <2>1, <2>5, <2>6, CardSnapshotsFollow
    <2>8. NodesOK(seen2, ids, nodes')
        <3>1. VersionOK(seen, ids, n, nodes[n]) /\ nodes[n] \in Node
            BY <1>1, <2>2, NodesKnown
        <3>2. nodes' = [m \in DOMAIN nodes |-> IF m = n THEN SyncCard(nodes[n], parent)
                                               ELSE nodes[m]]
            <4>1. nodes = [m \in DOMAIN nodes |-> nodes[m]]
                BY <1>1 DEF NodesOK, NodeMap
            <4> QED BY <2>1, <2>2, <4>1 DEF SyncCard
        <3>3. DOMAIN nodes' = DOMAIN nodes /\ nodes' = [m \in DOMAIN nodes' |-> nodes'[m]]
            BY <3>2
        <3>4. ASSUME NEW m \in DOMAIN nodes'
              PROVE  VersionOK(seen2, ids, m, nodes'[m])
            <4>1. CASE m = n
                <5>1. VersionOK(seen2, ids, n, SyncCard(nodes[n], parent))
                    BY <2>6, <3>1
                <5> QED BY <3>2, <3>3, <4>1, <5>1
            <4>2. CASE m # n
                <5>1. VersionOK(seen, ids, m, nodes[m])
                    BY <1>1, <3>3, NodesKnown
                <5> QED BY <2>5, <3>2, <3>3, <4>2, <5>1 DEF VersionOK
            <4> QED BY <4>1, <4>2
        <3>5. DOMAIN nodes \subseteq AnyId /\ Root \in DOMAIN nodes
            BY <1>1, NodesKnown
        <3> QED BY <3>3, <3>4, <3>5, NodesFrom
    <2>9. StoryOK(nodes', past', future', ids)
        BY <2>5, <2>7, <2>8, Story
    <2>10. VarsOK'
        BY <1>2, <2>7 DEF VarsOK, TreeInv
    <2> QED BY <1>2, <2>9, <2>10 DEF TreeInv, ids
<1> QED BY <1>3, <1>4

-----------------------------------------------------------------------------
(* Grafts, prunes and plans.                                                *)

LEMMA ChangesOK ==
    ASSUME NEW seen, NEW ids, NodesOK(seen, ids, nodes), NEW new,
           DOMAIN new \subseteq DOMAIN nodes,
           \A n \in DOMAIN new : VersionOK(seen, ids, n, new[n])
    PROVE  GroupOK(seen, ids, Changes(new))
<1> DEFINE group == Changes(new)
<1>1. /\ group = [n \in DOMAIN group |-> group[n]] /\ DOMAIN group = DOMAIN new
      /\ \A n \in DOMAIN new : group[n] = Change(nodes[n], new[n])
    BY DEF Changes
<1>2. DOMAIN nodes \subseteq AnyId /\ \A n \in DOMAIN nodes : VersionOK(seen, ids, n, nodes[n])
    BY DEF NodesOK, NodeMap
<1> HIDE DEF group
<1>3. \A n \in DOMAIN group : \E b, a : /\ group[n] = Change(b, a)
                                        /\ SnapshotOK(seen, ids, n, b)
                                        /\ SnapshotOK(seen, ids, n, a)
    BY <1>1, <1>2 DEF SnapshotOK
<1>4. GroupOK(seen, ids, group)
    BY <1>1, <1>2, <1>3, GroupFrom
<1> QED BY <1>4 DEF group

LEMMA ReparentedOK ==
    ASSUME NEW seen, NEW ids, Consistent(seen, ids), NodesOK(seen, ids, nodes),
           NEW source, NEW target \in DOMAIN nodes, Graftable(source, target)
    PROVE  /\ DOMAIN Reparented(source, target) \subseteq DOMAIN nodes
           /\ \A n \in DOMAIN Reparented(source, target) :
                 VersionOK(seen, ids, n, Reparented(source, target)[n])
<1> DEFINE old == {nodes[source].parent} \cap DOMAIN nodes
           new == Reparented(source, target)
<1>1. /\ DOMAIN new = old \cup {target}
      /\ \A n \in old \cup {target} :
            new[n] = IF n \in old THEN WithoutChild(nodes[n], source)
                     ELSE IF Contains(nodes[n].children, source) THEN nodes[n]
                     ELSE WithChild(nodes[n], source)
    BY DEF Reparented
<1>2. source \in DOMAIN nodes \ {Root, target}
    BY DEF Graftable
<1>3. source \in ids /\ source \in AnyId
    BY <1>2, NodesKnown
<1>4. ASSUME NEW n \in old \cup {target}
      PROVE  VersionOK(seen, ids, n, new[n])
    <2>1. VersionOK(seen, ids, n, nodes[n]) /\ nodes[n] \in Node
        BY NodesKnown
    <2>2. CASE n \in old
        BY <1>1, <2>1, <2>2, WithoutVersion
    <2>3. CASE n \notin old /\ Contains(nodes[n].children, source)
        BY <1>1, <2>1, <2>3
    <2>4. CASE n \notin old /\ ~Contains(nodes[n].children, source)
        <3>1. source \notin ToSet(nodes[n].children)
            <4>1. nodes[n].children \in Seq(AnyId)
                BY <2>1, NodeFields
            <4> QED BY <2>4, <4>1, LenProperties DEF Contains, ToSet
        <3>2. VersionOK(seen, ids, n, WithChild(nodes[n], source))
            BY <1>3, <2>1, <3>1, WithVersion
        <3> QED BY <1>1, <2>4, <3>2
    <2> QED BY <2>2, <2>3, <2>4
<1> HIDE DEF new
<1>5. /\ DOMAIN new \subseteq DOMAIN nodes
      /\ \A n \in DOMAIN new : VersionOK(seen, ids, n, new[n])
    BY <1>1, <1>4
<1> QED BY <1>5 DEF new

LEMMA MovedOK ==
    ASSUME NEW seen, NEW ids, Consistent(seen, ids), NodesOK(seen, ids, nodes),
           NEW source, NEW target \in DOMAIN nodes, Graftable(source, target)
    PROVE  /\ DOMAIN Moved(source, target) \subseteq DOMAIN nodes
           /\ \E seen2 : /\ seen \subseteq seen2 /\ Consistent(seen2, ids)
                         /\ \A n \in DOMAIN Moved(source, target) :
                               VersionOK(seen2, ids, n, Moved(source, target)[n])
<1> DEFINE isAnswer(n) == /\ nodes[n].kind = "branch" /\ ~nodes[n].task
                          /\ nodes[n].context # "stale"
           after(n) == [nodes[n] EXCEPT
                           !.context = IF isAnswer(n) THEN "stale" ELSE @,
                           !.parent  = IF n = source THEN target ELSE @]
           D == {m \in Subtree(nodes, source) \cap DOMAIN nodes : m = source \/ isAnswer(m)}
           new == Moved(source, target)
           look == [n \in D |-> LookOf(new[n])]
           seen2 == seen \cup {<<n, look[n]>> : n \in D}
<1>1. DOMAIN new = D /\ \A n \in D : new[n] = after(n)
    BY DEF Moved
<1>2. target \in AnyId /\ source # Root
    BY NodesKnown DEF Graftable
<1>3. ASSUME NEW n \in D
      PROVE  /\ new[n] \in Node /\ new[n].children = nodes[n].children
             /\ VersionOK(seen, ids, n, nodes[n])
             /\ Turned(LookOf(nodes[n]), LookOf(new[n]))
    <2>1. /\ nodes[n] \in Node /\ VersionOK(seen, ids, n, nodes[n])
          /\ Proper(n, LookOf(nodes[n]))
        BY NodesKnown
    <2>2. new[n] = [nodes[n] EXCEPT !.context = IF isAnswer(n) THEN "stale" ELSE nodes[n].context,
                                    !.parent = IF n = source THEN target ELSE nodes[n].parent]
        BY <1>1, <2>1 DEF Node
    <2> DEFINE v == nodes[n]
    <2>3. /\ new[n] \in Node /\ new[n].children = v.children
          /\ new[n].kind = v.kind /\ new[n].task = v.task /\ new[n].included = v.included
          /\ new[n].context = IF isAnswer(n) THEN "stale" ELSE v.context
          /\ new[n].parent = IF n = source THEN target ELSE v.parent
        BY <1>2, <2>1, <2>2 DEF Node
    <2>4. CASE isAnswer(n)
        <3>1. new[n].context = "stale" /\ new[n].parent \in {v.parent} \cup AnyId
            BY <1>2, <2>3, <2>4
        <3> HIDE DEF new
        <3> QED BY <2>1, <2>3, <2>4, <3>1 DEF Turned, LookOf
    <2>5. CASE ~isAnswer(n)
        <3>1. n = source /\ n # Root /\ new[n].context = v.context /\ new[n].parent \in AnyId
            BY <1>2, <2>3, <2>5
        <3>2. v.kind = "leaf" \/ v.task \/ v.context = "stale"
            BY <2>1, <2>5, <3>1 DEF Proper, LookOf, Node
        <3> HIDE DEF new
        <3> QED BY <2>1, <2>3, <3>1, <3>2 DEF Turned, LookOf
    <2> QED BY <2>1, <2>3, <2>4, <2>5
<1> HIDE DEF new
<1>4. look \in [D -> Look]
    BY <1>3, LookTyped
<1>5. \A n \in D : \E l : <<n, l>> \in seen /\ Turned(l, look[n])
    BY <1>3 DEF VersionOK
<1> HIDE DEF D
<1>6. seen \subseteq seen2 /\ \A n \in D : <<n, LookOf(new[n])>> \in seen2
    OBVIOUS
<1> HIDE DEF look
<1>7. Consistent(seen2, ids)
    BY <1>4, <1>5, SeenTurned
<1> HIDE DEF seen2
<1>8. ASSUME NEW n \in D
      PROVE  VersionOK(seen2, ids, n, new[n])
    BY <1>3, <1>6 DEF VersionOK
<1>9. DOMAIN new \subseteq DOMAIN nodes
    BY <1>1 DEF D
<1> QED BY <1>1, <1>6, <1>7, <1>8, <1>9 DEF new

LEMMA GraftConfirmOK ==
    ASSUME TreeInv, NEW target \in AnyId, GraftConfirm(target)
    PROVE  TreeInv'
<1> DEFINE ids == DOMAIN origin
           source == graftSource
           parents == Reparented(source, target)
           moved == Moved(source, target)
           e == Entry(source, DOMAIN parents \cup DOMAIN moved,
                      <<Changes(parents), Changes(moved)>>)
<1>1. PICK seen : /\ Consistent(seen, ids) /\ NodesOK(seen, ids, nodes)
                  /\ HistoryOK(seen, ids, past) /\ HistoryOK(seen, ids, future)
    BY DEF StoryOK, TreeInv
<1>2. /\ target \in DOMAIN nodes /\ graftSource' = None
      /\ UNCHANGED <<focus, open, structuring, retryable, origin, session, orderly>>
    BY DEF GraftConfirm
<1>3. CASE ~Graftable(source, target)
    <2>1. UNCHANGED <<nodes, past, future>>
        BY <1>3 DEF GraftConfirm
    <2>2. VarsOK'
        BY <1>2, <2>1 DEF TreeInv, VarsOK
    <2> QED BY <1>2, <2>1, <2>2 DEF TreeInv
<1>4. CASE Graftable(source, target)
    <2>1. nodes' = Override(Override(nodes, parents), moved) /\ PushHistory(e)
        BY <1>4 DEF GraftConfirm
    <2>2. /\ DOMAIN parents \subseteq DOMAIN nodes
          /\ \A n \in DOMAIN parents : VersionOK(seen, ids, n, parents[n])
        BY <1>1, <1>2, <1>4, ReparentedOK
    <2>3. /\ DOMAIN moved \subseteq DOMAIN nodes
          /\ \E seen2 : /\ seen \subseteq seen2 /\ Consistent(seen2, ids)
                        /\ \A n \in DOMAIN moved : VersionOK(seen2, ids, n, moved[n])
        BY <1>1, <1>2, <1>4, MovedOK
    <2>4. PICK seen2 : /\ seen \subseteq seen2 /\ Consistent(seen2, ids)
                       /\ \A n \in DOMAIN moved : VersionOK(seen2, ids, n, moved[n])
        BY <2>3
    <2>5. DOMAIN nodes \subseteq AnyId /\ source \in AnyId
        BY <1>1, <1>4, NodesKnown DEF Graftable
    <2> HIDE DEF parents, moved, ids, source
    <2>6. \A n \in DOMAIN parents : VersionOK(seen2, ids, n, parents[n])
        BY <2>2, <2>4, VersionGrows
    <2>7. NodesOK(seen2, ids, nodes)
        BY <1>1, <2>4, NodesGrow
    <2>8. NodesOK(seen2, ids, Override(nodes, parents))
        BY <2>2, <2>5, <2>6, <2>7, OverrideOK
    <2>9. NodesOK(seen2, ids, nodes')
        <3>1. NodesOK(seen2, ids, Override(Override(nodes, parents), moved))
            BY <2>3, <2>4, <2>5, <2>8, OverrideOK
        <3> QED BY <2>1, <3>1
    <2>10. GroupOK(seen2, ids, Changes(parents)) /\ GroupOK(seen2, ids, Changes(moved))
        BY <2>2, <2>3, <2>4, <2>6, <2>7, ChangesOK
    <2>11. EntryOK(seen2, ids, e)
        <3>1. DOMAIN parents \cup DOMAIN moved \in SUBSET AnyId
            BY <2>2, <2>3, <2>5
        <3> QED BY <2>5, <2>10, <3>1, EntryOfTwo
    <2> HIDE DEF e
    <2>12. /\ HistoryOK(seen2, ids, past') /\ HistoryOK(seen2, ids, future')
           /\ Len(past') <= session.entries
        BY <1>1, <2>1, <2>4, <2>11, PushOK DEF TreeInv
    <2>13. StoryOK(nodes', past', future', ids)
        BY <2>4, <2>9, <2>12, Story
    <2>14. VarsOK'
        BY <1>2, <2>12 DEF VarsOK, TreeInv
    <2> QED BY <1>2, <2>13, <2>14 DEF TreeInv, ids
<1> QED BY <1>3, <1>4

LEMMA RootOutside ==
    ASSUME NEW seen, NEW ids \in SUBSET NodeId, NEW ns, NodesOK(seen, ids, ns),
           NEW n \in NodeId
    PROVE  Root \notin Subtree(ns, n)
<1>1. \A x \in NodeId : ChildrenOf(ns, x) \subseteq NodeId
    BY DEF ChildrenOf, NodesOK, VersionOK
<1>2. NodeId \in SUBSET AnyId /\ Root \notin NodeId
    BY EditsAssumption DEF AnyId
<1> QED BY <1>1, <1>2 DEF Subtree

LEMMA PruneOK ==
    ASSUME TreeInv, NEW n \in NodeId, Prune(n)
    PROVE  TreeInv'
<1> DEFINE ids == DOMAIN origin
           subtree == Subtree(nodes, n)
           deleted == subtree \cap DOMAIN nodes
           parent == {nodes[n].parent} \cap DOMAIN nodes
           first == [m \in parent |-> Change(nodes[m], WithoutChild(nodes[m], n))]
           second == [m \in deleted |-> Change(nodes[m], None)]
           e == Entry(nodes[n].parent, parent \cup deleted, <<first, second>>)
<1>1. PICK seen : /\ Consistent(seen, ids) /\ NodesOK(seen, ids, nodes)
                  /\ HistoryOK(seen, ids, past) /\ HistoryOK(seen, ids, future)
    BY DEF StoryOK, TreeInv
<1>2. /\ n \in DOMAIN nodes \ {Root}
      /\ nodes' = [m \in DOMAIN nodes \ deleted |->
                      IF m \in parent THEN WithoutChild(nodes[m], n) ELSE nodes[m]]
      /\ PushHistory(e)
      /\ graftSource' \in {graftSource, None}
      /\ focus' \in {focus, None} \cup (Drawn(nodes) \cap deleted)
      /\ UNCHANGED <<open, structuring, retryable, origin, session, orderly>>
    BY DEF Prune
<1>3. /\ DOMAIN nodes \subseteq AnyId /\ Root \in DOMAIN nodes
      /\ \A m \in DOMAIN nodes : VersionOK(seen, ids, m, nodes[m])
    BY <1>1, NodesKnown
<1>4. nodes[n].parent \in AnyId
    BY <1>1, <1>2, ParentKnown
<1>5. Root \notin deleted
    <2>1. ids \in SUBSET NodeId
        BY DEF TreeInv, VarsOK
    <2> HIDE DEF ids
    <2> QED BY <1>1, <2>1, RootOutside
<1>6. deleted \subseteq DOMAIN nodes /\ parent \subseteq DOMAIN nodes
    OBVIOUS
<1> HIDE DEF ids, deleted, parent
<1>7. NodesOK(seen, ids, nodes')
    <2>1. /\ DOMAIN nodes' = DOMAIN nodes \ deleted
          /\ nodes' = [m \in DOMAIN nodes' |-> nodes'[m]]
        BY <1>2
    <2>2. \A m \in DOMAIN nodes' : VersionOK(seen, ids, m, nodes'[m])
        BY <1>2, <1>3, <2>1, WithoutVersion
    <2> QED BY <1>3, <1>5, <2>1, <2>2, NodesFrom
<1>8. GroupOK(seen, ids, first)
    <2>1. first = [m \in DOMAIN first |-> first[m]] /\ DOMAIN first \subseteq AnyId
        BY <1>3, <1>6
    <2>2. \A m \in DOMAIN first : \E b, a : /\ first[m] = Change(b, a)
                                            /\ SnapshotOK(seen, ids, m, b)
                                            /\ SnapshotOK(seen, ids, m, a)
        BY <1>3, <1>6, WithoutVersion DEF SnapshotOK
    <2> HIDE DEF first
    <2> QED BY <2>1, <2>2, GroupFrom
<1>9. GroupOK(seen, ids, second)
    <2>1. second = [m \in DOMAIN second |-> second[m]] /\ DOMAIN second \subseteq AnyId
        BY <1>3, <1>6
    <2>2. \A m \in DOMAIN second : \E b, a : /\ second[m] = Change(b, a)
                                             /\ SnapshotOK(seen, ids, m, b)
                                             /\ SnapshotOK(seen, ids, m, a)
        BY <1>3, <1>5, <1>6 DEF SnapshotOK
    <2> HIDE DEF second
    <2> QED BY <2>1, <2>2, GroupFrom
<1> HIDE DEF first, second
<1>10. EntryOK(seen, ids, e)
    <2>1. parent \cup deleted \in SUBSET AnyId
        BY <1>3, <1>6
    <2> QED BY <1>4, <1>8, <1>9, <2>1, EntryOfTwo
<1> HIDE DEF e
<1>11. /\ HistoryOK(seen, ids, past') /\ HistoryOK(seen, ids, future')
       /\ Len(past') <= session.entries
    BY <1>1, <1>2, <1>10, PushOK DEF TreeInv
<1>12. StoryOK(nodes', past', future', ids)
    BY <1>1, <1>7, <1>11, Story
<1>13. VarsOK'
    <2>1. focus' \in AnyId \cup {None} /\ graftSource' \in AnyId \cup {None}
        BY <1>2, <1>3, <1>6 DEF VarsOK, TreeInv
    <2> QED BY <1>2, <1>11, <2>1 DEF VarsOK, TreeInv
<1> QED BY <1>2, <1>12, <1>13 DEF TreeInv, ids

LEMMA ApplyAuxoPlanOK ==
    ASSUME TreeInv, NEW a \in NodeId, NEW b \in NodeId, NEW above \in {Root, a},
           ApplyAuxoPlan(a, b, above)
    PROVE  TreeInv'
<1> DEFINE drawn == DOMAIN origin
           ids == IF a = b THEN <<a>> ELSE <<a, b>>
           up(n) == IF n = a THEN Root ELSE above
           under(n) == Without(ids, {c \in ToSet(ids) : up(c) # n})
           task(n) == [NewNode("branch", up(n), "complete") EXCEPT
                          !.children = under(n), !.context = "valid", !.task = TRUE]
           batch == [n \in ToSet(ids) |-> task(n)]
           root == [nodes[Root] EXCEPT !.children = under(Root)]
           group == [n \in {Root, a, b} |-> IF n = Root THEN Change(nodes[Root], root)
                                            ELSE Change(None, batch[n])]
           one == Entry(Root, {Root, a, b}, <<group>>)
           e == [one EXCEPT !.nodeUndoable = FALSE]
           all == drawn \cup {a, b}
<1>1. PICK seen : /\ Consistent(seen, drawn) /\ NodesOK(seen, drawn, nodes)
                  /\ HistoryOK(seen, drawn, past) /\ HistoryOK(seen, drawn, future)
    BY DEF StoryOK, TreeInv
<1>2. /\ {a, b} \subseteq Fresh
      /\ nodes' = Override(Override(nodes, batch), [n \in {Root} |-> root])
      /\ PushHistory(e)
      /\ origin' = Override(origin, [n \in {a, b} |-> {}])
      /\ UNCHANGED <<graftSource, focus, open, structuring, retryable, session, orderly>>
    BY DEF ApplyAuxoPlan
<1>3. {a, b} \subseteq NodeId \ drawn
    BY <1>2 DEF Fresh
<1>4. a \in AnyId /\ b \in AnyId /\ Root \in AnyId /\ a # Root /\ b # Root
    BY EditsAssumption DEF AnyId
<1>5. ids \in Seq(AnyId) /\ ToSet(ids) = {a, b} /\ IsInjective(ids)
    <2>1. CASE a = b
        <3>1. ids = <<a>> /\ DOMAIN <<a>> = {1} /\ <<a>>[1] = a
            BY <2>1
        <3> QED BY <1>4, <2>1, <3>1 DEF ToSet, IsInjective
    <2>2. CASE a # b
        <3>1. ids = <<a, b>> /\ DOMAIN <<a, b>> = {1, 2} /\ <<a, b>>[1] = a /\ <<a, b>>[2] = b
            BY <2>2
        <3> QED BY <1>4, <2>2, <3>1 DEF ToSet, IsInjective
    <2> QED BY <2>1, <2>2
<1>6. DOMAIN origin' = all
    <2> DEFINE new == [n \in {a, b} |-> {}]
    <2>1. DOMAIN new = {a, b} /\ origin' = Override(origin, new)
        BY <1>2
    <2> HIDE DEF new
    <2> QED BY <2>1, OverrideIs
<1> HIDE DEF ids, drawn
<1>7. ASSUME NEW n
      PROVE  /\ under(n) \in Seq(AnyId) /\ ToSet(under(n)) \subseteq {a, b}
             /\ IsInjective(under(n))
    BY <1>5, WithoutElements
<1>8. ASSUME NEW n \in {a, b}
      PROVE  /\ task(n) \in Node /\ task(n).children = under(n)
             /\ LookOf(task(n)) \in Look /\ Proper(n, LookOf(task(n)))
    <2>1. up(n) \in AnyId
        BY <1>4
    <2> HIDE DEF up
    <2>2. NewNode("branch", up(n), "complete") \in Node
        <3>1. <<>> \in Seq(AnyId)
            OBVIOUS
        <3> QED BY <2>1, <3>1 DEF NewNode, Node, Status
    <2>3. under(n) \in Seq(AnyId)
        BY <1>7
    <2> HIDE DEF under
    <2>4. /\ task(n) \in Node /\ task(n).children = under(n) /\ task(n).kind = "branch"
          /\ task(n).parent = up(n) /\ task(n).context = "valid" /\ task(n).task = TRUE
        BY <2>2, <2>3 DEF Node, NewNode
    <2> HIDE DEF task
    <2>5. up(n) # None
        BY <2>1, EditsAssumption DEF AnyId
    <2> QED BY <2>4, <2>5, LookTyped DEF Proper, LookOf
<1> HIDE DEF under, task
<1> DEFINE look == [n \in {a, b} |-> LookOf(task(n))]
           seen2 == seen \cup {<<n, look[n]>> : n \in {a, b}}
<1>9. Consistent(seen2, all)
    <2>1. look \in [{a, b} -> Look] /\ \A n \in {a, b} : Proper(n, look[n])
        BY <1>8
    <2> HIDE DEF look
    <2> QED BY <1>1, <1>3, <2>1, SeenNew
<1>10. seen \subseteq seen2 /\ drawn \subseteq all
    OBVIOUS
<1>11. ASSUME NEW n \in {a, b}
       PROVE  VersionOK(seen2, all, n, task(n))
    <2>1. <<n, LookOf(task(n))>> \in seen2
        <3>1. <<n, look[n]>> \in seen2 /\ look[n] = LookOf(task(n))
            OBVIOUS
        <3> QED BY <3>1
    <2> HIDE DEF seen2
    <2> QED BY <1>7, <1>8, <2>1 DEF VersionOK
<1> HIDE DEF seen2, look
<1>12. VersionOK(seen2, all, Root, nodes[Root]) /\ VersionOK(seen2, all, Root, root)
    <2>1. VersionOK(seen, drawn, Root, nodes[Root]) /\ nodes[Root] \in Node
        BY <1>1, NodesKnown
    <2>2. VersionOK(seen2, all, Root, nodes[Root])
        BY <1>10, <2>1, VersionGrows
    <2>3. /\ root \in Node /\ LookOf(root) = LookOf(nodes[Root])
          /\ root.children = under(Root)
        BY <1>7, <2>1 DEF Node, LookOf
    <2>4. IsInjective(under(Root)) /\ ToSet(under(Root)) \subseteq all
        BY <1>7
    <2> HIDE DEF root, all
    <2> QED BY <2>2, <2>3, <2>4, EditedVersion
<1> HIDE DEF root, all
<1>13. NodesOK(seen2, all, nodes')
    <2> DEFINE top == [n \in {Root} |-> root]
    <2>1. NodesOK(seen2, all, nodes)
        BY <1>1, <1>10, NodesGrow
    <2>2. /\ DOMAIN batch \subseteq AnyId
          /\ \A n \in DOMAIN batch : VersionOK(seen2, all, n, batch[n])
        BY <1>4, <1>5, <1>11
    <2>3. DOMAIN top \subseteq AnyId /\ \A n \in DOMAIN top : VersionOK(seen2, all, n, top[n])
        BY <1>4, <1>12
    <2>4. nodes' = Override(Override(nodes, batch), top)
        BY <1>2
    <2> HIDE DEF batch, top
    <2>5. NodesOK(seen2, all, Override(nodes, batch))
        BY <2>1, <2>2, OverrideOK
    <2>6. NodesOK(seen2, all, Override(Override(nodes, batch), top))
        BY <2>3, <2>5, OverrideOK
    <2> QED BY <2>4, <2>6
<1>14. GroupOK(seen2, all, group)
    <2>1. group = [n \in DOMAIN group |-> group[n]] /\ DOMAIN group \subseteq AnyId
        BY <1>4
    <2>2. ASSUME NEW n \in DOMAIN group
          PROVE  \E x, y : /\ group[n] = Change(x, y)
                           /\ SnapshotOK(seen2, all, n, x) /\ SnapshotOK(seen2, all, n, y)
        <3>1. CASE n = Root
            BY <1>12, <3>1 DEF SnapshotOK
        <3>2. CASE n # Root
            <4>1. n \in {a, b} /\ group[n] = Change(None, task(n))
                BY <1>5, <3>2
            <4> QED BY <1>11, <3>2, <4>1 DEF SnapshotOK
        <3> QED BY <3>1, <3>2
    <2> HIDE DEF group
    <2> QED BY <2>1, <2>2, GroupFrom
<1> HIDE DEF group
<1>15. EntryOK(seen2, all, e)
    <2>1. EntryOK(seen2, all, one)
        <3>1. {Root, a, b} \in SUBSET AnyId
            BY <1>4
        <3> QED BY <1>4, <1>14, <3>1, EntryOfOne
    <2>2. one \in EntryType
        BY <2>1 DEF EntryOK
    <2> HIDE DEF one
    <2>3. e \in EntryType /\ e.patch = one.patch
        BY <2>2 DEF EntryType
    <2> HIDE DEF e
    <2> QED BY <2>1, <2>3 DEF EntryOK
<1> HIDE DEF e, batch
<1>16. /\ HistoryOK(seen2, all, past') /\ HistoryOK(seen2, all, future')
       /\ Len(past') <= session.entries
    BY <1>1, <1>2, <1>10, <1>15, PushOK DEF TreeInv
<1>17. StoryOK(nodes', past', future', all)
    BY <1>9, <1>13, <1>16, Story
<1>18. VarsOK'
    BY <1>2, <1>6, <1>16 DEF VarsOK, TreeInv, all, drawn
<1> QED BY <1>6, <1>17, <1>18 DEF TreeInv

LEMMA TreeStep == ASSUME TreeInv, [Next]_vars PROVE TreeInv'
<1>1. CASE UNCHANGED vars
    BY <1>1 DEF vars, TreeInv, VarsOK
<1>2. ASSUME NEW n \in NodeId, NEW at \in AnyId, StartBranch(n, at) \/ Leaf(n, at)
      PROVE  TreeInv'
    BY <1>2, StartBranchOK, LeafOK
<1>3. ASSUME NEW n \in NodeId, \/ UpdateBranch(n) \/ RetryAnswer(n)
                               \/ RetrySemantics(n) \/ ToggleLeafContext(n)
                               \/ Prune(n) \/ LayerMove(n)
      PROVE  TreeInv'
    BY <1>3, UpdateBranchOK, RetryAnswerOK, RetrySemanticsOK, ToggleLeafContextOK, PruneOK,
       LayerMoveOK
<1>4. ASSUME NEW r \in open, NEW status \in Status \ {"streaming"}, SettleBranch(r, status)
      PROVE  TreeInv'
    BY <1>4, SettleBranchOK
<1>5. ASSUME NEW r \in structuring, SetNodeSemantics(r)
      PROVE  TreeInv'
    BY <1>5, SetNodeSemanticsOK
<1>6. ASSUME NEW a \in NodeId, NEW b \in NodeId, NEW above \in {Root, a},
             ApplyAuxoPlan(a, b, above)
      PROVE  TreeInv'
    BY <1>6, ApplyAuxoPlanOK
<1>7. ASSUME NEW n \in AnyId, GraftConfirm(n)
      PROVE  TreeInv'
    BY <1>7, GraftConfirmOK
<1> QED BY <1>1, <1>2, <1>3, <1>4, <1>5, <1>6, <1>7, IdleOK, ReloadOK, RingsOK DEF Next

LEMMA TreeAlways == TreeSpec => []TreeInv
BY InitOK, TreeStep, PTL DEF TreeSpec

-----------------------------------------------------------------------------
(* What the invariant says.                                                 *)

LEMMA SnapshotSeen ==
    ASSUME NEW seen, NEW ids, HistoryOK(seen, ids, past), HistoryOK(seen, ids, future),
           NEW n, NEW s \in Snapshots(n)
    PROVE  VersionOK(seen, ids, n, s)
<1>1. PICK e \in ToSet(past) \cup ToSet(future) : \E g \in Records(e, n) :
          s = e.patch[g][n].before \/ s = e.patch[g][n].after
    BY DEF Snapshots
<1>2. PICK g \in Records(e, n) : s = e.patch[g][n].before \/ s = e.patch[g][n].after
    BY <1>1
<1>3. EntryOK(seen, ids, e)
    <2>1. past \in Seq(EntryType) /\ future \in Seq(EntryType)
        BY DEF HistoryOK
    <2> QED BY <1>1, <2>1, LenProperties DEF HistoryOK, ToSet
<1>4. g \in 1..Len(e.patch) /\ n \in DOMAIN e.patch[g]
    BY DEF Records
<1>5. GroupOK(seen, ids, e.patch[g])
    BY <1>3, <1>4 DEF EntryOK
<1>6. SnapshotOK(seen, ids, n, s)
    BY <1>2, <1>4, <1>5 DEF GroupOK
<1>7. s # None
    BY DEF Snapshots
<1> QED BY <1>6, <1>7 DEF SnapshotOK

LEMMA InvTypes == ASSUME TreeInv PROVE TreeTypeOK
<1>1. PICK seen : /\ Consistent(seen, DOMAIN origin) /\ NodesOK(seen, DOMAIN origin, nodes)
                  /\ HistoryOK(seen, DOMAIN origin, past)
                  /\ HistoryOK(seen, DOMAIN origin, future)
    BY DEF TreeInv, StoryOK
<1>2. DOMAIN nodes \subseteq AnyId /\ \A n \in DOMAIN nodes : nodes[n] \in Node
    BY <1>1, NodesKnown
<1>3. \A n \in AnyId : Snapshots(n) \subseteq Node
    BY <1>1, SnapshotSeen DEF VersionOK
<1> QED BY <1>2, <1>3 DEF TreeInv, VarsOK, TreeTypeOK

LEMMA InvSnapshots == ASSUME TreeInv PROVE SnapshotsFollow
<1>1. PICK seen : /\ Consistent(seen, DOMAIN origin) /\ NodesOK(seen, DOMAIN origin, nodes)
                  /\ HistoryOK(seen, DOMAIN origin, past)
                  /\ HistoryOK(seen, DOMAIN origin, future)
    BY DEF TreeInv, StoryOK
<1> SUFFICES ASSUME NEW n \in DOMAIN nodes, NEW s \in Snapshots(n)
             PROVE  /\ s.kind = "leaf" => s.included = nodes[n].included
                    /\ s.parent = nodes[n].parent /\ nodes[n].context = "valid"
                          => s.context # "missing"
    BY DEF SnapshotsFollow
<1>2. VersionOK(seen, DOMAIN origin, n, s) /\ VersionOK(seen, DOMAIN origin, n, nodes[n])
    BY <1>1, SnapshotSeen, NodesKnown
<1> DEFINE l == LookOf(nodes[n])
           m == LookOf(s)
<1>3. Agree(l, m) /\ Agree(m, l) /\ Proper(n, m)
    BY <1>1, <1>2 DEF VersionOK, Consistent
<1>4. /\ m.kind = s.kind /\ m.included = s.included /\ m.parent = s.parent
      /\ m.context = s.context /\ m.task = s.task
      /\ l.kind = nodes[n].kind /\ l.included = nodes[n].included
      /\ l.parent = nodes[n].parent /\ l.context = nodes[n].context
      /\ l.task = nodes[n].task
    BY DEF LookOf
<1>5. s.task \in BOOLEAN /\ nodes[n].task \in BOOLEAN
    BY <1>2, NodeFields DEF VersionOK
<1> HIDE DEF l, m
<1> QED BY <1>3, <1>4, <1>5 DEF Agree, Proper

\* Whatever the reducer is told, every variable keeps its type, the snapshots in
\* the history included (treeReducer, applyPatch and rewriteHistorySnapshots).
THEOREM TreeTyped == TreeSpec => []TreeTypeOK
BY TreeAlways, InvTypes, PTL

\* The part of WellFormedTree that holds out of order, too: the root stays, and
\* no node lists a child twice, however often mergeTargetChildren puts edges back.
THEOREM ChildrenOnce ==
    TreeSpec => [](Root \in DOMAIN nodes /\ \A n \in DOMAIN nodes : IsInjective(nodes[n].children))
<1>1. TreeInv => Root \in DOMAIN nodes /\ \A n \in DOMAIN nodes : IsInjective(nodes[n].children)
    BY DEF TreeInv, StoryOK, NodesOK, VersionOK
<1> QED BY <1>1, TreeAlways, PTL

\* Snapshots follow what is edited without an entry (rewriteHistorySnapshots):
\* an undo or redo never brings back a choice of notes or a missing card.
THEOREM SnapshotsAreKept == TreeSpec => []SnapshotsFollow
BY TreeAlways, InvSnapshots, PTL

-----------------------------------------------------------------------------
(* The edges an entry does not speak of.                                    *)

\* Apart from the children in U the lists are the same.
SameBut(U, s, u) == Without(s, U) = Without(u, U)

LEMMA EdgesOfChange ==
    ASSUME NEW e, NEW n, NEW g \in Records(e, n)
    PROVE  LET c == e.patch[g][n] IN
           /\ c.before = None \/ c.after = None => AnyId \subseteq EdgesOf(e, n)
           /\ c.before # None /\ c.after # None =>
                /\ EdgeDelta(c.before.children, c.after.children) \subseteq EdgesOf(e, n)
                /\ EdgeDelta(c.after.children, c.before.children) \subseteq EdgesOf(e, n)
<1> DEFINE c == e.patch[g][n]
           delta(h) == LET d == e.patch[h][n] IN
                       IF d.before = None \/ d.after = None THEN AnyId
                       ELSE (ToSet(d.before.children) \cup ToSet(d.after.children))
                              \ (ToSet(d.before.children) \cap ToSet(d.after.children))
<1>1. EdgesOf(e, n) = UNION {delta(h) : h \in Records(e, n)}
    BY DEF EdgesOf
<1>2. delta(g) \subseteq EdgesOf(e, n)
    <2> HIDE DEF delta
    <2> QED BY <1>1
<1>3. c.before = None \/ c.after = None => delta(g) = AnyId
    OBVIOUS
<1>4. c.before # None /\ c.after # None =>
        /\ EdgeDelta(c.before.children, c.after.children) = delta(g)
        /\ EdgeDelta(c.after.children, c.before.children) = delta(g)
    BY DEF EdgeDelta
<1> HIDE DEF delta
<1> QED BY <1>2, <1>3, <1>4

\* What the patch of an entry has left of the children of the node n.
EdgesSoFar(ns, now, e, n) ==
    \/ AnyId \subseteq EdgesOf(e, n)
    \/ n \in DOMAIN now /\ SameBut(EdgesOf(e, n), now[n].children, ns[n].children)

LEMMA GroupKeepsEdges ==
    ASSUME NEW ns \in NodeMap, NEW now \in NodeMap, NEW n \in DOMAIN ns, NEW e,
           NEW g \in 1..Len(e.patch), e.patch[g] \in Group, NEW d \in Direction,
           EdgesSoFar(ns, now, e, n)
    PROVE  EdgesSoFar(ns, ApplyGroup(now, e.patch[g], d), e, n)
<1> DEFINE group == e.patch[g]
           result == ApplyGroup(now, group, d)
<1> SUFFICES ASSUME ~(AnyId \subseteq EdgesOf(e, n))
             PROVE  /\ n \in DOMAIN result
                    /\ SameBut(EdgesOf(e, n), result[n].children, ns[n].children)
    BY DEF EdgesSoFar
<1>1. n \in DOMAIN now /\ SameBut(EdgesOf(e, n), now[n].children, ns[n].children)
    BY DEF EdgesSoFar
<1>2. CASE n \notin DOMAIN group
    <2>1. n \in DOMAIN result
        BY <1>1, <1>2, GroupDomain
    <2>2. result[n] = now[n]
        BY <1>2, <2>1, GroupValue
    <2> HIDE DEF result
    <2> QED BY <1>1, <2>1, <2>2
<1>3. CASE n \in DOMAIN group
    <2> DEFINE c == group[n]
    <2>1. c \in [before: Snapshot, after: Snapshot] /\ g \in Records(e, n)
        BY <1>3 DEF Group, Records
    <2>2. /\ c.before # None /\ c.after # None
          /\ EdgeDelta(c.before.children, c.after.children) \subseteq EdgesOf(e, n)
          /\ EdgeDelta(c.after.children, c.before.children) \subseteq EdgesOf(e, n)
        BY <2>1, EdgesOfChange
    <2> HIDE DEF group
    <2>3. Target(c, d) # None /\ Source(c, d) # None
        BY <2>2 DEF Source, Target
    <2>4. EdgeDelta(Source(c, d).children, Target(c, d).children) \subseteq EdgesOf(e, n)
        BY <2>2 DEF Source, Target
    <2>5. n \in DOMAIN result
        BY <1>1, <1>3, <2>3, GroupDomain DEF group
    <2>6. ChangedTo(result[n], now, n, c, d)
        BY <1>3, <2>5, GroupValue DEF group
    <2> HIDE DEF result, c
    <2>7. MergedFrom(result[n].children, AnyId, now[n].children, Source(c, d).children,
                     Target(c, d).children)
        BY <1>1, <2>1, <2>3, <2>6, ChangedNode
    <2>8. SameBut(EdgesOf(e, n), result[n].children, now[n].children)
        BY <2>4, <2>7 DEF MergedFrom, SameBut
    <2> QED BY <1>1, <2>5, <2>8 DEF SameBut
<1> QED BY <1>2, <1>3

LEMMA PatchKeepsEdges ==
    ASSUME NEW ns \in NodeMap, NEW n \in DOMAIN ns, NEW e, e.patch \in Seq(Group),
           NEW d \in Direction, n \in DOMAIN ApplyPatch(ns, e, d)
    PROVE  SameBut(EdgesOf(e, n), ApplyPatch(ns, e, d)[n].children, ns[n].children)
<1> DEFINE m == Len(e.patch)
<1>1. m \in Nat /\ \A g \in 1..m : e.patch[g] \in Group
    BY ElementOfSeq, LenProperties
<1>2. PICK f : /\ f \in [0..m -> NodeMap] /\ Patches(f, ns, e.patch, d)
               /\ ApplyPatch(ns, e, d) = f[m]
    BY PatchSteps
<1> DEFINE T == {k \in Nat : k <= m => EdgesSoFar(ns, f[k], e, n)}
<1>3. 0 \in T
    BY <1>2 DEF Patches, EdgesSoFar, SameBut
<1>4. ASSUME NEW k \in Nat, k \in T
      PROVE  k + 1 \in T
    <2> SUFFICES ASSUME k + 1 <= m
                 PROVE  EdgesSoFar(ns, f[k + 1], e, n)
        OBVIOUS
    <2>1. k + 1 \in 1..m /\ (k + 1) - 1 = k /\ k \in 0..m /\ EdgesSoFar(ns, f[k], e, n)
        BY <1>1, <1>4
    <2>2. f[k + 1] = ApplyGroup(f[k], e.patch[k + 1], d)
        BY <1>2, <2>1 DEF Patches
    <2>3. f[k] \in NodeMap /\ e.patch[k + 1] \in Group
        BY <1>1, <1>2, <2>1
    <2> QED BY <2>1, <2>2, <2>3, GroupKeepsEdges
<1>5. m \in T
    <2> HIDE DEF T
    <2> QED BY <1>1, <1>3, <1>4, SetInduction
<1>6. EdgesSoFar(ns, ApplyPatch(ns, e, d), e, n)
    BY <1>1, <1>2, <1>5
<1>7. CASE AnyId \subseteq EdgesOf(e, n)
    <2>1. ns[n].children \in Seq(AnyId)
        BY NodeFields DEF NodeMap
    <2>2. ApplyPatch(ns, e, d)[n].children \in Seq(AnyId)
        <3>1. ApplyPatch(ns, e, d) \in NodeMap
            BY <1>1, <1>2
        <3> QED BY <3>1, NodeFields DEF NodeMap
    <2> QED BY <1>7, <2>1, <2>2, WithoutAll DEF SameBut
<1> QED BY <1>6, <1>7 DEF EdgesSoFar

\* Lists that differ in children an entry speaks of.
LEMMA WithoutOne ==
    ASSUME NEW s \in Seq(AnyId), NEW c, NEW U,
           EdgeDelta(s, Without(s, {c})) \subseteq U
    PROVE  SameBut(U, Without(s, {c}), s)
<1>1. Without(Without(s, {c}), U) = Without(s, {c} \cup U)
    BY WithoutTwice
<1>2. CASE c \in ToSet(s)
    <2>1. ToSet(Without(s, {c})) = ToSet(s) \ {c}
        BY WithoutElements
    <2>2. {c} \cup U = U
        BY <1>2, <2>1 DEF EdgeDelta
    <2> QED BY <1>1, <2>2 DEF SameBut
<1>3. CASE c \notin ToSet(s)
    <2>1. Without(s, {c}) = s
        BY <1>3, WithoutNothing
    <2> QED BY <2>1 DEF SameBut
<1> QED BY <1>2, <1>3

LEMMA WithOne ==
    ASSUME NEW s \in Seq(AnyId), NEW c \in AnyId, c \notin ToSet(s), NEW U,
           EdgeDelta(s, Append(s, c)) \subseteq U
    PROVE  SameBut(U, Append(s, c), s)
<1>1. c \in ToSet(Append(s, c))
    BY ElementsOfAppend
<1>2. c \in U
    BY <1>1 DEF EdgeDelta
<1> QED BY <1>2, WithoutAppend DEF SameBut

-----------------------------------------------------------------------------
(* An entry that is pushed speaks of every edge it changes.                 *)

\* The entry e records the change of the node n into v.
Recorded(e, n, v) ==
    \E g \in Records(e, n) : e.patch[g][n] = Change(nodes[n], v)

LEMMA EdgesWithin ==
    ASSUME NEW s \in Seq(AnyId), NEW u \in Seq(AnyId), NEW U, EdgeDelta(s, u) \subseteq U,
           \/ u = s
           \/ \E c : u = Without(s, {c})
           \/ \E c \in AnyId \ ToSet(s) : u = Append(s, c)
           \/ s = <<>>
    PROVE  SameBut(U, u, s)
<1>1. CASE u = s
    BY <1>1 DEF SameBut
<1>2. ASSUME NEW c, u = Without(s, {c})
      PROVE  SameBut(U, u, s)
    BY <1>2, WithoutOne
<1>3. ASSUME NEW c \in AnyId \ ToSet(s), u = Append(s, c)
      PROVE  SameBut(U, u, s)
    <2>1. PICK w : w = Append(s, c)
        OBVIOUS
    <2>2. EdgeDelta(s, Append(s, c)) \subseteq U
        BY <1>3
    <2>3. SameBut(U, Append(s, c), s)
        BY <1>3, <2>2, WithOne
    <2> QED BY <1>3, <2>1, <2>3
<1>4. CASE s = <<>>
    <2>1. ToSet(<<>>) = {}
        BY DEF ToSet
    <2>2. ToSet(u) \subseteq U
        BY <1>4, <2>1 DEF EdgeDelta
    <2>4. Without(u, U) = <<>>
        BY <2>2, WithoutAll
    <2>5. Without(s, U) = <<>>
        BY <1>4, WithoutEmpty
    <2> QED BY <2>4, <2>5 DEF SameBut
<1> QED BY <1>1, <1>2, <1>3, <1>4

LEMMA RecordedEdges ==
    ASSUME NEW e, NEW n, NEW v \in Node, nodes[n] \in Node, Recorded(e, n, v),
           NEW s, s = nodes[n].children, NEW u, u = v.children,
           \/ u = s
           \/ \E c : u = Without(s, {c})
           \/ \E c \in AnyId \ ToSet(s) : u = Append(s, c)
           \/ s = <<>>
    PROVE  SameBut(EdgesOf(e, n), u, s)
<1>1. s \in Seq(AnyId) /\ u \in Seq(AnyId)
    BY NodeFields
<1>2. EdgeDelta(s, u) \subseteq EdgesOf(e, n)
    <2>1. PICK g \in Records(e, n) : e.patch[g][n] = Change(nodes[n], v)
        BY DEF Recorded
    <2>2. e.patch[g][n].before = nodes[n] /\ e.patch[g][n].after = v
        BY <2>1 DEF Change
    <2>3. nodes[n] # None /\ v # None
        BY NoneAssumption
    <2>4. EdgeDelta(nodes[n].children, v.children) \subseteq EdgesOf(e, n)
        BY <2>2, <2>3, EdgesOfChange
    <2> QED BY <2>4
<1> QED BY <1>1, <1>2, EdgesWithin

LEMMA KeptWhenRecorded ==
    ASSUME NEW e,
           \A n \in DOMAIN nodes \cap DOMAIN nodes' :
              /\ nodes[n] \in Node /\ nodes'[n] \in Node
              /\ \/ nodes'[n].children = nodes[n].children
                 \/ /\ Recorded(e, n, nodes'[n])
                    /\ \/ \E c : nodes'[n].children = Without(nodes[n].children, {c})
                       \/ \E c \in AnyId \ ToSet(nodes[n].children) :
                             nodes'[n].children = Append(nodes[n].children, c)
                       \/ nodes[n].children = <<>>
    PROVE  OtherEdgesKept(e)
<1> SUFFICES ASSUME NEW n \in DOMAIN nodes \cap DOMAIN nodes'
             PROVE  Without(nodes'[n].children, EdgesOf(e, n))
                       = Without(nodes[n].children, EdgesOf(e, n))
    BY DEF OtherEdgesKept
<1>1. PICK s, u, v : s = nodes[n].children /\ u = nodes'[n].children /\ v = nodes'[n]
    OBVIOUS
<1>2. CASE u = s
    BY <1>1, <1>2
<1>3. CASE u # s
    <2>1. nodes[n] \in Node /\ v \in Node /\ u = v.children
        BY <1>1
    <2>2. /\ Recorded(e, n, v)
          /\ \/ \E c : u = Without(s, {c})
             \/ \E c \in AnyId \ ToSet(s) : u = Append(s, c)
             \/ s = <<>>
        BY <1>1, <1>3
    <2>3. SameBut(EdgesOf(e, n), u, s)
        BY <1>1, <2>1, <2>2, RecordedEdges
    <2> QED BY <1>1, <2>3 DEF SameBut
<1> QED BY <1>2, <1>3

LEMMA StoryNodes ==
    ASSUME NEW ns, NEW before, NEW after, NEW ids, StoryOK(ns, before, after, ids)
    PROVE  /\ ns \in NodeMap /\ DOMAIN ns \subseteq ids \cup {Root}
           /\ DOMAIN ns \subseteq AnyId
           /\ \A n \in DOMAIN ns : ns[n] \in Node /\ ToSet(ns[n].children) \subseteq ids
BY NodesKnown DEF StoryOK, NodesOK, VersionOK

LEMMA TreeNodes ==
    ASSUME TreeInv
    PROVE  /\ nodes \in NodeMap /\ DOMAIN nodes \subseteq DOMAIN origin \cup {Root}
           /\ DOMAIN nodes \subseteq AnyId
           /\ \A n \in DOMAIN nodes : /\ nodes[n] \in Node
                                      /\ ToSet(nodes[n].children) \subseteq DOMAIN origin
BY StoryNodes DEF TreeInv

LEMMA NextNodes ==
    ASSUME TreeInv'
    PROVE  nodes' \in NodeMap /\ \A n \in DOMAIN nodes' : nodes'[n] \in Node
BY StoryNodes DEF TreeInv

LEMMA WithChildIs ==
    ASSUME NEW s \in Node, NEW c
    PROVE  /\ WithChild(s, c).children = Append(s.children, c)
           /\ WithoutChild(s, c).children = Without(s.children, {c})
BY DEF WithChild, WithoutChild, Node

LEMMA LeafEdges ==
    ASSUME TreeInv, TreeInv', NEW n \in NodeId, NEW at \in AnyId, Leaf(n, at)
    PROVE  \E e : PushHistory(e) /\ OtherEdgesKept(e)
<1> DEFINE parent == ResolveBranchParent(nodes, at)
           leaf == NewNode("leaf", parent, "complete")
           after == WithChild(nodes[parent], n)
           e == Entry(n, {parent, n, at}, Creation(n, parent, nodes[parent], after, leaf))
<1>1. /\ n \notin DOMAIN origin /\ parent \in DOMAIN nodes
      /\ nodes' = Override(nodes, [x \in {parent, n} |-> IF x = n THEN leaf ELSE after])
      /\ PushHistory(e)
    BY DEF Leaf, Fresh
<1>2. n \notin DOMAIN nodes /\ n \in AnyId
    BY <1>1, TreeNodes, EditsAssumption DEF AnyId
<1>3. Recorded(e, parent, after)
    <2>1. e.patch = <<[x \in {parent, n} |-> IF x = n THEN Change(None, leaf)
                                             ELSE Change(nodes[parent], after)]>>
        BY DEF Entry, Creation
    <2>2. Len(e.patch) = 1 /\ e.patch[1] = [x \in {parent, n} |-> IF x = n THEN Change(None, leaf)
                                                                 ELSE Change(nodes[parent], after)]
        BY <2>1
    <2> HIDE DEF e, leaf, after
    <2>3. parent # n
        BY <1>1, <1>2
    <2>4. 1 \in Records(e, parent) /\ e.patch[1][parent] = Change(nodes[parent], after)
        BY <2>2, <2>3 DEF Records
    <2> QED BY <2>4 DEF Recorded
<1> HIDE DEF e, leaf, parent
<1>4. ASSUME NEW m \in DOMAIN nodes \cap DOMAIN nodes'
      PROVE  /\ nodes[m] \in Node /\ nodes'[m] \in Node
             /\ \/ nodes'[m].children = nodes[m].children
                \/ /\ Recorded(e, m, nodes'[m])
                   /\ \E c \in AnyId \ ToSet(nodes[m].children) :
                         nodes'[m].children = Append(nodes[m].children, c)
    <2> DEFINE new == [x \in {parent, n} |-> IF x = n THEN leaf ELSE after]
    <2>1. nodes[m] \in Node /\ nodes'[m] \in Node /\ m # n /\ n \notin ToSet(nodes[m].children)
        BY <1>1, <1>2, TreeNodes, NextNodes
    <2>2. DOMAIN new = {parent, n} /\ new[parent] = IF parent = n THEN leaf ELSE after
        OBVIOUS
    <2> HIDE DEF new, after
    <2>3. CASE m = parent
        <3>1. nodes'[m] = after
            <4>1. Override(nodes, new)[m] = new[m] /\ nodes' = Override(nodes, new)
                BY <1>1, <2>2, <2>3, OverrideAt DEF new
            <4> QED BY <2>1, <2>2, <2>3, <4>1
        <3>2. after.children = Append(nodes[m].children, n)
            BY <2>1, <2>3, WithChildIs DEF after
        <3> QED BY <1>2, <1>3, <2>1, <2>3, <3>1, <3>2
    <2>4. CASE m # parent
        <3>1. nodes'[m] = nodes[m]
            <4>1. Override(nodes, new)[m] = nodes[m] /\ nodes' = Override(nodes, new)
                BY <1>1, <2>1, <2>2, <2>4, OverrideAt DEF new
            <4> QED BY <4>1
        <3> QED BY <2>1, <3>1
    <2> QED BY <2>3, <2>4
<1>5. OtherEdgesKept(e)
    BY <1>4, KeptWhenRecorded
<1> QED BY <1>1, <1>5

LEMMA GraftEdges ==
    ASSUME TreeInv, TreeInv', NEW target \in AnyId, GraftConfirm(target),
           Graftable(graftSource, target)
    PROVE  \E e : PushHistory(e) /\ OtherEdgesKept(e)
<1> DEFINE source == graftSource
           parents == Reparented(source, target)
           moved == Moved(source, target)
           e == Entry(source, DOMAIN parents \cup DOMAIN moved,
                      <<Changes(parents), Changes(moved)>>)
<1>1. /\ nodes' = Override(Override(nodes, parents), moved) /\ PushHistory(e)
      /\ target \in DOMAIN nodes /\ source \in DOMAIN nodes
    BY DEF GraftConfirm, Graftable
<1>2. ASSUME NEW m \in DOMAIN moved
      PROVE  m \in DOMAIN nodes /\ moved[m].children = nodes[m].children
    <2>1. m \in DOMAIN nodes
        BY DEF Moved
    <2>2. nodes[m] \in Node
        BY <2>1, TreeNodes
    <2> QED BY <2>1, <2>2 DEF Moved, Node
<1>3. ASSUME NEW m \in DOMAIN parents
      PROVE  /\ m \in DOMAIN nodes
             /\ \/ parents[m].children = nodes[m].children
                \/ \E c : parents[m].children = Without(nodes[m].children, {c})
                \/ \E c \in AnyId \ ToSet(nodes[m].children) :
                      parents[m].children = Append(nodes[m].children, c)
    <2> DEFINE old == {nodes[source].parent} \cap DOMAIN nodes
    <2>1. /\ m \in old \cup {target}
          /\ parents[m] = IF m \in old THEN WithoutChild(nodes[m], source)
                          ELSE IF Contains(nodes[m].children, source) THEN nodes[m]
                          ELSE WithChild(nodes[m], source)
        BY DEF Reparented
    <2>2. m \in DOMAIN nodes
        BY <1>1, <2>1
    <2>3. nodes[m] \in Node /\ source \in AnyId
        BY <1>1, <2>2, TreeNodes
    <2> HIDE DEF old, source, parents
    <2>4. CASE m \in old
        <3>1. parents[m].children = Without(nodes[m].children, {source})
            BY <2>1, <2>3, <2>4, WithChildIs
        <3> QED BY <2>2, <3>1
    <2>5. CASE m \notin old /\ Contains(nodes[m].children, source)
        BY <2>1, <2>2, <2>5
    <2>6. CASE m \notin old /\ ~Contains(nodes[m].children, source)
        <3>1. source \notin ToSet(nodes[m].children)
            <4>1. nodes[m].children \in Seq(AnyId)
                BY <2>3, NodeFields
            <4> QED BY <2>6, <4>1, LenProperties DEF Contains, ToSet
        <3>2. parents[m].children = Append(nodes[m].children, source)
            BY <2>1, <2>3, <2>6, WithChildIs
        <3> QED BY <2>2, <2>3, <3>1, <3>2
    <2> QED BY <2>4, <2>5, <2>6
<1>4. ASSUME NEW m \in DOMAIN parents
      PROVE  Recorded(e, m, parents[m])
    <2>1. e.patch = <<Changes(parents), Changes(moved)>>
        BY DEF Entry
    <2>2. Len(e.patch) = 2 /\ e.patch[1] = Changes(parents)
        BY <2>1
    <2> HIDE DEF e, parents, moved
    <2>3. DOMAIN Changes(parents) = DOMAIN parents
          /\ Changes(parents)[m] = Change(nodes[m], parents[m])
        BY DEF Changes
    <2>4. 1 \in Records(e, m) /\ e.patch[1][m] = Change(nodes[m], parents[m])
        BY <2>2, <2>3 DEF Records
    <2> QED BY <2>4 DEF Recorded
<1> HIDE DEF e, parents, moved, source
<1>5. ASSUME NEW m \in DOMAIN nodes \cap DOMAIN nodes'
      PROVE  /\ nodes[m] \in Node /\ nodes'[m] \in Node
             /\ \/ nodes'[m].children = nodes[m].children
                \/ /\ Recorded(e, m, nodes'[m])
                   /\ \/ \E c : nodes'[m].children = Without(nodes[m].children, {c})
                      \/ \E c \in AnyId \ ToSet(nodes[m].children) :
                            nodes'[m].children = Append(nodes[m].children, c)
    <2>1. nodes[m] \in Node /\ nodes'[m] \in Node
        BY TreeNodes, NextNodes
    <2>2. /\ DOMAIN Override(nodes, parents) = DOMAIN nodes \cup DOMAIN parents
          /\ nodes'[m] = IF m \in DOMAIN moved THEN moved[m]
                         ELSE Override(nodes, parents)[m]
          /\ Override(nodes, parents)[m] = IF m \in DOMAIN parents THEN parents[m]
                                           ELSE nodes[m]
        <3>1. DOMAIN Override(nodes, parents) = DOMAIN nodes \cup DOMAIN parents
            BY OverrideIs
        <3>2. PICK under : under = Override(nodes, parents)
            OBVIOUS
        <3>3. Override(under, moved)[m] = IF m \in DOMAIN moved THEN moved[m] ELSE under[m]
            BY <3>1, <3>2, OverrideAt
        <3>4. under[m] = IF m \in DOMAIN parents THEN parents[m] ELSE nodes[m]
            BY <3>2, OverrideAt
        <3> QED BY <1>1, <3>1, <3>2, <3>3, <3>4
    <2>3. CASE m \in DOMAIN moved
        BY <1>2, <2>1, <2>2, <2>3
    <2>4. CASE m \notin DOMAIN moved /\ m \in DOMAIN parents
        <3>1. nodes'[m] = parents[m]
            BY <2>2, <2>4
        <3> QED BY <1>3, <1>4, <2>1, <2>4, <3>1
    <2>5. CASE m \notin DOMAIN moved /\ m \notin DOMAIN parents
        BY <2>1, <2>2, <2>5
    <2> QED BY <2>3, <2>4, <2>5
<1>6. OtherEdgesKept(e)
    BY <1>5, KeptWhenRecorded
<1> QED BY <1>1, <1>6

LEMMA PruneEdges ==
    ASSUME TreeInv, TreeInv', NEW n \in NodeId, Prune(n)
    PROVE  \E e : PushHistory(e) /\ OtherEdgesKept(e)
<1> DEFINE deleted == Subtree(nodes, n) \cap DOMAIN nodes
           parent == {nodes[n].parent} \cap DOMAIN nodes
           first == [m \in parent |-> Change(nodes[m], WithoutChild(nodes[m], n))]
           second == [m \in deleted |-> Change(nodes[m], None)]
           e == Entry(nodes[n].parent, parent \cup deleted, <<first, second>>)
<1>1. /\ nodes' = [m \in DOMAIN nodes \ deleted |->
                      IF m \in parent THEN WithoutChild(nodes[m], n) ELSE nodes[m]]
      /\ PushHistory(e)
    BY DEF Prune
<1>2. ASSUME NEW m \in parent
      PROVE  Recorded(e, m, WithoutChild(nodes[m], n))
    <2>1. e.patch = <<first, second>>
        BY DEF Entry
    <2>2. Len(e.patch) = 2 /\ e.patch[1] = first
        BY <2>1
    <2>3. DOMAIN first = parent /\ first[m] = Change(nodes[m], WithoutChild(nodes[m], n))
        OBVIOUS
    <2> HIDE DEF e, first, second
    <2>4. 1 \in Records(e, m) /\ e.patch[1][m] = Change(nodes[m], WithoutChild(nodes[m], n))
        BY <2>2, <2>3 DEF Records
    <2> QED BY <2>4 DEF Recorded
<1> HIDE DEF e, first, second, parent, deleted
<1>3. ASSUME NEW m \in DOMAIN nodes \cap DOMAIN nodes'
      PROVE  /\ nodes[m] \in Node /\ nodes'[m] \in Node
             /\ \/ nodes'[m].children = nodes[m].children
                \/ /\ Recorded(e, m, nodes'[m])
                   /\ \E c : nodes'[m].children = Without(nodes[m].children, {c})
    <2>1. nodes[m] \in Node /\ nodes'[m] \in Node
        BY TreeNodes, NextNodes
    <2>2. nodes'[m] = IF m \in parent THEN WithoutChild(nodes[m], n) ELSE nodes[m]
        BY <1>1
    <2>3. CASE m \in parent
        <3>1. nodes'[m].children = Without(nodes[m].children, {n})
            BY <2>1, <2>2, <2>3, WithChildIs
        <3>2. Recorded(e, m, nodes'[m])
            BY <1>2, <2>2, <2>3
        <3> QED BY <2>1, <3>1, <3>2
    <2>4. CASE m \notin parent
        BY <2>1, <2>2, <2>4
    <2> QED BY <2>3, <2>4
<1>4. OtherEdgesKept(e)
    BY <1>3, KeptWhenRecorded
<1> QED BY <1>1, <1>4

LEMMA PlanEdges ==
    ASSUME TreeInv, TreeInv', NEW a \in NodeId, NEW b \in NodeId, NEW above \in {Root, a},
           ApplyAuxoPlan(a, b, above)
    PROVE  \E e : PushHistory(e) /\ OtherEdgesKept(e)
<1> DEFINE ids == IF a = b THEN <<a>> ELSE <<a, b>>
           up(n) == IF n = a THEN Root ELSE above
           under(n) == Without(ids, {c \in ToSet(ids) : up(c) # n})
           batch == [n \in ToSet(ids) |->
                       [NewNode("branch", up(n), "complete") EXCEPT
                           !.children = under(n), !.context = "valid", !.task = TRUE]]
           root == [nodes[Root] EXCEPT !.children = under(Root)]
           group == [n \in {Root, a, b} |-> IF n = Root THEN Change(nodes[Root], root)
                                            ELSE Change(None, batch[n])]
           one == Entry(Root, {Root, a, b}, <<group>>)
           e == [one EXCEPT !.nodeUndoable = FALSE]
           top == [n \in {Root} |-> root]
<1>1. /\ {a, b} \subseteq Fresh /\ nodes[Root].children = <<>>
      /\ nodes' = Override(Override(nodes, batch), top) /\ PushHistory(e)
    BY DEF ApplyAuxoPlan
<1>2. ToSet(ids) = {a, b}
    <2>1. CASE a = b
        <3>1. ids = <<a>> /\ DOMAIN <<a>> = {1} /\ <<a>>[1] = a
            BY <2>1
        <3> QED BY <2>1, <3>1 DEF ToSet
    <2>2. CASE a # b
        <3>1. ids = <<a, b>> /\ DOMAIN <<a, b>> = {1, 2} /\ <<a, b>>[1] = a /\ <<a, b>>[2] = b
            BY <2>2
        <3> QED BY <2>2, <3>1 DEF ToSet
    <2> QED BY <2>1, <2>2
<1>3. a \notin DOMAIN nodes /\ b \notin DOMAIN nodes
    BY <1>1, TreeNodes, EditsAssumption DEF Fresh
<1>4. DOMAIN batch = {a, b} /\ DOMAIN top = {Root} /\ top[Root] = root
    BY <1>2
<1>5. Recorded(e, Root, root)
    <2>1. one.patch = <<group>> /\ e.patch = one.patch
        BY DEF Entry
    <2>3. Root \in DOMAIN group /\ group[Root] = Change(nodes[Root], root)
        OBVIOUS
    <2> HIDE DEF e, group, one
    <2>2. Len(e.patch) = 1 /\ e.patch[1] = group
        BY <2>1
    <2>4. 1 \in Records(e, Root) /\ e.patch[1][Root] = Change(nodes[Root], root)
        BY <2>2, <2>3 DEF Records
    <2> HIDE DEF root
    <2> QED BY <2>4 DEF Recorded
<1> HIDE DEF e, group, one, batch, top, root
<1>6. ASSUME NEW m \in DOMAIN nodes \cap DOMAIN nodes'
      PROVE  /\ nodes[m] \in Node /\ nodes'[m] \in Node
             /\ \/ nodes'[m].children = nodes[m].children
                \/ Recorded(e, m, nodes'[m]) /\ nodes[m].children = <<>>
    <2>1. nodes[m] \in Node /\ nodes'[m] \in Node
        BY TreeNodes, NextNodes
    <2>2. nodes'[m] = IF m = Root THEN root ELSE nodes[m]
        <3>1. m \notin {a, b}
            BY <1>3
        <3>2. /\ DOMAIN Override(nodes, batch) = DOMAIN nodes \cup DOMAIN batch
              /\ Override(nodes, batch)[m] = nodes[m]
            BY <1>4, <3>1, OverrideIs
        <3>3. PICK full : full = Override(nodes, batch)
            OBVIOUS
        <3>4. Override(full, top)[m] = IF m \in DOMAIN top THEN top[m] ELSE full[m]
            BY <3>2, <3>3, OverrideAt
        <3> QED BY <1>1, <1>4, <3>2, <3>3, <3>4
    <2>3. CASE m = Root
        BY <1>1, <1>5, <2>1, <2>2, <2>3
    <2>4. CASE m # Root
        BY <2>1, <2>2, <2>4
    <2> QED BY <2>3, <2>4
<1>7. OtherEdgesKept(e)
    BY <1>6, KeptWhenRecorded
<1> QED BY <1>1, <1>7

LEMMA SettleEdges ==
    ASSUME TreeInv, TreeInv', NEW r \in open, NEW status \in Status \ {"streaming"},
           SettleBranch(r, status)
    PROVE  \/ UNCHANGED <<past, future>>
           \/ \E e : PushHistory(e) /\ OtherEdgesKept(e)
<1> DEFINE n == r[1]
           parent == nodes[n].parent
           after == [nodes[n] EXCEPT !.status = status]
           e == Entry(n, {parent, n}, Creation(n, parent, WithoutChild(nodes[parent], n),
                                               nodes[parent], after))
<1>1. CASE ~(n \in DOMAIN nodes /\ parent \in DOMAIN nodes)
    BY <1>1 DEF SettleBranch
<1>2. CASE n \in DOMAIN nodes /\ HasCreationEntry(n) /\ parent \in DOMAIN nodes
    BY <1>2 DEF SettleBranch, Settled
<1>3. CASE n \in DOMAIN nodes /\ parent \in DOMAIN nodes /\ ~HasCreationEntry(n)
    <2>1. PushHistory(e) /\ nodes' = [nodes EXCEPT ![n] = after]
        BY <1>3 DEF SettleBranch, Settled
    <2> HIDE DEF e
    <2>2. nodes[n] \in Node /\ DOMAIN nodes' = DOMAIN nodes
        BY <1>3, <2>1, TreeNodes
    <2>3. after.children = nodes[n].children
        BY <2>2 DEF Node
    <2> HIDE DEF n, after
    <2>4. ASSUME NEW m \in DOMAIN nodes \cap DOMAIN nodes'
          PROVE  /\ nodes[m] \in Node /\ nodes'[m] \in Node
                 /\ nodes'[m].children = nodes[m].children
        <3>1. nodes[m] \in Node /\ nodes'[m] \in Node
            BY TreeNodes, NextNodes
        <3>2. nodes'[m] = IF m = n THEN after ELSE nodes[m]
            BY <1>3, <2>1
        <3> QED BY <2>3, <3>1, <3>2
    <2>5. OtherEdgesKept(e)
        BY <2>4, KeptWhenRecorded
    <2> QED BY <2>1, <2>5
<1> QED BY <1>1, <1>2, <1>3

LEMMA LayerEdges ==
    ASSUME TreeInv, NEW n \in NodeId, LayerMove(n)
    PROVE  \E e : PushHistory(e) /\ OtherEdgesKept(e)
<1> DEFINE e == Entry(n, {n}, <<[x \in {n} |-> Change(nodes[x], nodes[x])]>>)
<1>1. PushHistory(e) /\ nodes' = nodes
    BY DEF LayerMove
<1> HIDE DEF e
<1>2. OtherEdgesKept(e)
    BY <1>1 DEF OtherEdgesKept
<1> QED BY <1>1, <1>2

-----------------------------------------------------------------------------
(* What a step does to the two sides of the history tells which entry it    *)
(* undoes or redoes.                                                        *)

UndoKeepsEdges ==
    \A i \in DOMAIN past : future' = <<past[i]>> \o future => OtherEdgesKept(past[i])

RedoKeepsEdges ==
    \A i \in DOMAIN future :
        future' = RemoveAt(future, i) /\ past' = Capped(Append(past, future[i]))
            => OtherEdgesKept(future[i])

LEMMA CappedLast ==
    ASSUME NEW S, NEW s \in Seq(S), NEW e, session.entries \in Nat \ {0}
    PROVE  /\ Capped(Append(s, e)) # <<>>
           /\ Last(Capped(Append(s, e))) = e
<1> DEFINE T == S \cup {e}
           longer == Append(s, e)
           n == Len(s)
<1>1. s \in Seq(T) /\ e \in T /\ n \in Nat
    BY LenProperties
<1> HIDE DEF T
<1>2. longer \in Seq(T) /\ Len(longer) = n + 1 /\ longer[n + 1] = e
    BY <1>1, AppendProperties
<1> HIDE DEF longer
<1>3. CASE Len(longer) > session.entries
    <2>1. n # 0
        BY <1>1, <1>2, <1>3
    <2>2. Capped(longer) = Tail(longer)
        BY <1>3 DEF Capped
    <2>3. Len(Tail(longer)) = n /\ Tail(longer)[n] = longer[n + 1] /\ Tail(longer) \in Seq(T)
        BY <1>1, <1>2, <2>1
    <2> QED BY <1>1, <1>2, <2>1, <2>2, <2>3 DEF Last, longer
<1>4. CASE ~(Len(longer) > session.entries)
    <2>1. Capped(longer) = longer
        BY <1>4 DEF Capped
    <2> QED BY <1>1, <1>2, <2>1 DEF Last, longer
<1> QED BY <1>3, <1>4

LEMMA HistorySides ==
    ASSUME TreeInv
    PROVE  /\ past \in Seq(EntryType) /\ future \in Seq(EntryType)
           /\ Len(past) \in Nat /\ Len(future) \in Nat
           /\ DOMAIN past = 1..Len(past) /\ DOMAIN future = 1..Len(future)
           /\ session.entries \in Nat \ {0}
BY SessionTyped, LenProperties DEF TreeInv, VarsOK, StoryOK, HistoryOK

LEMMA UndoneLength ==
    ASSUME TreeInv, NEW i \in DOMAIN past
    PROVE  /\ Len(<<past[i]>> \o future) = Len(future) + 1
           /\ (<<past[i]>> \o future)[1] = past[i]
<1>1. past[i] \in EntryType /\ future \in Seq(EntryType)
    BY HistorySides, ElementOfSeq
<1> QED BY <1>1

LEMMA RedoneLength ==
    ASSUME TreeInv, NEW i \in DOMAIN future
    PROVE  Len(RemoveAt(future, i)) = Len(future) - 1
BY HistorySides, RemoveAtProperties

LEMMA NothingUndone ==
    ASSUME TreeInv, Len(future') # Len(future) + 1
    PROVE  UndoKeepsEdges
<1> SUFFICES ASSUME NEW i \in DOMAIN past, future' = <<past[i]>> \o future
             PROVE  FALSE
    BY DEF UndoKeepsEdges
<1> QED BY UndoneLength

LEMMA NothingRedone ==
    ASSUME TreeInv, Len(future') # Len(future) - 1
    PROVE  RedoKeepsEdges
<1> SUFFICES ASSUME NEW i \in DOMAIN future, future' = RemoveAt(future, i)
             PROVE  FALSE
    BY DEF RedoKeepsEdges
<1> QED BY RedoneLength

LEMMA SteadyEdges ==
    ASSUME TreeInv, Len(future') = Len(future)
    PROVE  UndoKeepsEdges /\ RedoKeepsEdges
BY HistorySides, NothingUndone, NothingRedone

LEMMA PushEdges ==
    ASSUME TreeInv, \E e : PushHistory(e) /\ OtherEdgesKept(e)
    PROVE  UndoKeepsEdges /\ RedoKeepsEdges
<1>1. PICK e : PushHistory(e) /\ OtherEdgesKept(e)
    OBVIOUS
<1>2. past' = Capped(Append(past, e)) /\ future' = <<>> /\ Len(future') = 0
    BY <1>1 DEF PushHistory
<1>3. UndoKeepsEdges
    BY <1>2, HistorySides, NothingUndone
<1>4. ASSUME NEW i \in DOMAIN future, past' = Capped(Append(past, future[i]))
      PROVE  OtherEdgesKept(future[i])
    <2>1. Last(past') = e
        BY <1>2, HistorySides, CappedLast
    <2>2. Last(past') = future[i]
        BY <1>4, HistorySides, CappedLast
    <2> QED BY <1>1, <2>1, <2>2
<1> QED BY <1>3, <1>4 DEF RedoKeepsEdges

LEMMA ReplayedEdges ==
    ASSUME TreeInv, NEW e \in EntryType, NEW d \in Direction, nodes' = ApplyPatch(nodes, e, d)
    PROVE  OtherEdgesKept(e)
<1>1. nodes \in NodeMap /\ e.patch \in Seq(Group)
    BY TreeNodes DEF EntryType
<1>2. ASSUME NEW n \in DOMAIN nodes \cap DOMAIN nodes'
      PROVE  SameBut(EdgesOf(e, n), nodes'[n].children, nodes[n].children)
    BY <1>1, PatchKeepsEdges
<1> QED BY <1>2 DEF SameBut, OtherEdgesKept

LEMMA UndoEdges ==
    ASSUME TreeInv, NEW j \in DOMAIN past, UndoAt(j)
    PROVE  UndoKeepsEdges /\ RedoKeepsEdges
<1>1. nodes' = ApplyPatch(nodes, past[j], "undo") /\ future' = <<past[j]>> \o future
    BY DEF UndoAt
<1>2. past[j] \in EntryType
    BY HistorySides, ElementOfSeq
<1>3. OtherEdgesKept(past[j])
    BY <1>1, <1>2, ReplayedEdges DEF Direction
<1>4. UndoKeepsEdges
    <2>1. ASSUME NEW i \in DOMAIN past, future' = <<past[i]>> \o future
          PROVE  past[i] = past[j]
        <3>1. (<<past[i]>> \o future)[1] = past[i] /\ (<<past[j]>> \o future)[1] = past[j]
            BY UndoneLength
        <3> QED BY <1>1, <2>1, <3>1
    <2> QED BY <1>3, <2>1 DEF UndoKeepsEdges
<1>5. RedoKeepsEdges
    <2>1. Len(future') = Len(future) + 1
        BY <1>1, UndoneLength
    <2>2. Len(future) \in Nat
        BY HistorySides
    <2>3. Len(future') # Len(future) - 1
        BY <2>1, <2>2
    <2> QED BY <2>3, NothingRedone
<1> QED BY <1>4, <1>5

LEMMA RedoEdges ==
    ASSUME TreeInv, NEW j \in DOMAIN future, RedoAt(j)
    PROVE  UndoKeepsEdges /\ RedoKeepsEdges
<1>1. /\ nodes' = ApplyPatch(nodes, future[j], "redo") /\ future' = RemoveAt(future, j)
      /\ past' = Capped(Append(past, future[j]))
    BY DEF RedoAt
<1>2. future[j] \in EntryType
    BY HistorySides, ElementOfSeq
<1>3. OtherEdgesKept(future[j])
    BY <1>1, <1>2, ReplayedEdges DEF Direction
<1>4. UndoKeepsEdges
    <2>1. Len(future') = Len(future) - 1
        BY <1>1, RedoneLength
    <2> QED BY <2>1, HistorySides, NothingUndone
<1>5. RedoKeepsEdges
    <2>1. ASSUME NEW i \in DOMAIN future, past' = Capped(Append(past, future[i]))
          PROVE  future[i] = future[j]
        <3>1. Last(past') = future[i]
            BY <2>1, HistorySides, CappedLast
        <3>2. Last(past') = future[j]
            BY <1>1, HistorySides, CappedLast
        <3> QED BY <3>1, <3>2
    <2> QED BY <1>3, <2>1 DEF RedoKeepsEdges
<1> QED BY <1>4, <1>5

\* Snapshots that follow keep the entries in place.
LEMMA RewrittenLength ==
    ASSUME NEW S, NEW s \in Seq(S), NEW t, t = [i \in DOMAIN s |-> t[i]]
    PROVE  Len(t) = Len(s)
<1>1. DOMAIN t = 1..Len(s) /\ Len(s) \in Nat
    BY LenProperties
<1>2. t \in [1..Len(s) -> {t[i] : i \in 1..Len(s)}]
    BY <1>1
<1> QED BY <1>1, <1>2

LEMMA ToggleEdges ==
    ASSUME TreeInv, NEW n \in NodeId, ToggleLeafContext(n)
    PROVE  Len(future') = Len(future)
<1> DEFINE f(s) == SyncLeaf(s, ~nodes[n].included)
<1>1. future' = Rewrite(future, n, f)
    BY DEF ToggleLeafContext
<1>2. future' = [i \in DOMAIN future |-> future'[i]]
    BY <1>1 DEF Rewrite
<1> QED BY <1>2, HistorySides, RewrittenLength

LEMMA SemanticsEdges ==
    ASSUME TreeInv, NEW r \in structuring, SetNodeSemantics(r)
    PROVE  Len(future') = Len(future)
<1> DEFINE f(s) == SyncCard(s, r[2])
<1>1. CASE CardAccepted(r[1], r[2])
    <2>1. future' = Rewrite(future, r[1], f)
        BY <1>1 DEF SetNodeSemantics
    <2>2. future' = [i \in DOMAIN future |-> future'[i]]
        BY <2>1 DEF Rewrite
    <2> QED BY <2>2, HistorySides, RewrittenLength
<1>2. CASE ~CardAccepted(r[1], r[2])
    BY <1>2 DEF SetNodeSemantics
<1> QED BY <1>1, <1>2

LEMMA ReloadEdges ==
    ASSUME TreeInv, Reload
    PROVE  UndoKeepsEdges /\ RedoKeepsEdges
<1>1. past' = <<>> /\ future' = <<>> /\ Len(future') = 0
    BY DEF Reload
<1>2. UndoKeepsEdges
    BY <1>1, HistorySides, NothingUndone
<1>3. RedoKeepsEdges
    BY <1>1, HistorySides, CappedLast DEF RedoKeepsEdges
<1> QED BY <1>2, <1>3

LEMMA EdgesStep ==
    ASSUME TreeInv, TreeInv', [Next]_vars
    PROVE  UndoKeepsEdges /\ RedoKeepsEdges
<1>1. CASE UNCHANGED future
    BY <1>1, SteadyEdges
<1>2. ASSUME NEW n \in NodeId, NEW at \in AnyId, StartBranch(n, at) \/ Leaf(n, at)
      PROVE  UndoKeepsEdges /\ RedoKeepsEdges
    BY <1>1, <1>2, LeafEdges, PushEdges DEF StartBranch
<1>3. ASSUME NEW n \in NodeId, \/ UpdateBranch(n) \/ RetryAnswer(n)
                               \/ RetrySemantics(n) \/ ToggleLeafContext(n) \/ GraftStart(n)
                               \/ Prune(n) \/ LayerMove(n)
      PROVE  UndoKeepsEdges /\ RedoKeepsEdges
    <2>1. CASE UpdateBranch(n) \/ RetryAnswer(n) \/ RetrySemantics(n) \/ GraftStart(n)
        BY <1>1, <2>1 DEF UpdateBranch, RetryAnswer, RetrySemantics, GraftStart
    <2>2. CASE ToggleLeafContext(n)
        BY <2>2, ToggleEdges, SteadyEdges
    <2>3. CASE Prune(n)
        BY <2>3, PruneEdges, PushEdges
    <2>4. CASE LayerMove(n)
        BY <2>4, LayerEdges, PushEdges
    <2> QED BY <1>3, <2>1, <2>2, <2>3, <2>4
<1>4. ASSUME NEW r \in open, NEW status \in Status \ {"streaming"}, SettleBranch(r, status)
      PROVE  UndoKeepsEdges /\ RedoKeepsEdges
    BY <1>1, <1>4, SettleEdges, PushEdges
<1>5. ASSUME NEW r \in structuring, SetNodeSemantics(r) \/ SemanticsFail(r)
      PROVE  UndoKeepsEdges /\ RedoKeepsEdges
    BY <1>1, <1>5, SemanticsEdges, SteadyEdges DEF SemanticsFail
<1>6. ASSUME NEW a \in NodeId, NEW b \in NodeId, NEW above \in {Root, a},
             ApplyAuxoPlan(a, b, above)
      PROVE  UndoKeepsEdges /\ RedoKeepsEdges
    BY <1>6, PlanEdges, PushEdges
<1>7. ASSUME NEW n \in AnyId, GraftConfirm(n)
      PROVE  UndoKeepsEdges /\ RedoKeepsEdges
    <2>1. CASE Graftable(graftSource, n)
        BY <1>7, <2>1, GraftEdges, PushEdges
    <2>2. CASE ~Graftable(graftSource, n)
        BY <1>1, <1>7, <2>2 DEF GraftConfirm
    <2> QED BY <2>1, <2>2
<1>8. ASSUME Undo \/ Redo \/ \E n \in AnyId : UndoNode(n) \/ RedoNode(n)
      PROVE  UndoKeepsEdges /\ RedoKeepsEdges
    <2>1. \/ \E j \in DOMAIN past : UndoAt(j)
          \/ \E j \in DOMAIN future : RedoAt(j)
        <3>1. CASE Undo \/ Redo
            BY <3>1, LastOfPast DEF Undo, Redo
        <3>2. CASE \E n \in AnyId : UndoNode(n) \/ RedoNode(n)
            BY <3>2 DEF UndoNode, RedoNode, Affecting
        <3> QED BY <1>8, <3>1, <3>2
    <2> QED BY <2>1, UndoEdges, RedoEdges
<1>9. CASE GraftCancel
    BY <1>1, <1>9 DEF GraftCancel
<1>10. CASE Reload
    BY <1>10, ReloadEdges
<1>11. CASE UNCHANGED vars
    BY <1>1, <1>11 DEF vars
<1> QED BY <1>2, <1>3, <1>4, <1>5, <1>6, <1>7, <1>8, <1>9, <1>10, <1>11 DEF Next

\* Undoing or redoing an entry, in whatever order, leaves every edge the entry
\* does not speak of where it is (applyPatch and mergeTargetChildren).
THEOREM UnrelatedEdges == TreeSpec => UnrelatedEdgesKept
<1>1. ASSUME TreeInv, TreeInv', [Next]_vars
      PROVE  [ /\ \A i \in DOMAIN past :
                     future' = <<past[i]>> \o future => OtherEdgesKept(past[i])
               /\ \A i \in DOMAIN future :
                     future' = RemoveAt(future, i) /\ past' = Capped(Append(past, future[i]))
                       => OtherEdgesKept(future[i]) ]_vars
    BY <1>1, EdgesStep DEF UndoKeepsEdges, RedoKeepsEdges
<1> QED BY <1>1, TreeAlways, PTL DEF TreeSpec, UnrelatedEdgesKept

-----------------------------------------------------------------------------
(* Plans.  As long as nothing is grafted or pruned, a node has one parent   *)
(* for good, and everything in the history that speaks of a task comes      *)
(* after the batch that created the tasks: to be undone before it, and to be *)
(* redone after it.                                                         *)

NoMoves == Does("auxo") /\ ~Does("prune") /\ ~Does("graft")

\* What a session without moves settles: the parent of each node drawn and the
\* tasks that are there or can come back.
Frame == [home: [AnyId -> AnyId \cup {None}], plan: SUBSET NodeId, ids: SUBSET NodeId]

FrameOK(f) ==
    /\ f \in Frame
    /\ f.plan \subseteq f.ids
    /\ f.home[Root] = None
    /\ \A t \in f.plan : f.home[t] \in f.plan \cup {Root}

\* The tasks and the nodes right below them.
Near(f) == f.plan \cup {m \in f.ids : f.home[m] \in f.plan}

Placed(f, n, s) ==
    /\ n \in f.ids \cup {Root}
    /\ ToSet(s.children) \subseteq f.ids
    /\ \A c \in ToSet(s.children) : f.home[c] = n
    /\ s.parent = f.home[n]
    /\ s.task <=> n \in f.plan

AllPlaced(f, ns) == \A n \in DOMAIN ns : Placed(f, n, ns[n])

SnapshotPlaced(f, n, s) == s = None \/ Placed(f, n, s)

\* A change that leaves the tasks where they are.
Mild(f, n, c) ==
    /\ n \in f.ids \cup {Root}
    /\ SnapshotPlaced(f, n, c.before) /\ SnapshotPlaced(f, n, c.after)
    /\ n \in f.plan \cup {Root} => c.before # None /\ c.after # None
    /\ c.before # None /\ c.after # None =>
          ToSet(c.before.children) \cap f.plan = ToSet(c.after.children) \cap f.plan

\* Entry e holds a snapshot of a task.
Touches(f, e) == f.plan \cap DOMAIN e.patch[1] # {}

Plain(f, e) ==
    /\ e.nodeUndoable = TRUE
    /\ Len(e.patch) = 1
    /\ \A n \in DOMAIN e.patch[1] : Mild(f, n, e.patch[1][n])
    /\ Touches(f, e) => e.affected \subseteq Near(f)

\* The entry that creates the tasks, all of them below a root without them.
Batch(f, e) ==
    LET group == e.patch[1] IN
    /\ e.nodeUndoable = FALSE
    /\ Len(e.patch) = 1
    /\ f.plan # {}
    /\ e.affected = f.plan \cup {Root}
    /\ DOMAIN group = f.plan \cup {Root}
    /\ group[Root].before # None /\ Placed(f, Root, group[Root].before)
    /\ \A n \in f.plan \cup {Root} : group[n].after # None /\ Placed(f, n, group[n].after)
    /\ ToSet(group[Root].before.children) \cap f.plan = {}
    /\ \A t \in f.plan : /\ group[t].before = None
                         /\ t \in ToSet(group[f.home[t]].after.children)

AllKnown(f, entries) == \A i \in DOMAIN entries : Plain(f, entries[i]) \/ Batch(f, entries[i])

\* Batches come before everything that speaks of the tasks.
InTurn(f, entries) ==
    \A i, j \in DOMAIN entries : j < i /\ ~entries[i].nodeUndoable => ~Touches(f, entries[j])

\* Every task is there, listed by its parent.
Standing(f, ns) == \A t \in f.plan : t \in DOMAIN ns /\ t \in ToSet(ns[f.home[t]].children)

Planned(f, ns, before, after) ==
    /\ Standing(f, ns)
    /\ \A j \in DOMAIN after : after[j].nodeUndoable
    /\ InTurn(f, before)

\* The entry k of those to redo is the only batch, and the first about a task.
Leads(f, after, k) ==
    /\ ~after[k].nodeUndoable
    /\ \A j \in DOMAIN after \ {k} : after[j].nodeUndoable /\ (j < k => ~Touches(f, after[j]))

\* No task is there; the batch is to be redone before anything that speaks of one.
Gone(f, ns, before, panel) ==
    /\ f.plan # {} /\ f.plan \cap DOMAIN ns = {}
    /\ panel \notin Near(f)
    /\ \A i \in DOMAIN before : ~Touches(f, before[i])

Withdrawn(f, ns, before, after, panel) ==
    /\ Gone(f, ns, before, panel)
    /\ \E k \in DOMAIN after : Leads(f, after, k)

\* busy: the nodes whose answer is being written or may be retried.
Plotted(f, ns, before, after, panel, ids, busy) ==
    /\ FrameOK(f) /\ f.ids = ids
    /\ AllPlaced(f, ns)
    /\ AllKnown(f, before) /\ AllKnown(f, after)
    /\ busy \subseteq f.ids \ f.plan
    /\ Planned(f, ns, before, after) \/ Withdrawn(f, ns, before, after, panel)

Plot(ns, before, after, panel, ids, busy) ==
    \E f : Plotted(f, ns, before, after, panel, ids, busy)

Busy == OpenNodes \cup retryable

PlanInv ==
    NoMoves => /\ graftSource = None
               /\ Plot(nodes, past, future, focus, DOMAIN origin, Busy)

-----------------------------------------------------------------------------
(* What is in place stays in place.                                         *)

\* f2 goes on from f: more nodes are drawn.
FrameGrows(f2, f) ==
    /\ f.ids \subseteq f2.ids
    /\ \A n \in f.ids \cup {Root} : f2.home[n] = f.home[n] /\ (n \in f2.plan <=> n \in f.plan)

LEMMA PlacedGrows ==
    ASSUME NEW f, NEW f2, FrameGrows(f2, f), NEW n, NEW s, Placed(f, n, s)
    PROVE  Placed(f2, n, s)
BY DEF FrameGrows, Placed

LEMMA AllPlacedGrow ==
    ASSUME NEW f, NEW f2, FrameGrows(f2, f), NEW ns, AllPlaced(f, ns)
    PROVE  AllPlaced(f2, ns)
BY PlacedGrows DEF AllPlaced

LEMMA PlainGrows ==
    ASSUME NEW f, NEW f2, FrameGrows(f2, f), f2.plan = f.plan, NEW e, Plain(f, e)
    PROVE  Plain(f2, e)
<1>1. \A n, s : Placed(f, n, s) => Placed(f2, n, s)
    BY PlacedGrows
<1>2. Near(f) \subseteq Near(f2)
    BY DEF Near, FrameGrows
<1>3. \A n, c : Mild(f, n, c) => Mild(f2, n, c)
    BY <1>1 DEF Mild, SnapshotPlaced, FrameGrows
<1>4. Touches(f2, e) => Touches(f, e)
    BY DEF Touches
<1> QED BY <1>2, <1>3, <1>4 DEF Plain

LEMMA BatchGrows ==
    ASSUME NEW f, NEW f2, FrameOK(f), FrameGrows(f2, f), f2.plan = f.plan, NEW e, Batch(f, e)
    PROVE  Batch(f2, e)
<1>1. \A n, s : Placed(f, n, s) => Placed(f2, n, s)
    BY PlacedGrows
<1>2. \A t \in f.plan : f2.home[t] = f.home[t]
    BY DEF FrameGrows, FrameOK
<1> QED BY <1>1, <1>2 DEF Batch

LEMMA AllKnownGrow ==
    ASSUME NEW f, NEW f2, FrameOK(f), FrameGrows(f2, f), f2.plan = f.plan,
           NEW entries, AllKnown(f, entries)
    PROVE  AllKnown(f2, entries)
BY PlainGrows, BatchGrows DEF AllKnown

LEMMA TouchesSame ==
    ASSUME NEW f, NEW f2, f2.plan = f.plan, NEW e
    PROVE  Touches(f2, e) <=> Touches(f, e)
BY DEF Touches

\* A batch speaks of tasks.
LEMMA BatchTouches ==
    ASSUME NEW f, NEW e, Batch(f, e)
    PROVE  Touches(f, e) /\ ~e.nodeUndoable
BY DEF Batch, Touches

\* The tasks are forgotten once nothing speaks of them.
Forgotten(f) == [home |-> f.home, plan |-> {}, ids |-> f.ids]

LEMMA ForgottenIs ==
    ASSUME NEW f, FrameOK(f)
    PROVE  /\ FrameOK(Forgotten(f)) /\ Forgotten(f).plan = {}
           /\ Forgotten(f).ids = f.ids /\ Forgotten(f).home = f.home
<1>1. f.home \in [AnyId -> AnyId \cup {None}] /\ f.ids \in SUBSET NodeId
    BY DEF FrameOK, Frame
<1> QED BY <1>1 DEF FrameOK, Frame, Forgotten

LEMMA ForgottenPlaced ==
    ASSUME NEW f, FrameOK(f), NEW n, n \notin f.plan, NEW s, Placed(f, n, s)
    PROVE  Placed(Forgotten(f), n, s)
BY ForgottenIs DEF Placed

LEMMA ForgottenPlain ==
    ASSUME NEW f, FrameOK(f), NEW e, ~Touches(f, e), Plain(f, e) \/ Batch(f, e)
    PROVE  Plain(Forgotten(f), e)
<1>1. Plain(f, e)
    BY BatchTouches
<1>2. ASSUME NEW n \in DOMAIN e.patch[1]
      PROVE  Mild(Forgotten(f), n, e.patch[1][n])
    <2>1. n \notin f.plan
        BY DEF Touches
    <2>2. \A s : Placed(f, n, s) => Placed(Forgotten(f), n, s)
        BY <2>1, ForgottenPlaced
    <2>3. Mild(f, n, e.patch[1][n]) /\ Forgotten(f).plan = {}
        BY <1>1, ForgottenIs DEF Plain
    <2> QED BY <2>1, <2>2, <2>3, ForgottenIs DEF Mild, SnapshotPlaced
<1>3. ~Touches(Forgotten(f), e)
    BY ForgottenIs DEF Touches
<1> QED BY <1>1, <1>2, <1>3 DEF Plain

-----------------------------------------------------------------------------
(* The sides of the history.                                                *)

\* An entry pushed comes last; the first may be dropped.
LEMMA PushedWhere ==
    ASSUME NEW S, NEW s \in Seq(S), NEW e, session.entries \in Nat \ {0},
           NEW t, t = Capped(Append(s, e))
    PROVE  \E d \in {0, 1} :
              /\ DOMAIN t = 1..(Len(s) + 1 - d) /\ Len(s) \in Nat
              /\ \A i \in DOMAIN t : t[i] = IF i + d <= Len(s) THEN s[i + d] ELSE e
              /\ \A i \in DOMAIN t : i + d <= Len(s) => i + d \in DOMAIN s
<1> DEFINE T == S \cup {e}
           longer == Append(s, e)
           n == Len(s)
<1>1. s \in Seq(T) /\ e \in T /\ n \in Nat /\ DOMAIN s = 1..n
    BY LenProperties
<1> HIDE DEF T
<1>2. /\ longer \in Seq(T) /\ Len(longer) = n + 1 /\ DOMAIN longer = 1..(n + 1)
      /\ longer[n + 1] = e /\ \A i \in 1..n : longer[i] = s[i]
    BY <1>1, AppendProperties, LenProperties
<1> HIDE DEF longer
<1>3. CASE Len(longer) > session.entries
    <2>1. n # 0
        BY <1>1, <1>2, <1>3
    <2>2. t = Tail(longer)
        BY <1>3 DEF Capped, longer
    <2>3. /\ DOMAIN Tail(longer) = 1..n
          /\ \A i \in 1..n : Tail(longer)[i] = longer[i + 1]
        BY <1>1, <1>2, <2>1
    <2>4. \A i \in 1..n : t[i] = IF i + 1 <= n THEN s[i + 1] ELSE e
        <3> SUFFICES ASSUME NEW i \in 1..n
                     PROVE  t[i] = IF i + 1 <= n THEN s[i + 1] ELSE e
            OBVIOUS
        <3>1. t[i] = longer[i + 1] /\ (i + 1 \in 1..n \/ i + 1 = n + 1)
            BY <1>1, <2>2, <2>3
        <3> QED BY <1>1, <1>2, <3>1
    <2>5. DOMAIN t = 1..(n + 1 - 1)
        BY <1>1, <2>2, <2>3
    <2>6. \A i \in DOMAIN t : i + 1 <= n => i + 1 \in DOMAIN s
        BY <1>1, <2>5
    <2>7. /\ DOMAIN t = 1..(n + 1 - 1)
          /\ \A i \in DOMAIN t : t[i] = IF i + 1 <= n THEN s[i + 1] ELSE e
        BY <1>1, <2>4, <2>5
    <2> QED BY <1>1, <2>6, <2>7
<1>4. CASE ~(Len(longer) > session.entries)
    <2>1. t = longer
        BY <1>4 DEF Capped, longer
    <2>2. DOMAIN t = 1..(n + 1 - 0)
        BY <1>1, <1>2, <2>1
    <2>3. \A i \in DOMAIN t : t[i] = IF i + 0 <= n THEN s[i + 0] ELSE e
        <3> SUFFICES ASSUME NEW i \in DOMAIN t
                     PROVE  t[i] = IF i + 0 <= n THEN s[i + 0] ELSE e
            OBVIOUS
        <3>1. i \in 1..(n + 1) /\ (i \in 1..n \/ i = n + 1) /\ i + 0 = i
            BY <1>1, <2>2
        <3> QED BY <1>1, <1>2, <2>1, <3>1
    <2>4. \A i \in DOMAIN t : i + 0 <= n => i + 0 \in DOMAIN s
        BY <1>1, <2>2
    <2> QED BY <1>1, <2>2, <2>3, <2>4
<1> QED BY <1>3, <1>4

LEMMA PushedKnown ==
    ASSUME NEW S, NEW s \in Seq(S), NEW e, session.entries \in Nat \ {0}, NEW f,
           AllKnown(f, s), Plain(f, e) \/ Batch(f, e),
           NEW t, t = Capped(Append(s, e))
    PROVE  AllKnown(f, t)
<1>1. PICK d \in {0, 1} :
          /\ DOMAIN t = 1..(Len(s) + 1 - d) /\ Len(s) \in Nat
          /\ \A i \in DOMAIN t : t[i] = IF i + d <= Len(s) THEN s[i + d] ELSE e
          /\ \A i \in DOMAIN t : i + d <= Len(s) => i + d \in DOMAIN s
    BY PushedWhere
<1> QED BY <1>1 DEF AllKnown

\* Nothing comes after what is pushed, so it must be no batch, or the first entry
\* about the tasks.
LEMMA PushedInTurn ==
    ASSUME NEW S, NEW s \in Seq(S), NEW e, session.entries \in Nat \ {0}, NEW f,
           InTurn(f, s), e.nodeUndoable \/ \A i \in DOMAIN s : ~Touches(f, s[i]),
           NEW t, t = Capped(Append(s, e))
    PROVE  InTurn(f, t)
<1>1. PICK d \in {0, 1} :
          /\ DOMAIN t = 1..(Len(s) + 1 - d) /\ Len(s) \in Nat
          /\ \A i \in DOMAIN t : t[i] = IF i + d <= Len(s) THEN s[i + d] ELSE e
          /\ \A i \in DOMAIN t : i + d <= Len(s) => i + d \in DOMAIN s
    BY PushedWhere
<1> SUFFICES ASSUME NEW i \in DOMAIN t, NEW j \in DOMAIN t, j < i, ~t[i].nodeUndoable
             PROVE  ~Touches(f, t[j])
    BY DEF InTurn
<1>2. i \in Nat /\ j \in Nat /\ i <= Len(s) + 1 - d
    BY <1>1
<1>3. j + d <= Len(s) /\ j + d < i + d
    BY <1>1, <1>2
<1>4. t[j] = s[j + d] /\ j + d \in DOMAIN s
    BY <1>1, <1>3
<1>5. CASE i + d <= Len(s)
    <2>1. t[i] = s[i + d] /\ i + d \in DOMAIN s
        BY <1>1, <1>5
    <2> QED BY <1>3, <1>4, <2>1 DEF InTurn
<1>6. CASE ~(i + d <= Len(s))
    <2>1. t[i] = e
        BY <1>1, <1>6
    <2> QED BY <1>4, <2>1
<1> QED BY <1>5, <1>6

LEMMA UntouchedInTurn ==
    ASSUME NEW f, NEW s, \A i \in DOMAIN s : ~Touches(f, s[i])
    PROVE  InTurn(f, s)
BY DEF InTurn

LEMMA RemovedWhere ==
    ASSUME NEW S, NEW s \in Seq(S), NEW i \in DOMAIN s, NEW t, t = RemoveAt(s, i)
    PROVE  /\ DOMAIN t = 1..(Len(s) - 1) /\ Len(s) \in Nat /\ DOMAIN s = 1..Len(s)
           /\ \A j \in DOMAIN t : t[j] = IF j < i THEN s[j] ELSE s[j + 1]
<1>1. i \in 1..Len(s) /\ DOMAIN s = 1..Len(s) /\ Len(s) \in Nat
    BY LenProperties
<1>2. /\ t \in Seq(S) /\ Len(t) = Len(s) - 1
      /\ \A j \in 1..(Len(s) - 1) : t[j] = IF j < i THEN s[j] ELSE s[j + 1]
    BY <1>1, RemoveAtProperties
<1>3. DOMAIN t = 1..Len(t)
    BY <1>2, LenProperties
<1> QED BY <1>1, <1>2, <1>3

LEMMA RemovedKnown ==
    ASSUME NEW S, NEW s \in Seq(S), NEW i \in DOMAIN s, NEW t, t = RemoveAt(s, i),
           NEW f, AllKnown(f, s)
    PROVE  AllKnown(f, t)
<1>1. /\ DOMAIN t = 1..(Len(s) - 1) /\ Len(s) \in Nat /\ DOMAIN s = 1..Len(s)
      /\ \A j \in DOMAIN t : t[j] = IF j < i THEN s[j] ELSE s[j + 1]
    BY RemovedWhere
<1>2. \A j \in DOMAIN t : j \in DOMAIN s /\ j + 1 \in DOMAIN s
    BY <1>1
<1> QED BY <1>1, <1>2 DEF AllKnown

LEMMA RemovedInTurn ==
    ASSUME NEW S, NEW s \in Seq(S), NEW i \in DOMAIN s, NEW t, t = RemoveAt(s, i),
           NEW f, InTurn(f, s)
    PROVE  InTurn(f, t)
<1>1. /\ DOMAIN t = 1..(Len(s) - 1) /\ Len(s) \in Nat /\ DOMAIN s = 1..Len(s)
      /\ \A j \in DOMAIN t : t[j] = IF j < i THEN s[j] ELSE s[j + 1]
    BY RemovedWhere
<1> SUFFICES ASSUME NEW k \in DOMAIN t, NEW j \in DOMAIN t, j < k, ~t[k].nodeUndoable
             PROVE  ~Touches(f, t[j])
    BY DEF InTurn
<1> DEFINE at(m) == IF m < i THEN m ELSE m + 1
<1>2. at(j) \in DOMAIN s /\ at(k) \in DOMAIN s /\ at(j) < at(k)
    BY <1>1
<1>3. t[j] = s[at(j)] /\ t[k] = s[at(k)]
    BY <1>1
<1> HIDE DEF at
<1> QED BY <1>2, <1>3 DEF InTurn

LEMMA PrependedWhere ==
    ASSUME NEW S, NEW s \in Seq(S), NEW e \in S, NEW t, t = <<e>> \o s
    PROVE  /\ DOMAIN t = 1..(1 + Len(s)) /\ Len(s) \in Nat /\ DOMAIN s = 1..Len(s)
           /\ t[1] = e /\ \A j \in DOMAIN s : t[j + 1] = s[j]
           /\ \A j \in DOMAIN t : j = 1 \/ (j - 1 \in DOMAIN s /\ t[j] = s[j - 1])
<1>1. /\ <<e>> \in Seq(S) /\ Len(<<e>>) = 1 /\ <<e>>[1] = e
      /\ Len(s) \in Nat /\ DOMAIN s = 1..Len(s)
    BY LenProperties
<1>2. /\ t \in Seq(S) /\ Len(t) = 1 + Len(s)
      /\ \A j \in 1..(1 + Len(s)) : t[j] = IF j <= 1 THEN <<e>>[j] ELSE s[j - 1]
    BY <1>1, ConcatProperties
<1>3. DOMAIN t = 1..(1 + Len(s))
    BY <1>2, LenProperties
<1>4. ASSUME NEW j \in DOMAIN s
      PROVE  t[j + 1] = s[j]
    <2>1. j + 1 \in 1..(1 + Len(s)) /\ ~(j + 1 <= 1) /\ (j + 1) - 1 = j
        BY <1>1
    <2> QED BY <1>2, <2>1
<1>5. ASSUME NEW j \in DOMAIN t, j # 1
      PROVE  j - 1 \in DOMAIN s /\ t[j] = s[j - 1]
    <2>1. j \in 1..(1 + Len(s)) /\ ~(j <= 1) /\ j - 1 \in 1..Len(s)
        BY <1>1, <1>3, <1>5
    <2> QED BY <1>1, <1>2, <2>1
<1>6. t[1] = e
    BY <1>1, <1>2
<1> QED BY <1>1, <1>3, <1>4, <1>5, <1>6

LEMMA PrependedKnown ==
    ASSUME NEW S, NEW s \in Seq(S), NEW e \in S, NEW t, t = <<e>> \o s,
           NEW f, AllKnown(f, s), Plain(f, e) \/ Batch(f, e)
    PROVE  AllKnown(f, t)
BY PrependedWhere DEF AllKnown

-----------------------------------------------------------------------------
(* What an entry does to the tasks.                                         *)

LEMMA OneGroup ==
    ASSUME NEW ns \in NodeMap, NEW e \in EntryType, Len(e.patch) = 1, NEW d \in Direction
    PROVE  e.patch[1] \in Group /\ ApplyPatch(ns, e, d) = ApplyGroup(ns, e.patch[1], d)
<1>1. e.patch \in Seq(Group)
    BY DEF EntryType
<1>2. PICK f : Patches(f, ns, e.patch, d) /\ ApplyPatch(ns, e, d) = f[Len(e.patch)]
    BY <1>1, PatchSteps
<1>3. f[1] = ApplyGroup(f[0], e.patch[1], d) /\ f[0] = ns
    BY <1>2 DEF Patches
<1>4. e.patch[1] \in Group
    BY <1>1, ElementOfSeq
<1> QED BY <1>2, <1>3, <1>4

LEMMA ChangedPlaced ==
    ASSUME NEW f, NEW ns, AllPlaced(f, ns), NEW n,
           NEW change \in [before: Snapshot, after: Snapshot],
           SnapshotPlaced(f, n, change.before), SnapshotPlaced(f, n, change.after),
           NEW d \in Direction, NEW node, ChangedTo(node, ns, n, change, d)
    PROVE  Placed(f, n, node)
<1> DEFINE source == Source(change, d)
           target == Target(change, d)
<1>1. /\ node \in Node /\ target \in Node
      /\ node.kind = target.kind /\ node.parent = target.parent
      /\ node.context = target.context /\ node.included = target.included
      /\ node.task = target.task
      /\ \/ (source = None \/ n \notin DOMAIN ns) /\ node.children = target.children
         \/ /\ source \in Node /\ n \in DOMAIN ns
            /\ MergedFrom(node.children, AnyId, ns[n].children, source.children,
                          target.children)
    BY ChangedNode
<1>2. SnapshotPlaced(f, n, target)
    BY DEF Target
<1> HIDE DEF source, target
<1>3. Placed(f, n, target)
    BY <1>1, <1>2, NoneAssumption DEF SnapshotPlaced
<1>4. CASE node.children = target.children
    BY <1>1, <1>3, <1>4 DEF Placed
<1>5. CASE /\ n \in DOMAIN ns
           /\ MergedFrom(node.children, AnyId, ns[n].children, source.children, target.children)
    <2>1. ToSet(node.children) \subseteq ToSet(ns[n].children) \cup ToSet(target.children)
        BY <1>5 DEF MergedFrom
    <2>2. Placed(f, n, ns[n])
        BY <1>5 DEF AllPlaced
    <2> QED BY <1>1, <1>3, <2>1, <2>2 DEF Placed
<1> QED BY <1>1, <1>4, <1>5

\* The children a change leaves.
ChildrenFrom(node, ns, n, change, d) ==
    LET source == Source(change, d)
        target == Target(change, d)
    IN
    /\ n \notin DOMAIN ns => node.children = target.children
    /\ n \in DOMAIN ns /\ source # None =>
          ToSet(node.children) =
              (ToSet(ns[n].children) \ EdgeDelta(source.children, target.children))
              \cup (ToSet(target.children) \ ToSet(source.children))

LEMMA ChangedChildren ==
    ASSUME NEW ns, NEW n, NEW change \in [before: Snapshot, after: Snapshot],
           NEW d \in Direction, NEW node, ChangedTo(node, ns, n, change, d)
    PROVE  ChildrenFrom(node, ns, n, change, d)
<1> DEFINE source == Source(change, d)
           target == Target(change, d)
<1>1. /\ node \in Node /\ target \in Node
      /\ node.kind = target.kind /\ node.parent = target.parent
      /\ node.context = target.context /\ node.included = target.included
      /\ node.task = target.task
      /\ \/ (source = None \/ n \notin DOMAIN ns) /\ node.children = target.children
         \/ /\ source \in Node /\ n \in DOMAIN ns
            /\ MergedFrom(node.children, AnyId, ns[n].children, source.children,
                          target.children)
    BY ChangedNode
<1> HIDE DEF source, target
<1>2. /\ n \notin DOMAIN ns => node.children = target.children
      /\ n \in DOMAIN ns /\ source # None =>
            ToSet(node.children) =
                (ToSet(ns[n].children) \ EdgeDelta(source.children, target.children))
                \cup (ToSet(target.children) \ ToSet(source.children))
    BY <1>1 DEF MergedFrom
<1> QED BY <1>2 DEF source, target, ChildrenFrom

LEMMA GroupPlaced ==
    ASSUME NEW f, NEW ns \in NodeMap, AllPlaced(f, ns), NEW group \in Group, NEW d \in Direction,
           \A n \in DOMAIN group : /\ SnapshotPlaced(f, n, group[n].before)
                                   /\ SnapshotPlaced(f, n, group[n].after)
    PROVE  AllPlaced(f, ApplyGroup(ns, group, d))
<1> DEFINE result == ApplyGroup(ns, group, d)
<1> SUFFICES ASSUME NEW n \in DOMAIN result
             PROVE  Placed(f, n, result[n])
    BY DEF AllPlaced
<1>1. CASE n \in DOMAIN ns \ DOMAIN group /\ result[n] = ns[n]
    BY <1>1 DEF AllPlaced
<1>2. CASE n \in DOMAIN group /\ ChangedTo(result[n], ns, n, group[n], d)
    <2>1. group[n] \in [before: Snapshot, after: Snapshot]
        BY <1>2 DEF Group
    <2> HIDE DEF result
    <2> QED BY <1>2, <2>1, ChangedPlaced
<1> HIDE DEF result
<1>3. \/ n \in DOMAIN ns \ DOMAIN group /\ result[n] = ns[n]
      \/ n \in DOMAIN group /\ ChangedTo(result[n], ns, n, group[n], d)
    BY GroupValue DEF result
<1> QED BY <1>1, <1>2, <1>3

\* A node stays unless its change takes it away.
LEMMA GroupLeaves ==
    ASSUME NEW ns \in NodeMap, NEW group \in Group, NEW d \in Direction,
           NEW n \in DOMAIN ns \cup DOMAIN group,
           n \in DOMAIN group => Target(group[n], d) # None
    PROVE  n \in DOMAIN ApplyGroup(ns, group, d)
BY GroupDomain

\* The children of a node that has both snapshots and is there.
LEMMA GroupMerges ==
    ASSUME NEW ns \in NodeMap, NEW group \in Group, NEW d \in Direction,
           NEW n \in DOMAIN ns \cap DOMAIN group, group[n].before # None, group[n].after # None
    PROVE  ToSet(ApplyGroup(ns, group, d)[n].children) =
               (ToSet(ns[n].children)
                   \ EdgeDelta(Source(group[n], d).children, Target(group[n], d).children))
               \cup (ToSet(Target(group[n], d).children) \ ToSet(Source(group[n], d).children))
<1>1. Source(group[n], d) # None /\ Target(group[n], d) # None
    BY DEF Source, Target
<1>2. n \in DOMAIN ApplyGroup(ns, group, d)
    BY <1>1, GroupLeaves
<1>3. ChangedTo(ApplyGroup(ns, group, d)[n], ns, n, group[n], d)
    BY <1>2, GroupValue
<1>4. group[n] \in [before: Snapshot, after: Snapshot]
    BY DEF Group
<1>5. ChildrenFrom(ApplyGroup(ns, group, d)[n], ns, n, group[n], d)
    BY <1>3, <1>4, ChangedChildren
<1> QED BY <1>1, <1>5 DEF ChildrenFrom

LEMMA UnchangedByGroup ==
    ASSUME NEW ns \in NodeMap, NEW group \in Group, NEW d \in Direction,
           NEW n \in DOMAIN ns \ DOMAIN group
    PROVE  ApplyGroup(ns, group, d)[n] = ns[n]
<1>1. n \in DOMAIN ApplyGroup(ns, group, d)
    BY GroupLeaves
<1> QED BY <1>1, GroupValue

\* Mild changes leave the tasks where they are.
LEMMA MildStands ==
    ASSUME NEW f, FrameOK(f), NEW ns \in NodeMap, Root \in DOMAIN ns, Standing(f, ns),
           NEW group \in Group, NEW d \in Direction,
           \A n \in DOMAIN group : Mild(f, n, group[n])
    PROVE  Standing(f, ApplyGroup(ns, group, d))
<1> DEFINE result == ApplyGroup(ns, group, d)
<1>1. ASSUME NEW n \in f.plan \cup {Root}
      PROVE  n \in DOMAIN ns /\ n \in DOMAIN result
    <2>1. n \in DOMAIN ns
        BY DEF Standing
    <2>2. n \in DOMAIN group => Target(group[n], d) # None
        BY DEF Mild, Target
    <2> QED BY <2>1, <2>2, GroupLeaves
<1> SUFFICES ASSUME NEW t \in f.plan
             PROVE  t \in ToSet(result[f.home[t]].children)
    BY <1>1 DEF Standing
<1>2. PICK q \in f.plan \cup {Root} : q = f.home[t]
    BY DEF FrameOK
<1>3. t \in ToSet(ns[q].children)
    BY <1>2 DEF Standing
<1>4. q \in DOMAIN ns
    BY <1>1
<1>5. CASE q \notin DOMAIN group
    BY <1>2, <1>3, <1>4, <1>5, UnchangedByGroup
<1>6. CASE q \in DOMAIN group
    <2> DEFINE target == Target(group[q], d)
               source == Source(group[q], d)
    <2>1. /\ group[q].before # None /\ group[q].after # None
          /\ ToSet(group[q].before.children) \cap f.plan = ToSet(group[q].after.children) \cap f.plan
        BY <1>6 DEF Mild
    <2>2. ToSet(source.children) \cap f.plan = ToSet(target.children) \cap f.plan
        BY <2>1 DEF Source, Target
    <2>3. ToSet(result[q].children) =
              (ToSet(ns[q].children) \ EdgeDelta(source.children, target.children))
                 \cup (ToSet(target.children) \ ToSet(source.children))
        BY <1>4, <1>6, <2>1, GroupMerges
    <2> HIDE DEF target, source, result
    <2>4. t \notin EdgeDelta(source.children, target.children)
        BY <2>2 DEF EdgeDelta
    <2> QED BY <1>2, <1>3, <2>3, <2>4
<1> QED BY <1>5, <1>6

\* What speaks of no task brings none back.
LEMMA UntouchedStaysAway ==
    ASSUME NEW f, NEW ns \in NodeMap, f.plan \cap DOMAIN ns = {},
           NEW group \in Group, f.plan \cap DOMAIN group = {}, NEW d \in Direction
    PROVE  f.plan \cap DOMAIN ApplyGroup(ns, group, d) = {}
BY GroupDomain

LEMMA BatchSnapshots ==
    ASSUME NEW f, NEW e, Batch(f, e), NEW n \in DOMAIN e.patch[1]
    PROVE  /\ SnapshotPlaced(f, n, e.patch[1][n].before)
           /\ SnapshotPlaced(f, n, e.patch[1][n].after)
BY DEF Batch, SnapshotPlaced

LEMMA BatchUndone ==
    ASSUME NEW f, NEW ns \in NodeMap, NEW e \in EntryType, Batch(f, e)
    PROVE  f.plan \cap DOMAIN ApplyGroup(ns, e.patch[1], "undo") = {}
<1> DEFINE group == e.patch[1]
<1>1. group \in Group /\ "undo" \in Direction
    BY OneGroup DEF Batch, Direction
<1> SUFFICES ASSUME NEW t \in f.plan, t \in DOMAIN ApplyGroup(ns, group, "undo")
             PROVE  FALSE
    OBVIOUS
<1>2. t \in DOMAIN group /\ group[t].before = None
    BY DEF Batch
<1> HIDE DEF group
<1>3. PICK node : node = ApplyGroup(ns, group, "undo")[t]
    OBVIOUS
<1>4. ChangedTo(node, ns, t, group[t], "undo")
    BY <1>1, <1>2, <1>3, GroupValue
<1> QED BY <1>2, <1>4 DEF ChangedTo, Target

LEMMA BatchRedone ==
    ASSUME NEW f, FrameOK(f), NEW ns \in NodeMap, Root \in DOMAIN ns, f.plan \cap DOMAIN ns = {},
           NEW e \in EntryType, Batch(f, e)
    PROVE  Standing(f, ApplyGroup(ns, e.patch[1], "redo"))
<1> DEFINE group == e.patch[1]
           result == ApplyGroup(ns, group, "redo")
<1>1. group \in Group /\ "redo" \in Direction /\ DOMAIN group = f.plan \cup {Root}
    BY OneGroup DEF Batch, Direction
<1>2. ASSUME NEW n \in f.plan \cup {Root}
      PROVE  n \in DOMAIN result /\ group[n].after # None /\ Target(group[n], "redo") = group[n].after
    <2>1. group[n].after # None
        BY DEF Batch
    <2>2. Target(group[n], "redo") = group[n].after
        BY DEF Target
    <2> QED BY <1>1, <2>1, <2>2, GroupLeaves
<1> SUFFICES ASSUME NEW t \in f.plan
             PROVE  t \in ToSet(result[f.home[t]].children)
    BY <1>2 DEF Standing
<1>3. PICK q \in f.plan \cup {Root} : q = f.home[t]
    BY DEF FrameOK
<1>4. t \in ToSet(group[q].after.children)
    BY <1>3 DEF Batch
<1>5. CASE q = Root
    <2>1. /\ group[q].before # None /\ group[q].after # None
          /\ t \notin ToSet(group[q].before.children)
        BY <1>5 DEF Batch
    <2>2. Source(group[q], "redo") = group[q].before /\ q \in DOMAIN ns \cap DOMAIN group
        BY <1>1, <1>5 DEF Source
    <2>3. Target(group[q], "redo") = group[q].after
        BY <1>2
    <2> HIDE DEF group
    <2>4. ToSet(result[q].children) =
              (ToSet(ns[q].children) \ EdgeDelta(Source(group[q], "redo").children,
                                                 Target(group[q], "redo").children))
                 \cup (ToSet(Target(group[q], "redo").children)
                          \ ToSet(Source(group[q], "redo").children))
        BY <1>1, <2>1, <2>2, GroupMerges
    <2> HIDE DEF result
    <2>5. t \in ToSet(result[q].children)
        BY <1>4, <2>1, <2>2, <2>3, <2>4
    <2> QED BY <1>3, <2>5
<1>6. CASE q # Root
    <2>1. q \in f.plan /\ q \notin DOMAIN ns /\ q \in DOMAIN group
        BY <1>1, <1>6
    <2>2. group[q] \in [before: Snapshot, after: Snapshot]
        BY <1>1, <2>1 DEF Group
    <2> HIDE DEF group
    <2>3. ChangedTo(result[q], ns, q, group[q], "redo")
        BY <1>1, <1>2, <2>1, GroupValue
    <2> HIDE DEF result
    <2>6. ChildrenFrom(result[q], ns, q, group[q], "redo")
        BY <1>1, <2>2, <2>3, ChangedChildren
    <2>4. result[q].children = Target(group[q], "redo").children
        BY <2>1, <2>6 DEF ChildrenFrom
    <2>5. t \in ToSet(result[q].children)
        BY <1>2, <1>4, <2>4
    <2> QED BY <1>3, <2>5
<1> QED BY <1>5, <1>6

\* An entry that is no batch is undone or redone while the tasks stand.
LEMMA PlainReplayed ==
    ASSUME NEW f, FrameOK(f), NEW ns \in NodeMap, AllPlaced(f, ns), Root \in DOMAIN ns,
           NEW e \in EntryType, Plain(f, e), NEW d \in Direction,
           NEW new, new = ApplyPatch(ns, e, d)
    PROVE  /\ AllPlaced(f, new)
           /\ Standing(f, ns) => Standing(f, new)
           /\ f.plan \cap DOMAIN ns = {} /\ ~Touches(f, e) => f.plan \cap DOMAIN new = {}
<1>1. e.patch[1] \in Group /\ new = ApplyGroup(ns, e.patch[1], d)
    BY OneGroup DEF Plain
<1>2. \A n \in DOMAIN e.patch[1] : Mild(f, n, e.patch[1][n])
    BY DEF Plain
<1>3. \A n \in DOMAIN e.patch[1] : /\ SnapshotPlaced(f, n, e.patch[1][n].before)
                                   /\ SnapshotPlaced(f, n, e.patch[1][n].after)
    BY <1>2 DEF Mild
<1>4. AllPlaced(f, new)
    BY <1>1, <1>3, GroupPlaced
<1>5. Standing(f, ns) => Standing(f, new)
    BY <1>1, <1>2, MildStands
<1>6. f.plan \cap DOMAIN ns = {} /\ ~Touches(f, e) => f.plan \cap DOMAIN new = {}
    BY <1>1, UntouchedStaysAway DEF Touches
<1> QED BY <1>4, <1>5, <1>6

LEMMA BatchReplayed ==
    ASSUME NEW f, FrameOK(f), NEW ns \in NodeMap, AllPlaced(f, ns), Root \in DOMAIN ns,
           NEW e \in EntryType, Batch(f, e)
    PROVE  /\ AllPlaced(f, ApplyPatch(ns, e, "undo")) /\ AllPlaced(f, ApplyPatch(ns, e, "redo"))
           /\ f.plan \cap DOMAIN ApplyPatch(ns, e, "undo") = {}
           /\ f.plan \cap DOMAIN ns = {} => Standing(f, ApplyPatch(ns, e, "redo"))
<1>1. "undo" \in Direction /\ "redo" \in Direction
    BY DEF Direction
<1>2. /\ e.patch[1] \in Group
      /\ ApplyPatch(ns, e, "undo") = ApplyGroup(ns, e.patch[1], "undo")
      /\ ApplyPatch(ns, e, "redo") = ApplyGroup(ns, e.patch[1], "redo")
    BY <1>1, OneGroup DEF Batch
<1>3. \A n \in DOMAIN e.patch[1] : /\ SnapshotPlaced(f, n, e.patch[1][n].before)
                                   /\ SnapshotPlaced(f, n, e.patch[1][n].after)
    BY BatchSnapshots
<1>4. \A d \in Direction : AllPlaced(f, ApplyGroup(ns, e.patch[1], d))
    BY <1>2, <1>3, GroupPlaced
<1> QED BY <1>1, <1>2, <1>4, BatchUndone, BatchRedone

-----------------------------------------------------------------------------
(* Edits that move nothing.                                                 *)

Alike(s2, s) == s2.parent = s.parent /\ s2.children = s.children /\ s2.task = s.task

Twin(s2, s) ==
    \/ s = None /\ s2 = None
    \/ s # None /\ s2 # None /\ Alike(s2, s)

TwinEntry(e2, e) ==
    /\ e2.nodeUndoable = e.nodeUndoable /\ e2.affected = e.affected
    /\ Len(e2.patch) = Len(e.patch)
    /\ Len(e.patch) = 1 =>
          /\ DOMAIN e2.patch[1] = DOMAIN e.patch[1]
          /\ \A n \in DOMAIN e.patch[1] : /\ Twin(e2.patch[1][n].before, e.patch[1][n].before)
                                          /\ Twin(e2.patch[1][n].after, e.patch[1][n].after)

Twins(new, old) == DOMAIN new = DOMAIN old /\ \A i \in DOMAIN old : TwinEntry(new[i], old[i])

AlikeTrees(ns2, ns) == DOMAIN ns2 = DOMAIN ns /\ \A n \in DOMAIN ns : Alike(ns2[n], ns[n])

LEMMA AlikePlaced ==
    ASSUME NEW f, NEW n, NEW s, NEW s2, Alike(s2, s), Placed(f, n, s)
    PROVE  Placed(f, n, s2)
BY DEF Alike, Placed

LEMMA TwinMild ==
    ASSUME NEW f, NEW n, NEW c, NEW c2, Twin(c2.before, c.before), Twin(c2.after, c.after),
           Mild(f, n, c)
    PROVE  Mild(f, n, c2)
<1>1. \A s, s2 : Twin(s2, s) /\ SnapshotPlaced(f, n, s) => SnapshotPlaced(f, n, s2)
    BY AlikePlaced DEF SnapshotPlaced, Twin
<1>2. /\ c.before # None => c2.before # None /\ c2.before.children = c.before.children
      /\ c.after # None => c2.after # None /\ c2.after.children = c.after.children
      /\ c2.before # None => c.before # None
      /\ c2.after # None => c.after # None
    BY DEF Twin, Alike
<1> QED BY <1>1, <1>2 DEF Mild

LEMMA TwinKnown ==
    ASSUME NEW f, FrameOK(f), NEW e, NEW e2, TwinEntry(e2, e), Plain(f, e) \/ Batch(f, e)
    PROVE  /\ Plain(f, e2) \/ Batch(f, e2)
           /\ Touches(f, e2) <=> Touches(f, e)
           /\ e2.nodeUndoable = e.nodeUndoable
<1>1. Len(e.patch) = 1
    BY DEF Plain, Batch
<1>2. /\ e2.nodeUndoable = e.nodeUndoable /\ e2.affected = e.affected /\ Len(e2.patch) = 1
      /\ DOMAIN e2.patch[1] = DOMAIN e.patch[1]
      /\ \A n \in DOMAIN e.patch[1] : /\ Twin(e2.patch[1][n].before, e.patch[1][n].before)
                                      /\ Twin(e2.patch[1][n].after, e.patch[1][n].after)
    BY <1>1 DEF TwinEntry
<1>3. Touches(f, e2) <=> Touches(f, e)
    BY <1>2 DEF Touches
<1>4. CASE Plain(f, e)
    <2>1. \A n \in DOMAIN e.patch[1] : Mild(f, n, e2.patch[1][n])
        BY <1>2, <1>4, TwinMild DEF Plain
    <2>2. Plain(f, e2)
        BY <1>2, <1>3, <1>4, <2>1 DEF Plain
    <2> QED BY <1>2, <1>3, <2>2
<1>5. CASE Batch(f, e)
    <2> DEFINE group == e.patch[1]
               group2 == e2.patch[1]
    <2>1. DOMAIN group = f.plan \cup {Root}
        BY <1>5 DEF Batch
    <2>2. ASSUME NEW n \in f.plan \cup {Root}
          PROVE  /\ group2[n].after # None /\ Placed(f, n, group2[n].after)
                 /\ group2[n].after.children = group[n].after.children
        <3>1. group[n].after # None /\ Placed(f, n, group[n].after)
            BY <1>5 DEF Batch
        <3>2. Twin(group2[n].after, group[n].after)
            BY <1>2, <2>1
        <3> HIDE DEF group, group2
        <3>3. group2[n].after # None /\ Alike(group2[n].after, group[n].after)
            BY <3>1, <3>2 DEF Twin
        <3> QED BY <3>1, <3>3, AlikePlaced DEF Alike
    <2>3. /\ group2[Root].before # None /\ Placed(f, Root, group2[Root].before)
          /\ group2[Root].before.children = group[Root].before.children
        <3>1. group[Root].before # None /\ Placed(f, Root, group[Root].before)
            BY <1>5 DEF Batch
        <3>2. Twin(group2[Root].before, group[Root].before)
            BY <1>2, <2>1
        <3> HIDE DEF group, group2
        <3>3. group2[Root].before # None /\ Alike(group2[Root].before, group[Root].before)
            BY <3>1, <3>2 DEF Twin
        <3> QED BY <3>1, <3>3, AlikePlaced DEF Alike
    <2>4. ASSUME NEW t \in f.plan
          PROVE  group2[t].before = None /\ t \in ToSet(group2[f.home[t]].after.children)
        <3>1. group[t].before = None /\ t \in ToSet(group[f.home[t]].after.children)
            BY <1>5 DEF Batch
        <3>2. Twin(group2[t].before, group[t].before)
            BY <1>2, <2>1
        <3>3. f.home[t] \in f.plan \cup {Root}
            BY DEF FrameOK
        <3> HIDE DEF group, group2
        <3> QED BY <2>2, <3>1, <3>2, <3>3 DEF Twin
    <2>5. Batch(f, e2)
        <3>1. /\ e.nodeUndoable = FALSE /\ f.plan # {} /\ e.affected = f.plan \cup {Root}
              /\ ToSet(group[Root].before.children) \cap f.plan = {}
            BY <1>5 DEF Batch
        <3> QED BY <1>2, <2>1, <2>2, <2>3, <2>4, <3>1 DEF Batch
    <2> QED BY <1>2, <1>3, <2>5
<1> QED BY <1>4, <1>5

LEMMA TwinsKnown ==
    ASSUME NEW f, FrameOK(f), NEW new, NEW old, Twins(new, old), AllKnown(f, old)
    PROVE  /\ AllKnown(f, new) /\ DOMAIN new = DOMAIN old
           /\ \A i \in DOMAIN old : /\ Touches(f, new[i]) <=> Touches(f, old[i])
                                    /\ new[i].nodeUndoable = old[i].nodeUndoable
BY TwinKnown DEF Twins, AllKnown

\* The situation is the same for a tree and a history that are alike.
LEMMA AlikePlotted ==
    ASSUME NEW f, NEW ns, NEW before, NEW after, NEW panel, NEW ids, NEW busy,
           Plotted(f, ns, before, after, panel, ids, busy),
           Root \in DOMAIN ns, NEW ns2, AlikeTrees(ns2, ns), NEW before2, Twins(before2, before),
           NEW after2, Twins(after2, after), NEW busy2, busy2 \subseteq busy
    PROVE  Plotted(f, ns2, before2, after2, panel, ids, busy2)
<1>1. /\ FrameOK(f) /\ f.ids = ids /\ AllPlaced(f, ns) /\ AllKnown(f, before)
      /\ AllKnown(f, after) /\ busy \subseteq f.ids \ f.plan
    BY DEF Plotted
<1>2. /\ AllKnown(f, before2) /\ DOMAIN before2 = DOMAIN before
      /\ \A i \in DOMAIN before : /\ Touches(f, before2[i]) <=> Touches(f, before[i])
                                  /\ before2[i].nodeUndoable = before[i].nodeUndoable
    BY <1>1, TwinsKnown
<1>3. /\ AllKnown(f, after2) /\ DOMAIN after2 = DOMAIN after
      /\ \A i \in DOMAIN after : /\ Touches(f, after2[i]) <=> Touches(f, after[i])
                                 /\ after2[i].nodeUndoable = after[i].nodeUndoable
    BY <1>1, TwinsKnown
<1>4. AllPlaced(f, ns2)
    BY <1>1, AlikePlaced DEF AlikeTrees, AllPlaced
<1>5. CASE Planned(f, ns, before, after)
    <2>1. Standing(f, ns) => Standing(f, ns2)
        <3> SUFFICES ASSUME Standing(f, ns), NEW t \in f.plan
                     PROVE  t \in DOMAIN ns2 /\ t \in ToSet(ns2[f.home[t]].children)
            BY DEF Standing
        <3>1. t \in DOMAIN ns /\ t \in ToSet(ns[f.home[t]].children)
            BY DEF Standing
        <3>2. f.home[t] \in DOMAIN ns
            BY <1>1 DEF FrameOK, Standing
        <3> QED BY <3>1, <3>2 DEF AlikeTrees, Alike
    <2>2. InTurn(f, before2)
        BY <1>2, <1>5 DEF Planned, InTurn
    <2>3. \A j \in DOMAIN after2 : after2[j].nodeUndoable
        BY <1>3, <1>5 DEF Planned
    <2>4. Planned(f, ns2, before2, after2)
        BY <1>5, <2>1, <2>2, <2>3 DEF Planned
    <2> QED BY <1>1, <1>2, <1>3, <1>4, <2>4 DEF Plotted
<1>6. CASE Withdrawn(f, ns, before, after, panel)
    <2>1. Gone(f, ns2, before2, panel)
        BY <1>2, <1>6 DEF Withdrawn, Gone, AlikeTrees
    <2>2. PICK k \in DOMAIN after : Leads(f, after, k)
        BY <1>6 DEF Withdrawn
    <2>3. Leads(f, after2, k)
        BY <1>3, <2>2 DEF Leads
    <2>4. Withdrawn(f, ns2, before2, after2, panel)
        BY <1>3, <2>1, <2>2, <2>3 DEF Withdrawn
    <2> QED BY <1>1, <1>2, <1>3, <1>4, <2>4 DEF Plotted
<1> QED BY <1>5, <1>6 DEF Plotted

LEMMA SameTwins ==
    ASSUME NEW S, NEW s \in Seq(S)
    PROVE  Twins(s, s)
BY DEF Twins, TwinEntry, Twin, Alike

LEMMA SyncedLeaf ==
    ASSUME NEW s \in Node, NEW included \in BOOLEAN
    PROVE  Twin(SyncLeaf(s, included), s)
<1>1. SyncLeaf(s, included) \in Node /\ Alike(SyncLeaf(s, included), s)
    BY DEF SyncLeaf, Node, Alike
<1> QED BY <1>1, NoneAssumption DEF Twin

LEMMA SyncedCard ==
    ASSUME NEW s \in Node, NEW parent
    PROVE  Twin(SyncCard(s, parent), s)
<1>1. SyncCard(s, parent) \in Node /\ Alike(SyncCard(s, parent), s)
    BY DEF SyncCard, Node, Alike
<1> QED BY <1>1, NoneAssumption DEF Twin

TwinGroup(new, group) ==
    /\ DOMAIN new = DOMAIN group
    /\ \A n \in DOMAIN group : /\ Twin(new[n].before, group[n].before)
                               /\ Twin(new[n].after, group[n].after)

LEMMA TwinOfGroup ==
    ASSUME NEW group \in Group, NEW n, NEW b, NEW a,
           n \in DOMAIN group => Twin(b, group[n].before) /\ Twin(a, group[n].after),
           NEW new, new = IF n \in DOMAIN group THEN [group EXCEPT ![n] = Change(b, a)] ELSE group
    PROVE  TwinGroup(new, group)
<1>1. group = [m \in DOMAIN group |-> group[m]]
    BY DEF Group
<1>2. DOMAIN new = DOMAIN group
    BY <1>1
<1>3. ASSUME NEW m \in DOMAIN group
      PROVE  Twin(new[m].before, group[m].before) /\ Twin(new[m].after, group[m].after)
    <2>1. CASE m = n
        <3>1. new[m] = Change(b, a)
            BY <1>1, <2>1
        <3> QED BY <2>1, <3>1 DEF Change
    <2>2. CASE m # n
        <3>1. new[m] = group[m]
            BY <1>1, <2>2
        <3> QED BY <3>1 DEF Twin, Alike
    <2> QED BY <2>1, <2>2
<1> QED BY <1>2, <1>3 DEF TwinGroup

LEMMA TwinOfPatch ==
    ASSUME NEW e \in EntryType, NEW patch, patch = [g \in DOMAIN e.patch |-> patch[g]],
           \A g \in DOMAIN e.patch : TwinGroup(patch[g], e.patch[g])
    PROVE  TwinEntry([e EXCEPT !.patch = patch], e)
<1> DEFINE e2 == [e EXCEPT !.patch = patch]
<1>1. /\ e2.patch = patch /\ e2.nodeUndoable = e.nodeUndoable /\ e2.affected = e.affected
      /\ e.patch \in Seq(Group)
    BY DEF EntryType
<1>2. Len(patch) = Len(e.patch)
    BY <1>1, RewrittenLength
<1>3. Len(e.patch) = 1 => TwinGroup(patch[1], e.patch[1])
    <2>1. Len(e.patch) = 1 => 1 \in DOMAIN e.patch
        BY <1>1
    <2> QED BY <2>1
<1> HIDE DEF e2
<1>4. TwinEntry(e2, e)
    BY <1>1, <1>2, <1>3 DEF TwinEntry, TwinGroup
<1> QED BY <1>4 DEF e2

\* The sides hold changes of nodes.
LEMMA GroupsOf ==
    ASSUME NEW old \in Seq(EntryType), NEW i \in DOMAIN old
    PROVE  /\ old[i] \in EntryType
           /\ \A g \in DOMAIN old[i].patch :
                 /\ old[i].patch[g] \in Group
                 /\ \A n \in DOMAIN old[i].patch[g] :
                       /\ old[i].patch[g][n].before \in Snapshot
                       /\ old[i].patch[g][n].after \in Snapshot
<1>1. old[i] \in EntryType
    BY ElementOfSeq, LenProperties
<1>2. old[i].patch \in Seq(Group)
    BY <1>1 DEF EntryType
<1>3. ASSUME NEW g \in DOMAIN old[i].patch
      PROVE  old[i].patch[g] \in Group
    BY <1>2, <1>3, ElementOfSeq, LenProperties
<1>4. ASSUME NEW group \in Group, NEW n \in DOMAIN group
      PROVE  group[n].before \in Snapshot /\ group[n].after \in Snapshot
    <2>1. group[n] \in [before: Snapshot, after: Snapshot]
        BY DEF Group
    <2> QED BY <2>1
<1> QED BY <1>1, <1>3, <1>4

LEMMA LeavesAlike ==
    ASSUME NEW old \in Seq(EntryType), NEW n, NEW included \in BOOLEAN,
           NEW new, new = LeavesRewritten(old, n, included)
    PROVE  Twins(new, old)
<1> DEFINE sync(s) == IF s = None THEN None ELSE SyncLeaf(s, included)
           synced(group) ==
               IF n \in DOMAIN group
               THEN [group EXCEPT ![n] = Change(sync(@.before), sync(@.after))]
               ELSE group
           patch(i) == [g \in DOMAIN old[i].patch |-> synced(old[i].patch[g])]
<1>1. /\ DOMAIN new = DOMAIN old
      /\ \A i \in DOMAIN old : new[i] = [old[i] EXCEPT !.patch = patch(i)]
    <2>1. \A i \in DOMAIN old : old[i] \in EntryType
        BY GroupsOf
    <2> QED BY <2>1 DEF Rewrite, EntryType, LeavesRewritten
<1>2. ASSUME NEW s \in Snapshot
      PROVE  Twin(sync(s), s)
    BY SyncedLeaf DEF Snapshot, Twin
<1>3. ASSUME NEW i \in DOMAIN old
      PROVE  TwinEntry(new[i], old[i])
    <2>1. ASSUME NEW g \in DOMAIN old[i].patch
          PROVE  TwinGroup(patch(i)[g], old[i].patch[g])
        <3> DEFINE group == old[i].patch[g]
        <3>1. /\ group \in Group
              /\ n \in DOMAIN group => /\ group[n].before \in Snapshot
                                       /\ group[n].after \in Snapshot
            BY GroupsOf
        <3>2. patch(i)[g] = IF n \in DOMAIN group
                            THEN [group EXCEPT ![n] = Change(sync(group[n].before), sync(group[n].after))]
                            ELSE group
            OBVIOUS
        <3>3. PICK b, a : b = sync(group[n].before) /\ a = sync(group[n].after)
            OBVIOUS
        <3>4. PICK new2 : new2 = patch(i)[g]
            OBVIOUS
        <3> HIDE DEF sync, synced, patch, group
        <3>5. TwinGroup(new2, group)
            BY <1>2, <3>1, <3>2, <3>3, <3>4, TwinOfGroup
        <3> QED BY <3>4, <3>5 DEF group
    <2>2. PICK p : p = patch(i)
        OBVIOUS
    <2>3. p = [g \in DOMAIN old[i].patch |-> p[g]]
        BY <2>2
    <2>4. new[i] = [old[i] EXCEPT !.patch = p] /\ old[i] \in EntryType
        BY <1>1, <2>2, GroupsOf
    <2> HIDE DEF patch, synced, sync
    <2>5. TwinEntry([old[i] EXCEPT !.patch = p], old[i])
        BY <2>1, <2>2, <2>3, <2>4, TwinOfPatch
    <2> QED BY <2>4, <2>5
<1> QED BY <1>1, <1>3 DEF Twins

LEMMA CardsAlike ==
    ASSUME NEW old \in Seq(EntryType), NEW n, NEW parent,
           NEW new, new = CardsRewritten(old, n, parent)
    PROVE  Twins(new, old)
<1> DEFINE sync(s) == IF s = None THEN None ELSE SyncCard(s, parent)
           synced(group) ==
               IF n \in DOMAIN group
               THEN [group EXCEPT ![n] = Change(sync(@.before), sync(@.after))]
               ELSE group
           patch(i) == [g \in DOMAIN old[i].patch |-> synced(old[i].patch[g])]
<1>1. /\ DOMAIN new = DOMAIN old
      /\ \A i \in DOMAIN old : new[i] = [old[i] EXCEPT !.patch = patch(i)]
    <2>1. \A i \in DOMAIN old : old[i] \in EntryType
        BY GroupsOf
    <2> QED BY <2>1 DEF Rewrite, EntryType, CardsRewritten
<1>2. ASSUME NEW s \in Snapshot
      PROVE  Twin(sync(s), s)
    BY SyncedCard DEF Snapshot, Twin
<1>3. ASSUME NEW i \in DOMAIN old
      PROVE  TwinEntry(new[i], old[i])
    <2>1. ASSUME NEW g \in DOMAIN old[i].patch
          PROVE  TwinGroup(patch(i)[g], old[i].patch[g])
        <3> DEFINE group == old[i].patch[g]
        <3>1. /\ group \in Group
              /\ n \in DOMAIN group => /\ group[n].before \in Snapshot
                                       /\ group[n].after \in Snapshot
            BY GroupsOf
        <3>2. patch(i)[g] = IF n \in DOMAIN group
                            THEN [group EXCEPT ![n] = Change(sync(group[n].before), sync(group[n].after))]
                            ELSE group
            OBVIOUS
        <3>3. PICK b, a : b = sync(group[n].before) /\ a = sync(group[n].after)
            OBVIOUS
        <3>4. PICK new2 : new2 = patch(i)[g]
            OBVIOUS
        <3> HIDE DEF sync, synced, patch, group
        <3>5. TwinGroup(new2, group)
            BY <1>2, <3>1, <3>2, <3>3, <3>4, TwinOfGroup
        <3> QED BY <3>4, <3>5 DEF group
    <2>2. PICK p : p = patch(i)
        OBVIOUS
    <2>3. p = [g \in DOMAIN old[i].patch |-> p[g]]
        BY <2>2
    <2>4. new[i] = [old[i] EXCEPT !.patch = p] /\ old[i] \in EntryType
        BY <1>1, <2>2, GroupsOf
    <2> HIDE DEF patch, synced, sync
    <2>5. TwinEntry([old[i] EXCEPT !.patch = p], old[i])
        BY <2>1, <2>2, <2>3, <2>4, TwinOfPatch
    <2> QED BY <2>4, <2>5
<1> QED BY <1>1, <1>3 DEF Twins

-----------------------------------------------------------------------------
(* The steps of the plot.                                                   *)

LEMMA RootThere ==
    ASSUME TreeInv
    PROVE  Root \in DOMAIN nodes
BY DEF TreeInv, StoryOK, NodesOK

LEMMA NearDrawn ==
    ASSUME NEW f, FrameOK(f)
    PROVE  /\ f.ids \subseteq NodeId /\ Near(f) \subseteq f.ids /\ None \notin Near(f)
           /\ Root \notin f.ids /\ f.home \in [AnyId -> AnyId \cup {None}]
           /\ f.plan \subseteq f.ids
<1>1. f.ids \subseteq NodeId /\ f.plan \subseteq f.ids /\ f.home \in [AnyId -> AnyId \cup {None}]
    BY DEF FrameOK, Frame
<1> QED BY <1>1, EditsAssumption DEF Near

\* Node n is drawn below parent.
GrownFrame(f, n, parent) ==
    [home |-> [f.home EXCEPT ![n] = parent], plan |-> f.plan, ids |-> f.ids \cup {n}]

LEMMA GrownFrameIs ==
    ASSUME NEW f, FrameOK(f), NEW n \in NodeId \ f.ids, NEW parent \in AnyId,
           NEW f2, f2 = GrownFrame(f, n, parent)
    PROVE  /\ FrameOK(f2) /\ FrameGrows(f2, f) /\ f2.plan = f.plan /\ n \notin f.plan
           /\ f2.ids = f.ids \cup {n} /\ f2.home[n] = parent
<1>1. /\ f2.plan = f.plan /\ f2.ids = f.ids \cup {n}
      /\ f2.home = [f.home EXCEPT ![n] = parent]
    BY DEF GrownFrame
<1>2. /\ f.home \in [AnyId -> AnyId \cup {None}] /\ f.ids \subseteq NodeId
      /\ f.plan \subseteq f.ids /\ Root \notin NodeId /\ n \in AnyId
    BY EditsAssumption DEF FrameOK, Frame, AnyId
<1>3. /\ f2.home \in [AnyId -> AnyId \cup {None}] /\ f2.home[n] = parent
      /\ \A m \in AnyId \ {n} : f2.home[m] = f.home[m]
    BY <1>1, <1>2
<1>4. FrameGrows(f2, f)
    <2>1. ASSUME NEW m \in f.ids \cup {Root}
          PROVE  f2.home[m] = f.home[m]
        BY <1>2, <1>3 DEF AnyId
    <2> QED BY <1>1, <2>1 DEF FrameGrows
<1>5. f2 \in Frame
    BY <1>1, <1>2, <1>3 DEF GrownFrame, Frame
<1>6. FrameOK(f2)
    <2>1. f2.home[Root] = None
        BY <1>4 DEF FrameGrows, FrameOK
    <2>2. \A t \in f2.plan : f2.home[t] \in f2.plan \cup {Root}
        BY <1>1, <1>2, <1>4 DEF FrameGrows, FrameOK
    <2> QED BY <1>1, <1>2, <1>5, <2>1, <2>2 DEF FrameOK
<1> QED BY <1>1, <1>2, <1>3, <1>4, <1>6

\* A node without children that is no task.
Newborn(node, parent) == node.parent = parent /\ node.children = <<>> /\ node.task = FALSE

\* What is known once n is there.
Born(f2, ns2, ns, n, parent, node) ==
    /\ Placed(f2, n, node) /\ Placed(f2, parent, ns[parent])
    /\ Placed(f2, parent, WithChild(ns[parent], n))
    /\ DOMAIN ns2 = DOMAIN ns \cup {n}

\* A node drawn below one that is there.
LEMMA BornPlotted ==
    ASSUME NEW f, NEW ns \in NodeMap, Root \in DOMAIN ns, NEW before, NEW after, NEW panel, NEW ids, NEW busy,
           Plotted(f, ns, before, after, panel, ids, busy),
           NEW n \in NodeId \ ids, NEW parent \in DOMAIN ns, parent \in AnyId,
           NEW node, Newborn(node, parent),
           NEW f2, f2 = GrownFrame(f, n, parent),
           NEW ns2, ns2 = Grown(ns, n, parent, node)
    PROVE  /\ Plotted(f2, ns2, before, after, panel, ids \cup {n}, busy)
           /\ Born(f2, ns2, ns, n, parent, node)
<1>1. /\ FrameOK(f) /\ f.ids = ids /\ AllPlaced(f, ns) /\ AllKnown(f, before)
      /\ AllKnown(f, after) /\ busy \subseteq f.ids \ f.plan
    BY DEF Plotted
<1>2. /\ FrameOK(f2) /\ FrameGrows(f2, f) /\ f2.plan = f.plan /\ n \notin f.plan
      /\ f2.ids = ids \cup {n} /\ f2.home[n] = parent
    BY <1>1, GrownFrameIs
<1>3. AllKnown(f2, before) /\ AllKnown(f2, after)
    BY <1>1, <1>2, AllKnownGrow
<1>4. AllPlaced(f2, ns)
    BY <1>1, <1>2, AllPlacedGrow
<1>5. Placed(f2, n, node)
    BY <1>2 DEF Placed, ToSet, Newborn
<1>6. Placed(f, parent, ns[parent]) /\ Placed(f2, parent, ns[parent])
    BY <1>1, <1>4 DEF AllPlaced
<1>7. n # parent
    BY <1>1, <1>6, EditsAssumption DEF Placed
<1> DEFINE more == WithChild(ns[parent], n)
<1>8. /\ more.children = Append(ns[parent].children, n)
      /\ more.parent = ns[parent].parent /\ more.task = ns[parent].task
      /\ ToSet(more.children) = ToSet(ns[parent].children) \cup {n}
    <2>1. ns[parent] \in Node
        BY DEF NodeMap
    <2>2. n \in AnyId /\ ns[parent].children \in Seq(AnyId)
        BY <2>1, NodeFields DEF AnyId
    <2> QED BY <2>1, <2>2, ElementsOfAppend DEF WithChild, Node
<1> HIDE DEF more
<1>9. Placed(f2, parent, more)
    BY <1>2, <1>6, <1>8 DEF Placed
<1>10. /\ DOMAIN ns2 = DOMAIN ns \cup {n} /\ ns2[n] = node /\ ns2[parent] = more
       /\ \A m \in DOMAIN ns \ {n, parent} : ns2[m] = ns[m]
    <2> DEFINE new == [x \in {parent, n} |-> IF x = n THEN node ELSE more]
    <2>1. ns2 = Override(ns, new)
        BY DEF Grown, more
    <2>2. DOMAIN new = {parent, n} /\ new[n] = node /\ new[parent] = more
        BY <1>7
    <2> HIDE DEF new
    <2>3. /\ DOMAIN ns2 = DOMAIN ns \cup DOMAIN new
          /\ \A m \in DOMAIN new : ns2[m] = new[m]
          /\ \A m \in DOMAIN ns \ DOMAIN new : ns2[m] = ns[m]
        <3>1. /\ DOMAIN Override(ns, new) = DOMAIN ns \cup DOMAIN new
              /\ \A m \in DOMAIN new : Override(ns, new)[m] = new[m]
              /\ \A m \in DOMAIN ns \ DOMAIN new : Override(ns, new)[m] = ns[m]
            BY OverrideIs
        <3> QED BY <2>1, <3>1
    <2>4. DOMAIN ns2 = DOMAIN ns \cup {n}
        BY <2>2, <2>3
    <2>5. ns2[n] = node /\ ns2[parent] = more
        BY <2>2, <2>3
    <2>6. \A m \in DOMAIN ns \ {n, parent} : ns2[m] = ns[m]
        BY <2>2, <2>3
    <2> QED BY <2>4, <2>5, <2>6
<1>11. AllPlaced(f2, ns2)
    BY <1>4, <1>5, <1>9, <1>10 DEF AllPlaced
<1>12. CASE Planned(f, ns, before, after)
    <2>1. Standing(f2, ns2)
        <3> SUFFICES ASSUME NEW t \in f.plan
                     PROVE  t \in DOMAIN ns2 /\ t \in ToSet(ns2[f2.home[t]].children)
            BY <1>2 DEF Standing
        <3>1. /\ t \in DOMAIN ns /\ t \in ToSet(ns[f.home[t]].children)
              /\ f.home[t] \in f.plan \cup {Root} /\ f.plan \subseteq DOMAIN ns
            BY <1>1, <1>12 DEF Planned, Standing, FrameOK
        <3>2. f2.home[t] = f.home[t]
            BY <1>1, <1>2 DEF FrameGrows, FrameOK
        <3>3. f.home[t] # n /\ f.home[t] \in DOMAIN ns
            BY <1>2, <3>1, EditsAssumption
        <3>4. CASE f.home[t] = parent
            BY <1>8, <1>10, <3>1, <3>2, <3>4
        <3>5. CASE f.home[t] # parent
            BY <1>10, <3>1, <3>2, <3>3, <3>5
        <3> QED BY <1>10, <3>1, <3>4, <3>5
    <2>2. InTurn(f2, before)
        BY <1>2, <1>12, TouchesSame DEF Planned, InTurn
    <2>3. Planned(f2, ns2, before, after)
        BY <1>12, <2>1, <2>2 DEF Planned
    <2> QED BY <1>1, <1>2, <1>3, <1>5, <1>6, <1>7, <1>9, <1>10, <1>11, <2>3 DEF Plotted, Born, more
<1>13. CASE Withdrawn(f, ns, before, after, panel)
    <2>1. Near(f2) \subseteq Near(f)
        <3> SUFFICES ASSUME NEW m \in Near(f2), m \notin f.plan
                     PROVE  m \in Near(f)
            BY DEF Near
        <3>1. m \in f2.ids /\ f2.home[m] \in f.plan
            BY <1>2 DEF Near
        <3>2. m # n
            BY <1>2, <1>13, <3>1 DEF Withdrawn, Gone
        <3>3. m \in f.ids /\ f2.home[m] = f.home[m]
            BY <1>1, <1>2, <3>1, <3>2 DEF FrameGrows
        <3> QED BY <3>1, <3>3 DEF Near
    <2>2. Gone(f2, ns2, before, panel)
        <3>1. \A i \in DOMAIN before : ~Touches(f2, before[i])
            BY <1>2, <1>13, TouchesSame DEF Withdrawn, Gone
        <3> QED BY <1>2, <1>10, <1>13, <2>1, <3>1 DEF Withdrawn, Gone
    <2>3. \E k \in DOMAIN after : Leads(f2, after, k)
        BY <1>2, <1>13, TouchesSame DEF Withdrawn, Leads
    <2>4. Withdrawn(f2, ns2, before, after, panel)
        BY <2>2, <2>3 DEF Withdrawn
    <2> QED BY <1>1, <1>2, <1>3, <1>5, <1>6, <1>7, <1>9, <1>10, <1>11, <2>4 DEF Plotted, Born, more
<1> QED BY <1>12, <1>13 DEF Plotted

\* The busy nodes change.
LEMMA BusyPlotted ==
    ASSUME NEW f, NEW ns, NEW before, NEW after, NEW panel, NEW ids, NEW busy,
           Plotted(f, ns, before, after, panel, ids, busy),
           NEW busy2, busy2 \subseteq f.ids \ f.plan
    PROVE  Plotted(f, ns, before, after, panel, ids, busy2)
BY DEF Plotted

\* Once nothing is left to redo, tasks that are gone are gone for good.
LEMMA ForgetGone ==
    ASSUME NEW f, FrameOK(f), NEW ns, AllPlaced(f, ns), NEW before, AllKnown(f, before),
           NEW panel, Gone(f, ns, before, panel)
    PROVE  AllPlaced(Forgotten(f), ns) /\ AllKnown(Forgotten(f), before)
<1>1. AllPlaced(Forgotten(f), ns)
    <2> SUFFICES ASSUME NEW n \in DOMAIN ns
                 PROVE  Placed(Forgotten(f), n, ns[n])
        BY DEF AllPlaced
    <2>1. n \notin f.plan /\ Placed(f, n, ns[n])
        BY DEF Gone, AllPlaced
    <2> QED BY <2>1, ForgottenPlaced
<1>2. AllKnown(Forgotten(f), before)
    BY ForgottenPlain DEF AllKnown, Gone
<1> QED BY <1>1, <1>2

\* A session without tasks.
LEMMA NoTasksPlotted ==
    ASSUME NEW f, FrameOK(f), f.plan = {}, NEW ns, AllPlaced(f, ns), NEW before,
           AllKnown(f, before), NEW panel, NEW busy, busy \subseteq f.ids
    PROVE  Plotted(f, ns, before, <<>>, panel, f.ids, busy)
<1>1. Standing(f, ns) /\ InTurn(f, before) /\ AllKnown(f, <<>>)
    BY DEF Standing, InTurn, Touches, AllKnown
<1>2. Planned(f, ns, before, <<>>)
    BY <1>1 DEF Planned
<1> QED BY <1>1, <1>2 DEF Plotted

LEMMA EmptyKnown ==
    ASSUME NEW f
    PROVE  AllKnown(f, <<>>) /\ InTurn(f, <<>>) /\ \A j \in DOMAIN <<>> : <<>>[j].nodeUndoable
BY DEF AllKnown, InTurn

\* The history starts again.
LEMMA EmptiedPlotted ==
    ASSUME NEW f, NEW ns, NEW before, NEW after, NEW panel, NEW ids, NEW busy,
           Plotted(f, ns, before, after, panel, ids, busy), NEW panel2
    PROVE  Plot(ns, <<>>, <<>>, panel2, ids, {})
<1>1. /\ FrameOK(f) /\ f.ids = ids /\ AllPlaced(f, ns) /\ AllKnown(f, before)
      /\ AllKnown(f, <<>>)
    BY EmptyKnown DEF Plotted
<1>2. CASE Planned(f, ns, before, after)
    <2>1. Planned(f, ns, <<>>, <<>>)
        BY <1>2, EmptyKnown DEF Planned
    <2>2. Plotted(f, ns, <<>>, <<>>, panel2, ids, {})
        BY <1>1, <2>1 DEF Plotted
    <2> QED BY <2>2 DEF Plot
<1>3. CASE Withdrawn(f, ns, before, after, panel)
    <2>1. AllPlaced(Forgotten(f), ns)
        BY <1>1, <1>3, ForgetGone DEF Withdrawn
    <2>2. Plotted(Forgotten(f), ns, <<>>, <<>>, panel2, ids, {})
        BY <1>1, <2>1, ForgottenIs, NoTasksPlotted, EmptyKnown
    <2> QED BY <2>2 DEF Plot
<1> QED BY <1>2, <1>3 DEF Plotted

\* An entry about nodes that are there is entered in the history.
LEMMA PushedPlotted ==
    ASSUME NEW S, NEW before \in Seq(S), session.entries \in Nat \ {0},
           NEW f, NEW ns, NEW after, NEW panel, NEW ids, NEW busy,
           Plotted(f, ns, before, after, panel, ids, busy),
           NEW e, Plain(f, e), DOMAIN e.patch[1] \subseteq DOMAIN ns,
           NEW before2, before2 = Capped(Append(before, e))
    PROVE  Plot(ns, before2, <<>>, panel, ids, busy)
<1>1. /\ FrameOK(f) /\ f.ids = ids /\ AllPlaced(f, ns) /\ AllKnown(f, before)
      /\ busy \subseteq f.ids \ f.plan
    BY DEF Plotted
<1>2. CASE Planned(f, ns, before, after)
    <2>1. AllKnown(f, before2)
        BY <1>1, PushedKnown
    <2>2. InTurn(f, before2)
        BY <1>2, PushedInTurn DEF Planned, Plain
    <2>3. Planned(f, ns, before2, <<>>)
        BY <1>2, <2>2, EmptyKnown DEF Planned
    <2>4. Plotted(f, ns, before2, <<>>, panel, ids, busy)
        BY <1>1, <2>1, <2>3, EmptyKnown DEF Plotted
    <2> QED BY <2>4 DEF Plot
<1>3. CASE Withdrawn(f, ns, before, after, panel)
    <2>1. PICK f2 : f2 = Forgotten(f)
        OBVIOUS
    <2>2. AllPlaced(f2, ns) /\ AllKnown(f2, before)
        BY <1>1, <1>3, <2>1, ForgetGone DEF Withdrawn
    <2>3. FrameOK(f2) /\ f2.plan = {} /\ f2.ids = ids
        BY <1>1, <2>1, ForgottenIs
    <2>4. ~Touches(f, e)
        BY <1>3 DEF Withdrawn, Gone, Touches
    <2>5. Plain(f2, e)
        BY <1>1, <2>1, <2>4, ForgottenPlain
    <2>6. AllKnown(f2, before2)
        BY <2>2, <2>5, PushedKnown
    <2>7. Plotted(f2, ns, before2, <<>>, panel, ids, busy)
        BY <1>1, <2>2, <2>3, <2>6, NoTasksPlotted
    <2> QED BY <2>7 DEF Plot
<1> QED BY <1>2, <1>3 DEF Plotted

\* The snapshots b and a of a parent, which list the same tasks.
Parental(f, parent, b, a) ==
    /\ Placed(f, parent, b) /\ Placed(f, parent, a) /\ b # None /\ a # None
    /\ ToSet(b.children) \cap f.plan = ToSet(a.children) \cap f.plan

\* The entry of an answer or a note.
LEMMA CreationPlain ==
    ASSUME NEW f, FrameOK(f), NEW n \in f.ids \ f.plan, NEW parent, NEW node, Placed(f, n, node),
           NEW b, NEW a, Parental(f, parent, b, a),
           NEW affected, parent \in f.plan => affected \subseteq Near(f),
           NEW e, e = Entry(n, affected, Creation(n, parent, b, a, node))
    PROVE  Plain(f, e) /\ DOMAIN e.patch[1] = {parent, n}
<1> DEFINE group == [x \in {parent, n} |-> IF x = n THEN Change(None, node) ELSE Change(b, a)]
<1>1. e.patch = <<group>> /\ e.nodeUndoable = TRUE /\ e.affected = affected
    BY DEF Entry, Creation
<1>2. Len(e.patch) = 1 /\ e.patch[1] = group
    BY <1>1
<1>3. DOMAIN group = {parent, n}
    OBVIOUS
<1>4. ASSUME NEW x \in {parent, n}
      PROVE  Mild(f, x, group[x])
    <2>1. CASE x = n
        <3>1. group[x] = Change(None, node)
            BY <2>1
        <3>2. x \notin f.plan \cup {Root} /\ x \in f.ids
            BY <2>1, NearDrawn
        <3> HIDE DEF group
        <3> QED BY <2>1, <3>1, <3>2 DEF Mild, SnapshotPlaced, Change
    <2>2. CASE x # n
        <3>1. group[x] = Change(b, a) /\ x = parent
            BY <2>2
        <3>2. x \in f.ids \cup {Root}
            BY <3>1 DEF Placed, Parental
        <3> HIDE DEF group
        <3> QED BY <3>1, <3>2 DEF Mild, SnapshotPlaced, Change, Parental
    <2> QED BY <2>1, <2>2
<1> HIDE DEF group
<1>5. Touches(f, e) => affected \subseteq Near(f)
    <2>1. Touches(f, e) => parent \in f.plan
        BY <1>2, <1>3 DEF Touches
    <2> QED BY <2>1
<1> QED BY <1>1, <1>2, <1>3, <1>4, <1>5 DEF Plain

-----------------------------------------------------------------------------
(* The situation, which every step keeps.                                   *)

Situation(f) == Plotted(f, nodes, past, future, focus, DOMAIN origin, Busy)

LEMMA SituationIs ==
    ASSUME TreeInv, NEW f, Situation(f)
    PROVE  /\ FrameOK(f) /\ f.ids = DOMAIN origin /\ AllPlaced(f, nodes)
           /\ Busy \subseteq f.ids \ f.plan /\ f.ids \subseteq NodeId
           /\ Root \in DOMAIN nodes /\ nodes \in NodeMap
           /\ past \in Seq(EntryType) /\ future \in Seq(EntryType)
           /\ session.entries \in Nat \ {0}
BY HistorySides, TreeNodes, RootThere DEF Situation, Plotted, TreeInv, VarsOK

LEMMA StartBranchPlot ==
    ASSUME TreeInv, NEW f, Situation(f), NEW n \in NodeId, NEW at \in AnyId, StartBranch(n, at)
    PROVE  Plot(nodes', past', future', focus', DOMAIN origin', Busy')
<1> DEFINE ids == DOMAIN origin
<1>1. PICK parent : parent = Anchor(nodes, at)
    OBVIOUS
<1>2. PICK node : node = NewNode("branch", parent, "streaming")
    OBVIOUS
<1>3. /\ n \notin ids /\ at \in DOMAIN nodes
      /\ nodes' = Grown(nodes, n, parent, node)
      /\ open' = open \cup {<<n, parent>>} /\ DOMAIN origin' = ids \cup {n}
      /\ UNCHANGED <<focus, past, future, retryable>>
    BY <1>1, <1>2, BornIs DEF StartBranch, Fresh, Grown
<1>4. parent \in DOMAIN nodes /\ parent \in AnyId
    BY <1>1, <1>3, SituationIs, AnchorKnown, TreeNodes
<1>5. Newborn(node, parent)
    BY <1>2 DEF NewNode, Newborn
<1>6. PICK f2 : f2 = GrownFrame(f, n, parent)
    OBVIOUS
<1>7. /\ FrameOK(f2) /\ f2.plan = f.plan /\ n \notin f.plan /\ f2.ids = ids \cup {n}
    BY <1>3, <1>4, <1>6, SituationIs, GrownFrameIs
<1>8. PICK ns2 : ns2 = nodes'
    OBVIOUS
<1>9. Plotted(f2, ns2, past, future, focus, ids \cup {n}, Busy)
    <2>1. Plotted(f, nodes, past, future, focus, ids, Busy)
        BY DEF Situation
    <2>2. nodes \in NodeMap /\ Root \in DOMAIN nodes /\ n \in NodeId \ ids
        BY <1>3, SituationIs
    <2>3. ns2 = Grown(nodes, n, parent, node)
        BY <1>3, <1>8
    <2> HIDE DEF ids
    <2>4. /\ Plotted(f2, ns2, past, future, focus, ids \cup {n}, Busy)
          /\ Born(f2, ns2, nodes, n, parent, node)
        BY <1>4, <1>5, <1>6, <2>1, <2>2, <2>3, BornPlotted
    <2> QED BY <2>4
<1>10. PICK busy : busy = Busy'
    OBVIOUS
<1>11. busy \subseteq f2.ids \ f2.plan
    <2>1. Busy' = Busy \cup {n}
        <3>1. open' = open \cup {<<n, parent>>} /\ retryable' = retryable
            BY <1>3
        <3>2. \A x : x \in OpenNodes' <=> x \in OpenNodes \/ x = n
            <4>1. \A x : x \in OpenNodes' <=> \E r \in open' : x = r[1]
                BY DEF OpenNodes
            <4>2. \A x : x \in OpenNodes <=> \E r \in open : x = r[1]
                BY DEF OpenNodes
            <4>3. \A r : r \in open' <=> r \in open \/ r = <<n, parent>>
                BY <3>1
            <4>4. <<n, parent>>[1] = n
                OBVIOUS
            <4> QED BY <4>1, <4>2, <4>3, <4>4
        <3> QED BY <3>1, <3>2 DEF Busy
    <2> QED BY <1>7, <1>10, <2>1, SituationIs
<1>12. Plotted(f2, ns2, past, future, focus, ids \cup {n}, busy)
    BY <1>9, <1>11, BusyPlotted
<1>13. Plot(ns2, past, future, focus, ids \cup {n}, busy)
    BY <1>12 DEF Plot
<1> QED BY <1>3, <1>8, <1>10, <1>13

LEMMA LeafPlot ==
    ASSUME TreeInv, NEW f, Situation(f), NEW n \in NodeId, NEW at \in AnyId, Leaf(n, at)
    PROVE  Plot(nodes', past', future', focus', DOMAIN origin', Busy')
<1> DEFINE ids == DOMAIN origin
<1>1. PICK parent : parent = ResolveBranchParent(nodes, at)
    OBVIOUS
<1>2. PICK node : node = NewNode("leaf", parent, "complete")
    OBVIOUS
<1>3. PICK more : more = WithChild(nodes[parent], n)
    OBVIOUS
<1>4. PICK e : e = Entry(n, {parent, n, at}, Creation(n, parent, nodes[parent], more, node))
    OBVIOUS
<1>5. /\ n \notin ids /\ at \in DOMAIN nodes /\ parent \in DOMAIN nodes
      /\ nodes' = Grown(nodes, n, parent, node) /\ PushHistory(e)
      /\ DOMAIN origin' = ids \cup {n}
      /\ UNCHANGED <<focus, open, retryable>>
    BY <1>1, <1>2, <1>3, <1>4, BornIs DEF Leaf, Fresh, Grown
<1>6. parent \in AnyId
    BY <1>5, TreeNodes
<1>7. Newborn(node, parent)
    BY <1>2 DEF NewNode, Newborn
<1>8. PICK f2 : f2 = GrownFrame(f, n, parent)
    OBVIOUS
<1>9. /\ FrameOK(f2) /\ FrameGrows(f2, f) /\ f2.plan = f.plan /\ n \notin f.plan
      /\ f2.ids = ids \cup {n} /\ f2.home[n] = parent
    BY <1>5, <1>6, <1>8, SituationIs, GrownFrameIs
<1>10. /\ Plotted(f2, nodes', past, future, focus, ids \cup {n}, Busy)
       /\ Placed(f2, n, node) /\ Placed(f2, parent, nodes[parent]) /\ Placed(f2, parent, more)
       /\ DOMAIN nodes' = DOMAIN nodes \cup {n}
    <2>1. Plotted(f, nodes, past, future, focus, ids, Busy)
        BY DEF Situation
    <2>2. PICK ns2 : ns2 = nodes'
        OBVIOUS
    <2>4. nodes \in NodeMap /\ Root \in DOMAIN nodes /\ n \in NodeId \ ids
        BY <1>5, SituationIs
    <2>5. ns2 = Grown(nodes, n, parent, node)
        BY <1>5, <2>2
    <2> HIDE DEF ids
    <2>3. /\ Plotted(f2, ns2, past, future, focus, ids \cup {n}, Busy)
          /\ Born(f2, ns2, nodes, n, parent, node)
        BY <1>5, <1>6, <1>7, <1>8, <2>1, <2>4, <2>5, BornPlotted
    <2> QED BY <1>3, <2>2, <2>3 DEF Born
<1>11. parent \in f2.plan => {parent, n, at} \subseteq Near(f2)
    <2> SUFFICES ASSUME parent \in f2.plan
                 PROVE  {parent, n, at} \subseteq Near(f2)
        OBVIOUS
    <2>1. parent \in Near(f2) /\ n \in Near(f2)
        BY <1>9 DEF Near
    <2>2. CASE at # parent
        <3>1. nodes[at].parent = parent
            BY <1>1, <2>2 DEF ResolveBranchParent
        <3>2. Placed(f, at, nodes[at])
            BY <1>5, SituationIs DEF AllPlaced
        <3>3. at \in f.ids \cup {Root} /\ f.home[at] = parent
            BY <3>1, <3>2 DEF Placed
        <3>4. at # Root
            BY <1>6, <3>3, SituationIs, EditsAssumption DEF FrameOK, AnyId
        <3>5. at \in f2.ids /\ f2.home[at] = parent
            BY <1>9, <3>3, <3>4 DEF FrameGrows
        <3> QED BY <2>1, <3>5 DEF Near
    <2> QED BY <2>1, <2>2
<1>12. /\ nodes[parent] \in Node /\ more \in Node
       /\ ToSet(more.children) = ToSet(nodes[parent].children) \cup {n}
    <2>1. nodes[parent] \in Node
        BY <1>5, TreeNodes
    <2>2. n \in AnyId /\ nodes[parent].children \in Seq(AnyId)
        BY <2>1, NodeFields DEF AnyId
    <2>3. more = [nodes[parent] EXCEPT !.children = Append(nodes[parent].children, n)]
        BY <1>3, <2>1 DEF WithChild, Node
    <2>4. Append(nodes[parent].children, n) \in Seq(AnyId)
        BY <2>2
    <2>5. more \in Node /\ more.children = Append(nodes[parent].children, n)
        BY <2>1, <2>3, <2>4 DEF Node
    <2> QED BY <2>1, <2>2, <2>5, ElementsOfAppend
<1>13. Plain(f2, e) /\ DOMAIN e.patch[1] = {parent, n}
    <2>1. n \in f2.ids \ f2.plan
        BY <1>9
    <2>2. nodes[parent] # None /\ more # None
        BY <1>12, NoneAssumption
    <2>3. ToSet(nodes[parent].children) \cap f2.plan = ToSet(more.children) \cap f2.plan
        BY <1>12, <2>1
    <2>4. PICK b : b = nodes[parent]
        OBVIOUS
    <2>5. Parental(f2, parent, b, more)
        BY <1>10, <2>2, <2>3, <2>4 DEF Parental
    <2>6. PICK affected : affected = {parent, n, at}
        OBVIOUS
    <2>7. e = Entry(n, affected, Creation(n, parent, b, more, node))
        BY <1>4, <2>4, <2>6
    <2>8. parent \in f2.plan => affected \subseteq Near(f2)
        BY <1>11, <2>6
    <2>9. FrameOK(f2) /\ Placed(f2, n, node)
        BY <1>9, <1>10
    <2> QED BY ONLY <2>1, <2>5, <2>7, <2>8, <2>9, CreationPlain
<1>14. past' = Capped(Append(past, e)) /\ future' = <<>> /\ Busy' = Busy
    BY <1>5 DEF PushHistory, Busy, OpenNodes
<1>15. Plot(nodes', past', <<>>, focus, ids \cup {n}, Busy)
    <2>1. DOMAIN e.patch[1] \subseteq DOMAIN nodes'
        BY <1>5, <1>10, <1>13
    <2> HIDE DEF ids
    <2> QED BY <1>10, <1>13, <1>14, <2>1, SituationIs, PushedPlotted
<1> QED BY <1>5, <1>14, <1>15

\* Nothing moves and nothing is entered.
LEMMA SteadyPlot ==
    ASSUME TreeInv, NEW f, Situation(f), AlikeTrees(nodes', nodes), Busy' \subseteq Busy,
           Twins(past', past), Twins(future', future), UNCHANGED <<focus, origin>>
    PROVE  Plot(nodes', past', future', focus', DOMAIN origin', Busy')
<1>1. PICK ns2, before2, after2, busy2 :
          ns2 = nodes' /\ before2 = past' /\ after2 = future' /\ busy2 = Busy'
    OBVIOUS
<1>2. Plotted(f, nodes, past, future, focus, DOMAIN origin, Busy) /\ Root \in DOMAIN nodes
    BY SituationIs DEF Situation
<1>3. /\ AlikeTrees(ns2, nodes) /\ Twins(before2, past) /\ Twins(after2, future)
      /\ busy2 \subseteq Busy
    BY <1>1
<1>4. Plotted(f, ns2, before2, after2, focus, DOMAIN origin, busy2)
    BY <1>2, <1>3, AlikePlotted
<1>5. Plot(ns2, before2, after2, focus, DOMAIN origin, busy2)
    BY <1>4 DEF Plot
<1> QED BY <1>1, <1>5

\* Nothing moves and an entry about nodes that are there is entered.
LEMMA EnteredPlot ==
    ASSUME TreeInv, NEW f, Situation(f), AlikeTrees(nodes', nodes), Busy' \subseteq Busy,
           UNCHANGED <<focus, origin>>, NEW e, PushHistory(e), Plain(f, e),
           DOMAIN e.patch[1] \subseteq DOMAIN nodes
    PROVE  Plot(nodes', past', future', focus', DOMAIN origin', Busy')
<1>1. PICK ns2, before2, busy2 : ns2 = nodes' /\ before2 = past' /\ busy2 = Busy'
    OBVIOUS
<1>2. /\ Plotted(f, nodes, past, future, focus, DOMAIN origin, Busy) /\ Root \in DOMAIN nodes
      /\ past \in Seq(EntryType) /\ future \in Seq(EntryType) /\ session.entries \in Nat \ {0}
    BY SituationIs DEF Situation
<1>3. AlikeTrees(ns2, nodes) /\ busy2 \subseteq Busy
    BY <1>1
<1>4. Twins(past, past) /\ Twins(future, future)
    BY <1>2, SameTwins
<1>5. Plotted(f, ns2, past, future, focus, DOMAIN origin, busy2)
    BY <1>2, <1>3, <1>4, AlikePlotted
<1>6. before2 = Capped(Append(past, e)) /\ future' = <<>>
    BY <1>1 DEF PushHistory
<1>7. DOMAIN e.patch[1] \subseteq DOMAIN ns2
    BY <1>3 DEF AlikeTrees
<1>8. Plot(ns2, before2, <<>>, focus, DOMAIN origin, busy2)
    BY <1>2, <1>5, <1>6, <1>7, PushedPlotted
<1> QED BY <1>1, <1>6, <1>8

LEMMA AlikeSame ==
    ASSUME NEW ns
    PROVE  AlikeTrees(ns, ns)
BY DEF AlikeTrees, Alike

LEMMA SameHistory ==
    ASSUME TreeInv, UNCHANGED <<past, future>>
    PROVE  Twins(past', past) /\ Twins(future', future)
BY HistorySides, SameTwins

LEMMA OneAlike ==
    ASSUME NEW ns \in NodeMap, NEW n \in DOMAIN ns, NEW s, Alike(s, ns[n]),
           NEW ns2, ns2 = [ns EXCEPT ![n] = s]
    PROVE  AlikeTrees(ns2, ns)
<1>1. ns = [m \in DOMAIN ns |-> ns[m]]
    BY DEF NodeMap
<1>2. DOMAIN ns2 = DOMAIN ns /\ ns2[n] = s /\ \A m \in DOMAIN ns \ {n} : ns2[m] = ns[m]
    BY <1>1
<1> QED BY <1>2 DEF AlikeTrees, Alike

LEMMA StatusAlike ==
    ASSUME NEW ns \in NodeMap, NEW n \in DOMAIN ns, NEW status,
           NEW ns2, ns2 = [ns EXCEPT ![n].status = status]
    PROVE  AlikeTrees(ns2, ns)
<1> DEFINE s == [ns[n] EXCEPT !.status = status]
<1>1. ns[n] \in Node
    BY DEF NodeMap
<1>2. Alike(s, ns[n])
    BY <1>1 DEF Alike, Node
<1>3. ns2 = [ns EXCEPT ![n] = s]
    OBVIOUS
<1> HIDE DEF s
<1> QED BY <1>2, <1>3, OneAlike

LEMMA OpenedNode ==
    ASSUME NEW r, r[1] \in Busy, open' = open \cup {r}, UNCHANGED retryable
    PROVE  Busy' \subseteq Busy
<1>1. \A x : x \in OpenNodes' <=> \E q \in open' : x = q[1]
    BY DEF OpenNodes
<1>2. \A x : x \in OpenNodes <=> \E q \in open : x = q[1]
    BY DEF OpenNodes
<1>3. \A x \in OpenNodes' : x \in OpenNodes \/ x = r[1]
    BY <1>1, <1>2
<1> QED BY <1>3 DEF Busy

LEMMA ClosedNode ==
    ASSUME NEW r \in open, open' = open \ {r}, retryable' \subseteq retryable \cup {r[1]}
    PROVE  Busy' \subseteq Busy
<1>1. \A x : x \in OpenNodes' <=> \E q \in open' : x = q[1]
    BY DEF OpenNodes
<1>2. \A x : x \in OpenNodes <=> \E q \in open : x = q[1]
    BY DEF OpenNodes
<1>3. OpenNodes' \subseteq OpenNodes /\ r[1] \in OpenNodes
    BY <1>1, <1>2
<1> QED BY <1>3 DEF Busy

LEMMA UpdateBranchPlot ==
    ASSUME TreeInv, NEW f, Situation(f), NEW n \in NodeId, UpdateBranch(n)
    PROVE  Plot(nodes', past', future', focus', DOMAIN origin', Busy')
<1>1. /\ n \in DOMAIN nodes /\ nodes' = [nodes EXCEPT ![n].status = "streaming"]
      /\ UNCHANGED <<focus, past, future, open, retryable, origin>>
    BY DEF UpdateBranch
<1>2. AlikeTrees(nodes', nodes)
    <2>1. PICK ns2 : ns2 = nodes'
        OBVIOUS
    <2> QED BY <1>1, <2>1, SituationIs, StatusAlike
<1>3. Busy' = Busy
    BY <1>1 DEF Busy, OpenNodes
<1> QED BY <1>1, <1>2, <1>3, SameHistory, SteadyPlot

LEMMA RetryAnswerPlot ==
    ASSUME TreeInv, NEW f, Situation(f), NEW n \in NodeId, RetryAnswer(n)
    PROVE  Plot(nodes', past', future', focus', DOMAIN origin', Busy')
<1>1. /\ n \in DOMAIN nodes \cap retryable /\ nodes' = [nodes EXCEPT ![n].status = "streaming"]
      /\ open' = open \cup {<<n, nodes[n].parent>>}
      /\ UNCHANGED <<focus, past, future, retryable, origin>>
    BY DEF RetryAnswer
<1>2. AlikeTrees(nodes', nodes)
    <2>1. PICK ns2 : ns2 = nodes'
        OBVIOUS
    <2> QED BY <1>1, <2>1, SituationIs, StatusAlike
<1>3. Busy' \subseteq Busy
    <2>1. PICK r : r = <<n, nodes[n].parent>>
        OBVIOUS
    <2>2. r[1] \in Busy
        BY <1>1, <2>1 DEF Busy
    <2> QED BY <1>1, <2>1, <2>2, OpenedNode
<1> QED BY <1>1, <1>2, <1>3, SameHistory, SteadyPlot

LEMMA ReloadPlot ==
    ASSUME TreeInv, NEW f, Situation(f), Reload
    PROVE  Plot(nodes', past', future', focus', DOMAIN origin', Busy')
<1>1. PICK failed \in SUBSET DOMAIN nodes :
          nodes' = [n \in DOMAIN nodes |->
                      IF n \in failed THEN [nodes[n] EXCEPT !.status = "failed"]
                      ELSE NormalizeNode(nodes[n])]
    BY DEF Reload
<1>2. /\ past' = <<>> /\ future' = <<>> /\ focus' = None /\ open' = {} /\ retryable' = {}
      /\ origin' = origin
    BY DEF Reload
<1>3. AlikeTrees(nodes', nodes)
    <2>1. ASSUME NEW s \in Node
          PROVE  Alike([s EXCEPT !.status = "failed"], s) /\ Alike(NormalizeNode(s), s)
        BY DEF Alike, NormalizeNode, Node
    <2>2. \A n \in DOMAIN nodes : nodes[n] \in Node
        BY TreeNodes
    <2> QED BY <1>1, <2>1, <2>2 DEF AlikeTrees
<1>4. Busy' = {}
    BY <1>2 DEF Busy, OpenNodes
<1>5. PICK ns2 : ns2 = nodes'
    OBVIOUS
<1>6. Plotted(f, ns2, past, future, focus, DOMAIN origin, Busy)
    <2>1. Plotted(f, nodes, past, future, focus, DOMAIN origin, Busy) /\ Root \in DOMAIN nodes
        BY SituationIs DEF Situation
    <2>2. Twins(past, past) /\ Twins(future, future) /\ AlikeTrees(ns2, nodes)
        BY <1>3, <1>5, SituationIs, SameTwins
    <2> QED BY <2>1, <2>2, AlikePlotted
<1>7. Plot(ns2, <<>>, <<>>, None, DOMAIN origin, {})
    BY <1>6, EmptiedPlotted
<1> QED BY <1>2, <1>4, <1>5, <1>7

LEMMA LayerMovePlot ==
    ASSUME TreeInv, NEW f, Situation(f), NEW n \in NodeId, LayerMove(n)
    PROVE  Plot(nodes', past', future', focus', DOMAIN origin', Busy')
<1> DEFINE group == [x \in {n} |-> Change(nodes[x], nodes[x])]
<1>1. PICK e : e = Entry(n, {n}, <<group>>)
    OBVIOUS
<1>2. /\ n \in DOMAIN nodes /\ PushHistory(e)
      /\ UNCHANGED <<nodes, focus, open, retryable, origin>>
    BY <1>1 DEF LayerMove
<1>3. /\ Len(e.patch) = 1 /\ e.patch[1] = group /\ e.nodeUndoable = TRUE /\ e.affected = {n}
      /\ DOMAIN group = {n} /\ group[n] = Change(nodes[n], nodes[n])
    BY <1>1 DEF Entry
<1>4. Placed(f, n, nodes[n]) /\ nodes[n] # None
    BY <1>2, SituationIs, TreeNodes, NoneAssumption DEF AllPlaced
<1> HIDE DEF group
<1>5. Mild(f, n, group[n])
    BY <1>3, <1>4 DEF Mild, SnapshotPlaced, Placed, Change
<1>6. Plain(f, e) /\ DOMAIN e.patch[1] \subseteq DOMAIN nodes
    <2>1. Touches(f, e) => {n} \subseteq Near(f)
        BY <1>3 DEF Touches, Near
    <2> QED BY <1>2, <1>3, <1>5, <2>1 DEF Plain
<1>7. AlikeTrees(nodes', nodes) /\ Busy' = Busy
    BY <1>2, AlikeSame DEF Busy, OpenNodes
<1> QED BY <1>2, <1>6, <1>7, EnteredPlot

LEMMA ToggleLeafContextPlot ==
    ASSUME TreeInv, NEW f, Situation(f), NEW n \in NodeId, ToggleLeafContext(n)
    PROVE  Plot(nodes', past', future', focus', DOMAIN origin', Busy')
<1>1. PICK flipped \in BOOLEAN : flipped = ~nodes[n].included
    OBVIOUS
<1>2. /\ n \in DOMAIN nodes /\ nodes' = [nodes EXCEPT ![n].included = flipped]
      /\ past' = LeavesRewritten(past, n, flipped)
      /\ future' = LeavesRewritten(future, n, flipped)
      /\ UNCHANGED <<focus, open, retryable, origin>>
    BY <1>1 DEF ToggleLeafContext, LeavesRewritten
<1>3. AlikeTrees(nodes', nodes)
    <2>1. PICK s : s = [nodes[n] EXCEPT !.included = flipped]
        OBVIOUS
    <2>2. nodes[n] \in Node
        BY <1>2, TreeNodes
    <2>3. Alike(s, nodes[n])
        BY <2>1, <2>2 DEF Alike, Node
    <2>4. PICK ns2 : ns2 = nodes'
        OBVIOUS
    <2>5. ns2 = [nodes EXCEPT ![n] = s]
        BY <1>2, <2>1, <2>4
    <2> QED BY <1>2, <2>3, <2>4, <2>5, SituationIs, OneAlike
<1>4. Twins(past', past) /\ Twins(future', future)
    <2>1. PICK before2, after2 : before2 = past' /\ after2 = future'
        OBVIOUS
    <2> QED BY <1>2, <2>1, SituationIs, LeavesAlike
<1>5. Busy' = Busy
    BY <1>2 DEF Busy, OpenNodes
<1> QED BY <1>2, <1>3, <1>4, <1>5, SteadyPlot

LEMMA SetNodeSemanticsPlot ==
    ASSUME TreeInv, NEW f, Situation(f), NEW r \in structuring, SetNodeSemantics(r)
    PROVE  Plot(nodes', past', future', focus', DOMAIN origin', Busy')
<1>1. UNCHANGED <<focus, open, retryable, origin>>
    BY DEF SetNodeSemantics
<1>2. Busy' = Busy
    BY <1>1 DEF Busy, OpenNodes
<1>3. CASE ~CardAccepted(r[1], r[2])
    <2>1. UNCHANGED <<nodes, past, future>>
        BY <1>3 DEF SetNodeSemantics
    <2> QED BY <1>1, <1>2, <2>1, SameHistory, AlikeSame, SteadyPlot
<1>4. CASE CardAccepted(r[1], r[2])
    <2>1. PICK n, parent : n = r[1] /\ parent = r[2]
        OBVIOUS
    <2>2. /\ n \in DOMAIN nodes /\ nodes' = [nodes EXCEPT ![n].context = "valid"]
          /\ past' = CardsRewritten(past, n, parent)
          /\ future' = CardsRewritten(future, n, parent)
        BY <1>4, <2>1 DEF SetNodeSemantics, CardsRewritten, CardAccepted
    <2>3. AlikeTrees(nodes', nodes)
        <3>1. PICK s : s = [nodes[n] EXCEPT !.context = "valid"]
            OBVIOUS
        <3>2. nodes[n] \in Node
            BY <2>2, TreeNodes
        <3>3. Alike(s, nodes[n])
            BY <3>1, <3>2 DEF Alike, Node
        <3>4. PICK ns2 : ns2 = nodes'
            OBVIOUS
        <3>5. ns2 = [nodes EXCEPT ![n] = s]
            BY <2>2, <3>1, <3>4
        <3> QED BY <2>2, <3>3, <3>4, <3>5, SituationIs, OneAlike
    <2>4. Twins(past', past) /\ Twins(future', future)
        <3>1. PICK before2, after2 : before2 = past' /\ after2 = future'
            OBVIOUS
        <3> QED BY <2>2, <3>1, SituationIs, CardsAlike
    <2> QED BY <1>1, <1>2, <2>3, <2>4, SteadyPlot
<1> QED BY <1>3, <1>4

\* e is the entry of the answer or note n.
Recording(f, e, n, parent, b, a, node, affected) ==
    /\ n \in f.ids \ f.plan /\ Placed(f, n, node) /\ Parental(f, parent, b, a)
    /\ parent \in f.plan => affected \subseteq Near(f)
    /\ e = Entry(n, affected, Creation(n, parent, b, a, node))

LEMMA RecordingPlain ==
    ASSUME NEW f, FrameOK(f), NEW e, NEW n, NEW parent, NEW b, NEW a, NEW node, NEW affected,
           Recording(f, e, n, parent, b, a, node, affected)
    PROVE  Plain(f, e) /\ DOMAIN e.patch[1] = {parent, n}
<1>1. /\ n \in f.ids \ f.plan /\ Placed(f, n, node) /\ Parental(f, parent, b, a)
      /\ parent \in f.plan => affected \subseteq Near(f)
      /\ e = Entry(n, affected, Creation(n, parent, b, a, node))
    BY DEF Recording
<1> QED BY ONLY <1>1, FrameOK(f), CreationPlain

LEMMA SettleBranchPlot ==
    ASSUME TreeInv, NEW f, Situation(f), NEW r \in open, NEW status \in Status \ {"streaming"},
           SettleBranch(r, status)
    PROVE  Plot(nodes', past', future', focus', DOMAIN origin', Busy')
<1>1. PICK n : n = r[1]
    OBVIOUS
<1>2. /\ open' = open \ {r} /\ retryable' \subseteq retryable \cup {r[1]}
      /\ UNCHANGED <<focus, origin>>
    BY DEF SettleBranch
<1>3. Busy' \subseteq Busy
    BY <1>2, ClosedNode
<1>4. CASE ~(n \in DOMAIN nodes /\ nodes[n].parent \in DOMAIN nodes)
    <2>1. UNCHANGED <<nodes, past, future>>
        BY <1>1, <1>4 DEF SettleBranch
    <2> QED BY <1>2, <1>3, <2>1, SameHistory, AlikeSame, SteadyPlot
<1>5. CASE n \in DOMAIN nodes /\ nodes[n].parent \in DOMAIN nodes
    <2>1. PICK parent, after : parent = nodes[n].parent /\ after = [nodes[n] EXCEPT !.status = status]
        OBVIOUS
    <2>2. PICK b, a : b = WithoutChild(nodes[parent], n) /\ a = nodes[parent]
        OBVIOUS
    <2>3. PICK affected : affected = {parent, n}
        OBVIOUS
    <2>4. PICK e : e = Entry(n, affected, Creation(n, parent, b, a, after))
        OBVIOUS
    <2>5. /\ nodes' = [nodes EXCEPT ![n] = after]
          /\ \/ UNCHANGED <<past, future>>
             \/ PushHistory(e)
        BY <1>1, <1>5, <2>1, <2>2, <2>3, <2>4 DEF SettleBranch, Settled
    <2>6. nodes[n] \in Node /\ a \in Node /\ nodes \in NodeMap /\ FrameOK(f)
        BY <1>5, <2>1, <2>2, TreeNodes, SituationIs
    <2>7. Alike(after, nodes[n])
        BY <2>1, <2>6 DEF Alike, Node
    <2>8. AlikeTrees(nodes', nodes)
        <3>1. PICK ns2 : ns2 = nodes'
            OBVIOUS
        <3> QED BY <1>5, <2>5, <2>6, <2>7, <3>1, OneAlike
    <2>9. n \in f.ids \ f.plan
        <3>1. n \in Busy
            BY <1>1 DEF Busy, OpenNodes
        <3> QED BY <3>1, SituationIs
    <2>10. Placed(f, n, nodes[n]) /\ Placed(f, parent, a)
        BY <1>5, <2>1, <2>2, SituationIs DEF AllPlaced
    <2>11. Placed(f, n, after)
        BY <2>7, <2>10, AlikePlaced
    <2>12. /\ b \in Node /\ b.parent = a.parent /\ b.task = a.task
           /\ ToSet(b.children) = ToSet(a.children) \ {n}
        <3>1. a.children \in Seq(AnyId)
            BY <2>6, NodeFields
        <3>2. Without(a.children, {n}) \in Seq(AnyId)
            BY <3>1, WithoutElements
        <3>3. b = [a EXCEPT !.children = Without(a.children, {n})]
            BY <2>2, <2>6 DEF WithoutChild, Node
        <3>4. ToSet(Without(a.children, {n})) = ToSet(a.children) \ {n}
            BY <3>1, WithoutElements
        <3>5. b \in Node /\ b.parent = a.parent /\ b.task = a.task /\ b.children = Without(a.children, {n})
            BY <2>6, <3>2, <3>3 DEF Node
        <3> QED BY <3>4, <3>5
    <2>13. Parental(f, parent, b, a)
        <3>1. Placed(f, parent, b)
            BY <2>10, <2>12 DEF Placed
        <3>2. ToSet(b.children) \cap f.plan = ToSet(a.children) \cap f.plan
            BY <2>9, <2>12
        <3>3. b # None /\ a # None
            BY <2>6, <2>12, NoneAssumption
        <3> QED BY <2>10, <3>1, <3>2, <3>3 DEF Parental
    <2>14. parent \in f.plan => affected \subseteq Near(f)
        <3>1. f.home[n] = parent
            BY <2>1, <2>10 DEF Placed
        <3> QED BY <2>3, <2>9, <3>1 DEF Near
    <2>15. Plain(f, e) /\ DOMAIN e.patch[1] = {parent, n}
        <3>1. FrameOK(f)
            BY <2>6
        <3>2. e = Entry(n, affected, Creation(n, parent, b, a, after))
            BY <2>4
        <3>3. Placed(f, n, after)
            BY <2>11
        <3>4. Recording(f, e, n, parent, b, a, after, affected)
            BY <2>9, <2>13, <2>14, <3>2, <3>3 DEF Recording
        <3> QED BY ONLY <3>1, <3>4, RecordingPlain
    <2>16. DOMAIN e.patch[1] \subseteq DOMAIN nodes
        BY <1>5, <2>1, <2>15
    <2>17. CASE UNCHANGED <<past, future>>
        BY <1>2, <1>3, <2>8, <2>17, SameHistory, SteadyPlot
    <2>18. CASE PushHistory(e)
        BY <1>2, <1>3, <2>8, <2>15, <2>16, <2>18, EnteredPlot
    <2> QED BY <2>5, <2>17, <2>18
<1> QED BY <1>4, <1>5

-----------------------------------------------------------------------------
(* Back and forth in the history.                                           *)

\* While the tasks are away no card below them is drawn.
LEMMA DrawnAway ==
    ASSUME NEW f, FrameOK(f), NEW ns, AllPlaced(f, ns), f.plan \cap DOMAIN ns = {}
    PROVE  Drawn(ns) \cap Near(f) = {}
<1> DEFINE below == {m \in f.ids : f.home[m] \in f.plan}
           S == AnyId \ below
<1>1. f.ids \subseteq NodeId /\ Root \in S
    BY EditsAssumption DEF FrameOK, Frame, AnyId
<1>2. ASSUME NEW x \in S
      PROVE  ChildrenOf(ns, x) \subseteq S
    <2>1. CASE x \notin DOMAIN ns
        BY <2>1 DEF ChildrenOf
    <2>2. CASE x \in DOMAIN ns
        <3>1. ToSet(ns[x].children) \subseteq f.ids /\ \A c \in ToSet(ns[x].children) : f.home[c] = x
            BY <2>2 DEF AllPlaced, Placed
        <3>2. x \notin f.plan
            BY <2>2
        <3>3. ToSet(ns[x].children) \subseteq S
            BY <1>1, <3>1, <3>2 DEF AnyId
        <3>4. ChildrenOf(ns, x) = ToSet(ns[x].children)
            BY <2>2 DEF ChildrenOf
        <3> QED BY <3>3, <3>4
    <2> QED BY <2>1, <2>2
<1>3. S \subseteq AnyId
    OBVIOUS
<1>4. \A m \in Subtree(ns, Root) : m \notin below
    <2>1. \A m \in Subtree(ns, Root) : m \in S
        <3> HIDE DEF S
        <3> QED BY <1>1, <1>2, <1>3 DEF Subtree
    <2> QED BY <2>1
<1> QED BY <1>4 DEF Drawn, Near

LEMMA PushedUntouched ==
    ASSUME NEW S, NEW s \in Seq(S), NEW e, session.entries \in Nat \ {0}, NEW f,
           \A i \in DOMAIN s : ~Touches(f, s[i]), ~Touches(f, e),
           NEW t, t = Capped(Append(s, e))
    PROVE  \A i \in DOMAIN t : ~Touches(f, t[i])
<1>1. PICK d \in {0, 1} :
          /\ DOMAIN t = 1..(Len(s) + 1 - d) /\ Len(s) \in Nat
          /\ \A i \in DOMAIN t : t[i] = IF i + d <= Len(s) THEN s[i + d] ELSE e
          /\ \A i \in DOMAIN t : i + d <= Len(s) => i + d \in DOMAIN s
    BY PushedWhere
<1> QED BY <1>1

\* An entry undone comes first among those to redo.
LEMMA LeadsOn ==
    ASSUME NEW f, NEW s \in Seq(EntryType), NEW e \in EntryType, e.nodeUndoable, ~Touches(f, e),
           NEW k \in DOMAIN s, Leads(f, s, k), NEW t, t = <<e>> \o s
    PROVE  \E m \in DOMAIN t : Leads(f, t, m)
<1>1. /\ DOMAIN t = 1..(1 + Len(s)) /\ Len(s) \in Nat /\ DOMAIN s = 1..Len(s)
      /\ t[1] = e /\ \A j \in DOMAIN s : t[j + 1] = s[j]
      /\ \A j \in DOMAIN t : j = 1 \/ (j - 1 \in DOMAIN s /\ t[j] = s[j - 1])
    BY PrependedWhere
<1>2. k + 1 \in DOMAIN t /\ t[k + 1] = s[k] /\ k \in Nat
    BY <1>1
<1>3. ASSUME NEW j \in DOMAIN t \ {k + 1}
      PROVE  t[j].nodeUndoable /\ (j < k + 1 => ~Touches(f, t[j]))
    <2>1. CASE j = 1
        BY <1>1, <2>1
    <2>2. CASE j # 1
        <3>1. j - 1 \in DOMAIN s \ {k} /\ t[j] = s[j - 1] /\ (j < k + 1 => j - 1 < k)
            BY <1>1, <1>2, <2>2
        <3> QED BY <3>1 DEF Leads
    <2> QED BY <2>1, <2>2
<1>4. Leads(f, t, k + 1)
    BY <1>2, <1>3 DEF Leads
<1> QED BY <1>2, <1>4

\* Another entry than the batch is redone.
LEMMA LeadsStill ==
    ASSUME NEW f, NEW s \in Seq(EntryType), NEW k \in DOMAIN s, Leads(f, s, k),
           NEW i \in DOMAIN s \ {k}, NEW t, t = RemoveAt(s, i)
    PROVE  \E m \in DOMAIN t : Leads(f, t, m)
<1>1. /\ DOMAIN t = 1..(Len(s) - 1) /\ Len(s) \in Nat /\ DOMAIN s = 1..Len(s)
      /\ \A j \in DOMAIN t : t[j] = IF j < i THEN s[j] ELSE s[j + 1]
    BY RemovedWhere
<1> DEFINE m == IF i < k THEN k - 1 ELSE k
           at(j) == IF j < i THEN j ELSE j + 1
<1>2. i \in Nat /\ k \in Nat /\ m \in DOMAIN t /\ at(m) = k
    BY <1>1
<1>3. ASSUME NEW j \in DOMAIN t
      PROVE  t[j] = s[at(j)] /\ at(j) \in DOMAIN s
    BY <1>1
<1>4. ASSUME NEW j \in DOMAIN t \ {m}
      PROVE  at(j) # k /\ (j < m => at(j) < k)
    <2>1. j \in Nat /\ j # m
        BY <1>1
    <2> QED BY <1>2, <2>1
<1>5. t[m] = s[k]
    BY <1>2, <1>3
<1>6. ASSUME NEW j \in DOMAIN t \ {m}
      PROVE  t[j].nodeUndoable /\ (j < m => ~Touches(f, t[j]))
    <2>1. at(j) \in DOMAIN s \ {k} /\ t[j] = s[at(j)] /\ (j < m => at(j) < k)
        BY <1>3, <1>4
    <2> HIDE DEF at, m
    <2> QED BY <2>1 DEF Leads
<1> HIDE DEF at, m
<1>7. Leads(f, t, m)
    BY <1>5, <1>6 DEF Leads
<1> QED BY <1>2, <1>7

\* An entry is a batch or leaves the tasks where they are.
LEMMA KnownEntry ==
    ASSUME NEW f, NEW s, AllKnown(f, s), NEW i \in DOMAIN s
    PROVE  /\ s[i].nodeUndoable => Plain(f, s[i])
           /\ ~s[i].nodeUndoable => Batch(f, s[i]) /\ Touches(f, s[i])
<1>1. Plain(f, s[i]) \/ Batch(f, s[i])
    BY DEF AllKnown
<1>2. Plain(f, s[i]) => s[i].nodeUndoable
    BY DEF Plain
<1> QED BY <1>1, <1>2, BatchTouches

\* Entry i of before is undone.  Out of order it is no batch.
LEMMA UndonePlotted ==
    ASSUME NEW f, NEW ns \in NodeMap, Root \in DOMAIN ns,
           NEW before \in Seq(EntryType), NEW after \in Seq(EntryType),
           NEW panel, NEW ids, NEW busy, Plotted(f, ns, before, after, panel, ids, busy),
           NEW i \in DOMAIN before, NEW panel2, f.plan \cap DOMAIN ns = {} => panel2 \notin Near(f),
           ~before[i].nodeUndoable => i = Len(before) /\ panel2 = None,
           NEW ns2, ns2 = ApplyPatch(ns, before[i], "undo"),
           NEW before2, before2 = RemoveAt(before, i),
           NEW after2, after2 = <<before[i]>> \o after
    PROVE  Plotted(f, ns2, before2, after2, panel2, ids, busy)
<1>1. /\ FrameOK(f) /\ f.ids = ids /\ AllPlaced(f, ns) /\ AllKnown(f, before)
      /\ AllKnown(f, after) /\ busy \subseteq f.ids \ f.plan
      /\ Planned(f, ns, before, after) \/ Withdrawn(f, ns, before, after, panel)
    BY DEF Plotted
<1>2. PICK e : e = before[i]
    OBVIOUS
<1>3. e \in EntryType /\ "undo" \in Direction
    BY <1>2, ElementOfSeq DEF Direction
<1>4. /\ e.nodeUndoable => Plain(f, e)
      /\ ~e.nodeUndoable => Batch(f, e) /\ Touches(f, e)
    BY <1>1, <1>2, KnownEntry
<1>5. AllKnown(f, before2) /\ AllKnown(f, after2)
    BY <1>1, <1>2, <1>3, <1>4, RemovedKnown, PrependedKnown
<1>6. ns2 = ApplyPatch(ns, e, "undo")
    BY <1>2
<1>7. AllPlaced(f, ns2)
    BY <1>1, <1>3, <1>4, <1>6, PlainReplayed, BatchReplayed
<1>8. /\ DOMAIN after2 = 1..(1 + Len(after)) /\ Len(after) \in Nat /\ after2[1] = e
      /\ \A j \in DOMAIN after2 : j = 1 \/ (j - 1 \in DOMAIN after /\ after2[j] = after[j - 1])
    BY <1>2, <1>3, PrependedWhere
<1>9. CASE Planned(f, ns, before, after) /\ e.nodeUndoable
    <2>1. Standing(f, ns2)
        BY <1>1, <1>3, <1>4, <1>6, <1>9, PlainReplayed DEF Planned
    <2>2. InTurn(f, before2)
        BY <1>9, RemovedInTurn DEF Planned
    <2>3. \A j \in DOMAIN after2 : after2[j].nodeUndoable
        BY <1>8, <1>9 DEF Planned
    <2>4. Planned(f, ns2, before2, after2)
        BY <2>1, <2>2, <2>3 DEF Planned
    <2> QED BY <1>1, <1>5, <1>7, <2>4 DEF Plotted
<1>10. CASE Planned(f, ns, before, after) /\ ~e.nodeUndoable
    <2>1. i = Len(before) /\ panel2 = None
        BY <1>2, <1>10
    <2>2. f.plan \cap DOMAIN ns2 = {}
        BY <1>1, <1>3, <1>4, <1>6, <1>10, BatchReplayed
    <2>3. f.plan # {} /\ panel2 \notin Near(f)
        BY <1>1, <1>4, <1>10, <2>1, NearDrawn DEF Batch
    <2>4. \A j \in DOMAIN before2 : ~Touches(f, before2[j])
        <3>1. /\ DOMAIN before2 = 1..(Len(before) - 1) /\ Len(before) \in Nat
              /\ DOMAIN before = 1..Len(before)
              /\ \A j \in DOMAIN before2 : before2[j] = IF j < i THEN before[j] ELSE before[j + 1]
            BY RemovedWhere
        <3>2. ASSUME NEW j \in DOMAIN before2
              PROVE  before2[j] = before[j] /\ j \in DOMAIN before /\ j < i
            BY <2>1, <3>1
        <3> QED BY <1>2, <1>10, <3>2 DEF Planned, InTurn
    <2>5. Leads(f, after2, 1) /\ 1 \in DOMAIN after2
        <3>1. ASSUME NEW j \in DOMAIN after2 \ {1}
              PROVE  after2[j].nodeUndoable /\ ~(j < 1)
            BY <1>8, <1>10 DEF Planned
        <3> QED BY <1>8, <1>10, <3>1 DEF Leads
    <2>6. Withdrawn(f, ns2, before2, after2, panel2)
        BY <2>2, <2>3, <2>4, <2>5 DEF Withdrawn, Gone
    <2> QED BY <1>1, <1>5, <1>7, <2>6 DEF Plotted
<1>11. CASE Withdrawn(f, ns, before, after, panel)
    <2>1. /\ f.plan # {} /\ f.plan \cap DOMAIN ns = {} /\ \A j \in DOMAIN before : ~Touches(f, before[j])
          /\ \E k \in DOMAIN after : Leads(f, after, k)
        BY <1>11 DEF Withdrawn, Gone
    <2>2. ~Touches(f, e) /\ e.nodeUndoable /\ Plain(f, e)
        BY <1>2, <1>4, <2>1
    <2>3. f.plan \cap DOMAIN ns2 = {}
        BY <1>1, <1>3, <1>6, <2>1, <2>2, PlainReplayed
    <2>4. \A j \in DOMAIN before2 : ~Touches(f, before2[j])
        <3>1. /\ DOMAIN before2 = 1..(Len(before) - 1) /\ Len(before) \in Nat
              /\ DOMAIN before = 1..Len(before)
              /\ \A j \in DOMAIN before2 : before2[j] = IF j < i THEN before[j] ELSE before[j + 1]
            BY RemovedWhere
        <3>2. ASSUME NEW j \in DOMAIN before2
              PROVE  j \in DOMAIN before /\ j + 1 \in DOMAIN before
            BY <3>1
        <3> QED BY <2>1, <3>1, <3>2
    <2>5. \E m \in DOMAIN after2 : Leads(f, after2, m)
        BY <1>2, <1>3, <2>1, <2>2, LeadsOn
    <2>6. Withdrawn(f, ns2, before2, after2, panel2)
        BY <2>1, <2>3, <2>4, <2>5 DEF Withdrawn, Gone
    <2> QED BY <1>1, <1>5, <1>7, <2>6 DEF Plotted
<1> QED BY <1>1, <1>9, <1>10, <1>11

\* Entry i of after is redone: the batch, or an entry that needs no task.
LEMMA RedonePlotted ==
    ASSUME NEW f, NEW ns \in NodeMap, Root \in DOMAIN ns, session.entries \in Nat \ {0},
           NEW before \in Seq(EntryType), NEW after \in Seq(EntryType),
           NEW panel, NEW ids, NEW busy, Plotted(f, ns, before, after, panel, ids, busy),
           NEW i \in DOMAIN after, NEW panel2, f.plan \cap DOMAIN ns = {} => panel2 \notin Near(f),
           \A k \in DOMAIN after : f.plan \cap DOMAIN ns = {} /\ Leads(f, after, k) =>
                                      i = k \/ ~Touches(f, after[i]),
           NEW ns2, ns2 = ApplyPatch(ns, after[i], "redo"),
           NEW before2, before2 = Capped(Append(before, after[i])),
           NEW after2, after2 = RemoveAt(after, i)
    PROVE  Plotted(f, ns2, before2, after2, panel2, ids, busy)
<1>1. /\ FrameOK(f) /\ f.ids = ids /\ AllPlaced(f, ns) /\ AllKnown(f, before)
      /\ AllKnown(f, after) /\ busy \subseteq f.ids \ f.plan
      /\ Planned(f, ns, before, after) \/ Withdrawn(f, ns, before, after, panel)
    BY DEF Plotted
<1>2. PICK e : e = after[i]
    OBVIOUS
<1>3. e \in EntryType /\ "redo" \in Direction
    BY <1>2, ElementOfSeq DEF Direction
<1>4. /\ e.nodeUndoable => Plain(f, e)
      /\ ~e.nodeUndoable => Batch(f, e) /\ Touches(f, e)
    BY <1>1, <1>2, KnownEntry
<1>5. AllKnown(f, before2) /\ AllKnown(f, after2)
    BY <1>1, <1>2, <1>3, <1>4, RemovedKnown, PushedKnown
<1>6. ns2 = ApplyPatch(ns, e, "redo")
    BY <1>2
<1>7. AllPlaced(f, ns2)
    BY <1>1, <1>3, <1>4, <1>6, PlainReplayed, BatchReplayed
<1>8. /\ DOMAIN after2 = 1..(Len(after) - 1) /\ Len(after) \in Nat /\ DOMAIN after = 1..Len(after)
      /\ \A j \in DOMAIN after2 : after2[j] = IF j < i THEN after[j] ELSE after[j + 1]
    BY RemovedWhere
<1>9. ASSUME NEW j \in DOMAIN after2
      PROVE  \E m \in DOMAIN after \ {i} : after2[j] = after[m]
    <2>1. CASE j < i
        <3>1. j \in DOMAIN after \ {i} /\ after2[j] = after[j]
            BY <1>8, <2>1
        <3> QED BY <3>1
    <2>2. CASE ~(j < i)
        <3>1. j + 1 \in DOMAIN after \ {i} /\ after2[j] = after[j + 1]
            BY <1>8, <2>2
        <3> QED BY <3>1
    <2> QED BY <2>1, <2>2
<1>10. CASE Planned(f, ns, before, after)
    <2>1. e.nodeUndoable /\ Plain(f, e)
        BY <1>2, <1>4, <1>10 DEF Planned
    <2>2. Standing(f, ns2)
        BY <1>1, <1>3, <1>6, <1>10, <2>1, PlainReplayed DEF Planned
    <2>3. InTurn(f, before2)
        BY <1>2, <1>10, <2>1, PushedInTurn DEF Planned
    <2>4. \A j \in DOMAIN after2 : after2[j].nodeUndoable
        BY <1>9, <1>10 DEF Planned
    <2>5. Planned(f, ns2, before2, after2)
        BY <2>2, <2>3, <2>4 DEF Planned
    <2> QED BY <1>1, <1>5, <1>7, <2>5 DEF Plotted
<1>11. CASE Withdrawn(f, ns, before, after, panel)
    <2>1. /\ f.plan # {} /\ f.plan \cap DOMAIN ns = {} /\ \A j \in DOMAIN before : ~Touches(f, before[j])
        BY <1>11 DEF Withdrawn, Gone
    <2>2. PICK k \in DOMAIN after : Leads(f, after, k)
        BY <1>11 DEF Withdrawn
    <2>3. CASE i = k
        <3>1. ~e.nodeUndoable /\ Batch(f, e)
            BY <1>2, <1>4, <2>2, <2>3 DEF Leads
        <3>2. Standing(f, ns2)
            BY <1>1, <1>3, <1>6, <2>1, <3>1, BatchReplayed
        <3>3. InTurn(f, before2)
            BY <1>2, <2>1, UntouchedInTurn, PushedInTurn
        <3>4. \A j \in DOMAIN after2 : after2[j].nodeUndoable
            BY <1>9, <2>2, <2>3 DEF Leads
        <3>5. Planned(f, ns2, before2, after2)
            BY <3>2, <3>3, <3>4 DEF Planned
        <3> QED BY <1>1, <1>5, <1>7, <3>5 DEF Plotted
    <2>4. CASE i # k
        <3>1. ~Touches(f, e) /\ e.nodeUndoable /\ Plain(f, e)
            BY <1>2, <1>4, <2>1, <2>2, <2>4
        <3>2. f.plan \cap DOMAIN ns2 = {}
            BY <1>1, <1>3, <1>6, <2>1, <3>1, PlainReplayed
        <3>3. \A j \in DOMAIN before2 : ~Touches(f, before2[j])
            BY <1>2, <2>1, <3>1, PushedUntouched
        <3>4. \E m \in DOMAIN after2 : Leads(f, after2, m)
            BY <2>2, <2>4, LeadsStill
        <3>5. Withdrawn(f, ns2, before2, after2, panel2)
            BY <2>1, <3>2, <3>3, <3>4 DEF Withdrawn, Gone
        <3> QED BY <1>1, <1>5, <1>7, <3>5 DEF Plotted
    <2> QED BY <2>3, <2>4
<1> QED BY <1>1, <1>10, <1>11

\* While the tasks are away the panel shows no node near them.
LEMMA PanelAway ==
    ASSUME TreeInv, NEW f, Situation(f), f.plan \cap DOMAIN nodes = {}
    PROVE  focus \notin Near(f) /\ Drawn(nodes) \cap Near(f) = {} /\ None \notin Near(f)
<1>1. FrameOK(f) /\ AllPlaced(f, nodes)
    BY SituationIs
<1>2. Drawn(nodes) \cap Near(f) = {} /\ None \notin Near(f)
    BY <1>1, DrawnAway, NearDrawn
<1>3. CASE Planned(f, nodes, past, future)
    <2>1. f.plan = {}
        BY <1>3 DEF Planned, Standing
    <2> QED BY <1>2, <2>1 DEF Near
<1>4. CASE Withdrawn(f, nodes, past, future, focus)
    BY <1>2, <1>4 DEF Withdrawn, Gone
<1> QED BY <1>3, <1>4 DEF Situation, Plotted

LEMMA UndoAtPlot ==
    ASSUME TreeInv, NEW f, Situation(f), NEW i \in DOMAIN past, UndoAt(i),
           f.plan \cap DOMAIN nodes = {} => focus' \notin Near(f),
           ~past[i].nodeUndoable => i = Len(past) /\ focus' = None
    PROVE  Plot(nodes', past', future', focus', DOMAIN origin', Busy')
<1>1. PICK ns2, before2, after2, panel2 :
          ns2 = nodes' /\ before2 = past' /\ after2 = future' /\ panel2 = focus'
    OBVIOUS
<1>2. /\ ns2 = ApplyPatch(nodes, past[i], "undo") /\ before2 = RemoveAt(past, i)
      /\ after2 = <<past[i]>> \o future /\ UNCHANGED <<open, retryable, origin>>
    BY <1>1 DEF UndoAt
<1>3. /\ f.plan \cap DOMAIN nodes = {} => panel2 \notin Near(f)
      /\ ~past[i].nodeUndoable => i = Len(past) /\ panel2 = None
    BY <1>1
<1>4. /\ Plotted(f, nodes, past, future, focus, DOMAIN origin, Busy)
      /\ nodes \in NodeMap /\ Root \in DOMAIN nodes
      /\ past \in Seq(EntryType) /\ future \in Seq(EntryType)
    BY SituationIs DEF Situation
<1>5. Plotted(f, ns2, before2, after2, panel2, DOMAIN origin, Busy)
    BY <1>2, <1>3, <1>4, UndonePlotted
<1>6. Plot(ns2, before2, after2, panel2, DOMAIN origin, Busy)
    BY <1>5 DEF Plot
<1>7. Busy' = Busy /\ DOMAIN origin' = DOMAIN origin
    BY <1>2 DEF Busy, OpenNodes
<1> QED BY <1>1, <1>6, <1>7

LEMMA RedoAtPlot ==
    ASSUME TreeInv, NEW f, Situation(f), NEW i \in DOMAIN future, RedoAt(i),
           f.plan \cap DOMAIN nodes = {} => focus' \notin Near(f),
           \A k \in DOMAIN future : f.plan \cap DOMAIN nodes = {} /\ Leads(f, future, k) =>
                                       i = k \/ ~Touches(f, future[i])
    PROVE  Plot(nodes', past', future', focus', DOMAIN origin', Busy')
<1>1. PICK ns2, before2, after2, panel2 :
          ns2 = nodes' /\ before2 = past' /\ after2 = future' /\ panel2 = focus'
    OBVIOUS
<1>2. /\ ns2 = ApplyPatch(nodes, future[i], "redo") /\ before2 = Capped(Append(past, future[i]))
      /\ after2 = RemoveAt(future, i) /\ UNCHANGED <<open, retryable, origin>>
    BY <1>1 DEF RedoAt
<1>3. f.plan \cap DOMAIN nodes = {} => panel2 \notin Near(f)
    BY <1>1
<1>4. /\ Plotted(f, nodes, past, future, focus, DOMAIN origin, Busy)
      /\ nodes \in NodeMap /\ Root \in DOMAIN nodes /\ session.entries \in Nat \ {0}
      /\ past \in Seq(EntryType) /\ future \in Seq(EntryType)
    BY SituationIs DEF Situation
<1>5. Plotted(f, ns2, before2, after2, panel2, DOMAIN origin, Busy)
    BY <1>2, <1>3, <1>4, RedonePlotted
<1>6. Plot(ns2, before2, after2, panel2, DOMAIN origin, Busy)
    BY <1>5 DEF Plot
<1>7. Busy' = Busy /\ DOMAIN origin' = DOMAIN origin
    BY <1>2 DEF Busy, OpenNodes
<1> QED BY <1>1, <1>6, <1>7

LEMMA UndoPlot ==
    ASSUME TreeInv, NEW f, Situation(f), Undo
    PROVE  Plot(nodes', past', future', focus', DOMAIN origin', Busy')
<1>1. UndoAt(Len(past)) /\ focus' = None /\ Len(past) \in DOMAIN past
    BY LastOfPast DEF Undo
<1>2. None \notin Near(f)
    BY SituationIs, NearDrawn
<1> QED BY <1>1, <1>2, UndoAtPlot

LEMMA RedoPlot ==
    ASSUME TreeInv, NEW f, Situation(f), Redo
    PROVE  Plot(nodes', past', future', focus', DOMAIN origin', Busy')
<1>1. RedoAt(1) /\ focus' = None /\ 1 \in DOMAIN future
    BY LastOfPast DEF Redo
<1>2. None \notin Near(f)
    BY SituationIs, NearDrawn
<1>3. ASSUME NEW k \in DOMAIN future, Leads(f, future, k)
      PROVE  1 = k \/ ~Touches(f, future[1])
    <2>1. k \in 1..Len(future) /\ Len(future) \in Nat
        BY HistorySides
    <2>2. CASE k # 1
        <3>1. 1 \in DOMAIN future \ {k} /\ 1 < k
            BY <1>1, <2>1, <2>2
        <3> QED BY <1>3, <3>1 DEF Leads
    <2> QED BY <2>2
<1> QED BY <1>1, <1>2, <1>3, RedoAtPlot

\* The node a panel is opened on is not near tasks that are away, nor is the one
\* it stays open on.
LEMMA PanelStays ==
    ASSUME TreeInv, NEW f, Situation(f), f.plan \cap DOMAIN nodes = {}, NEW n, PanelOn(n)
    PROVE  n \notin Near(f) /\ focus' \notin Near(f)
<1>1. n \notin Near(f)
    BY PanelAway DEF PanelOn
<1> QED BY <1>1, PanelAway DEF PanelOn

LEMMA NodeRingsPlot ==
    ASSUME TreeInv, NEW f, Situation(f), NEW n \in AnyId, UndoNode(n) \/ RedoNode(n)
    PROVE  Plot(nodes', past', future', focus', DOMAIN origin', Busy')
<1>1. PanelOn(n)
    BY DEF UndoNode, RedoNode
<1>2. f.plan \cap DOMAIN nodes = {} => n \notin Near(f) /\ focus' \notin Near(f)
    BY <1>1, PanelStays
<1>3. CASE UndoNode(n)
    <2>1. PICK i \in DOMAIN past : past[i].nodeUndoable /\ UndoAt(i)
        BY <1>3 DEF UndoNode, Affecting
    <2> QED BY <1>2, <2>1, UndoAtPlot
<1>4. CASE RedoNode(n)
    <2>1. PICK i \in DOMAIN future :
              n \in future[i].affected /\ future[i].nodeUndoable /\ RedoAt(i)
        BY <1>4 DEF RedoNode, Affecting
    <2>2. Plain(f, future[i])
        <3>1. AllKnown(f, future)
            BY DEF Situation, Plotted
        <3> QED BY <2>1, <3>1, KnownEntry
    <2>3. f.plan \cap DOMAIN nodes = {} => ~Touches(f, future[i])
        BY <1>2, <2>1, <2>2 DEF Plain
    <2> QED BY <1>2, <2>1, <2>3, RedoAtPlot
<1> QED BY <1>3, <1>4

-----------------------------------------------------------------------------
(* A plan is applied.                                                       *)

\* The tasks a and b are drawn, a below the root and b below the node above.
BatchFrame(f, a, b, above) ==
    [home |-> [n \in AnyId |-> IF n = a THEN Root ELSE IF n = b THEN above ELSE f.home[n]],
     plan |-> {a, b}, ids |-> f.ids \cup {a, b}]

LEMMA BatchFrameIs ==
    ASSUME NEW f, FrameOK(f), f.plan = {}, NEW a \in NodeId \ f.ids, NEW b \in NodeId \ f.ids,
           NEW above \in {Root, a}, NEW f2, f2 = BatchFrame(f, a, b, above)
    PROVE  /\ FrameOK(f2) /\ FrameGrows(f2, f)
           /\ f2.plan = {a, b} /\ f2.ids = f.ids \cup {a, b}
           /\ \A n \in {a, b} : f2.home[n] = IF n = a THEN Root ELSE above
           /\ f2.plan \cap (f.ids \cup {Root}) = {}
<1>1. /\ f2.plan = {a, b} /\ f2.ids = f.ids \cup {a, b}
      /\ f2.home = [n \in AnyId |-> IF n = a THEN Root ELSE IF n = b THEN above ELSE f.home[n]]
    BY DEF BatchFrame
<1>2. /\ f.home \in [AnyId -> AnyId \cup {None}] /\ f.ids \subseteq NodeId
      /\ Root \notin NodeId /\ {a, b, Root, above} \subseteq AnyId
      /\ f.ids \subseteq AnyId
    BY EditsAssumption DEF FrameOK, Frame, AnyId
<1>3. f2.home \in [AnyId -> AnyId \cup {None}]
    BY <1>1, <1>2
<1>4. /\ \A n \in {a, b} : f2.home[n] = IF n = a THEN Root ELSE above
      /\ \A n \in f.ids \cup {Root} : n \notin {a, b} /\ f2.home[n] = f.home[n]
    BY <1>1, <1>2
<1>5. f2 \in Frame
    BY <1>1, <1>2, <1>3 DEF BatchFrame, Frame
<1>6. FrameGrows(f2, f)
    BY <1>1, <1>4 DEF FrameGrows
<1>7. FrameOK(f2)
    <2>1. f2.home[Root] = None
        BY <1>4 DEF FrameOK
    <2>2. \A t \in f2.plan : f2.home[t] \in f2.plan \cup {Root}
        BY <1>1, <1>4
    <2> QED BY <1>1, <1>5, <2>1, <2>2 DEF FrameOK
<1> QED BY <1>1, <1>4, <1>6, <1>7

\* What is known without tasks is known, and untouched, with new ones.
LEMMA PlainJoined ==
    ASSUME NEW f, FrameOK(f), f.plan = {}, NEW f2, FrameGrows(f2, f),
           f2.plan \cap (f.ids \cup {Root}) = {}, NEW e, Plain(f, e) \/ Batch(f, e)
    PROVE  Plain(f2, e) /\ ~Touches(f2, e)
<1>1. Plain(f, e)
    BY DEF Batch
<1>2. ASSUME NEW n \in DOMAIN e.patch[1]
      PROVE  Mild(f2, n, e.patch[1][n]) /\ n \notin f2.plan
    <2>1. PICK c : c = e.patch[1][n]
        OBVIOUS
    <2>2. Mild(f, n, c)
        BY <1>1, <2>1 DEF Plain
    <2>3. n \in f.ids \cup {Root} /\ n \in f2.ids \cup {Root} /\ n \notin f2.plan
        BY <2>2 DEF Mild, FrameGrows
    <2>4. \A s : Placed(f, n, s) => Placed(f2, n, s) /\ ToSet(s.children) \cap f2.plan = {}
        <3>1. \A s : Placed(f, n, s) => Placed(f2, n, s)
            BY PlacedGrows
        <3>2. \A s : Placed(f, n, s) => ToSet(s.children) \subseteq f.ids
            BY DEF Placed
        <3> QED BY <3>1, <3>2
    <2>5. Mild(f2, n, c)
        BY <2>2, <2>3, <2>4 DEF Mild, SnapshotPlaced
    <2> QED BY <2>1, <2>3, <2>5
<1>3. ~Touches(f2, e)
    BY <1>2 DEF Touches
<1> QED BY <1>1, <1>2, <1>3 DEF Plain

\* Without a task in the tree no entry speaks of one any longer.
Quiet(f) ==
    /\ FrameOK(f) /\ f.plan = {} /\ f.ids = DOMAIN origin
    /\ AllPlaced(f, nodes) /\ AllKnown(f, past)

LEMMA QuietFrame ==
    ASSUME TreeInv, NEW f, Situation(f), \A n \in DOMAIN nodes : ~nodes[n].task
    PROVE  \E f0 : Quiet(f0)
<1>1. FrameOK(f) /\ f.ids = DOMAIN origin /\ AllPlaced(f, nodes) /\ AllKnown(f, past)
    BY DEF Situation, Plotted
<1>2. CASE Planned(f, nodes, past, future)
    <2>1. ASSUME NEW t \in f.plan
          PROVE  FALSE
        <3>1. t \in DOMAIN nodes
            BY <1>2 DEF Planned, Standing
        <3>2. Placed(f, t, nodes[t])
            BY <1>1, <3>1 DEF AllPlaced
        <3>3. nodes[t].task
            BY <3>2 DEF Placed
        <3> QED BY <3>1, <3>3
    <2>2. Quiet(f)
        BY <1>1, <2>1 DEF Quiet
    <2> QED BY <2>2
<1>3. CASE Withdrawn(f, nodes, past, future, focus)
    <2>1. Quiet(Forgotten(f))
        BY <1>1, <1>3, ForgetGone, ForgottenIs DEF Quiet, Withdrawn
    <2> QED BY <2>1
<1> QED BY <1>2, <1>3 DEF Situation, Plotted

\* What APPLY_AUXO_PLAN draws and enters: batch are the tasks, by node.
Applied(a, b, up, batch, root, e) ==
    /\ up = [n \in {a, b} |-> up[n]] /\ DOMAIN batch = {a, b}
    /\ \A n \in {a, b} : /\ batch[n].parent = up[n] /\ batch[n].task = TRUE /\ batch[n] # None
                         /\ ToSet(batch[n].children) = {c \in {a, b} : up[c] = n}
    /\ root.parent = nodes[Root].parent /\ root.task = nodes[Root].task /\ root # None
    /\ ToSet(root.children) = {c \in {a, b} : up[c] = Root}
    /\ e.nodeUndoable = FALSE /\ Len(e.patch) = 1 /\ e.affected = {a, b} \cup {Root}
    /\ DOMAIN e.patch[1] = {a, b} \cup {Root}
    /\ e.patch[1][Root] = Change(nodes[Root], root)
    /\ \A n \in {a, b} : e.patch[1][n] = Change(None, batch[n])

LEMMA ApplyAuxoPlanIs ==
    ASSUME TreeInv, NEW a \in NodeId, NEW b \in NodeId, NEW above \in {Root, a},
           ApplyAuxoPlan(a, b, above)
    PROVE  \E up, batch, root, e :
              /\ Applied(a, b, up, batch, root, e)
              /\ \A n \in {a, b} : up[n] = IF n = a THEN Root ELSE above
              /\ nodes' = Override(Override(nodes, batch), [n \in {Root} |-> root])
              /\ PushHistory(e)
<1> DEFINE ids == IF a = b THEN <<a>> ELSE <<a, b>>
           up(n) == IF n = a THEN Root ELSE above
           under(n) == Without(ids, {c \in ToSet(ids) : up(c) # n})
           task(n) == [NewNode("branch", up(n), "complete") EXCEPT
                          !.children = under(n), !.context = "valid", !.task = TRUE]
           batch == [n \in ToSet(ids) |-> task(n)]
           root == [nodes[Root] EXCEPT !.children = under(Root)]
           group == [n \in {Root, a, b} |-> IF n = Root THEN Change(nodes[Root], root)
                                            ELSE Change(None, batch[n])]
           one == Entry(Root, {Root, a, b}, <<group>>)
           e == [one EXCEPT !.nodeUndoable = FALSE]
           ups == [n \in {a, b} |-> up(n)]
<1>1. /\ nodes' = Override(Override(nodes, batch), [n \in {Root} |-> root])
      /\ PushHistory(e)
    BY DEF ApplyAuxoPlan
<1>2. a \in AnyId /\ b \in AnyId /\ Root \in AnyId /\ a # Root /\ b # Root
    BY EditsAssumption DEF AnyId
<1>3. ids \in Seq(AnyId) /\ ToSet(ids) = {a, b}
    <2>1. CASE a = b
        <3>1. ids = <<a>> /\ DOMAIN <<a>> = {1} /\ <<a>>[1] = a
            BY <2>1
        <3> QED BY <1>2, <2>1, <3>1 DEF ToSet
    <2>2. CASE a # b
        <3>1. ids = <<a, b>> /\ DOMAIN <<a, b>> = {1, 2} /\ <<a, b>>[1] = a /\ <<a, b>>[2] = b
            BY <2>2
        <3> QED BY <1>2, <2>2, <3>1 DEF ToSet
    <2> QED BY <2>1, <2>2
<1> HIDE DEF ids
<1>4. ASSUME NEW n
      PROVE  /\ under(n) \in Seq(AnyId)
             /\ ToSet(under(n)) = {c \in {a, b} : ups[c] = n}
    <2>1. PICK out : out = {c \in ToSet(ids) : up(c) # n}
        OBVIOUS
    <2>2. Without(ids, out) \in Seq(AnyId) /\ ToSet(Without(ids, out)) = ToSet(ids) \ out
        BY <1>3, WithoutElements
    <2>3. ToSet(ids) \ out = {c \in {a, b} : ups[c] = n}
        BY <1>3, <2>1
    <2> QED BY <2>1, <2>2, <2>3
<1>5. ASSUME NEW n \in {a, b}
      PROVE  /\ task(n) \in Node /\ task(n).children = under(n)
             /\ task(n).parent = ups[n] /\ task(n).task = TRUE
    <2>1. up(n) \in AnyId
        BY <1>2
    <2>2. ups[n] = up(n)
        OBVIOUS
    <2> HIDE DEF up, ups
    <2>3. NewNode("branch", up(n), "complete") \in Node
        <3>1. <<>> \in Seq(AnyId)
            OBVIOUS
        <3> QED BY <2>1, <3>1 DEF NewNode, Node, Status
    <2>4. under(n) \in Seq(AnyId)
        BY <1>4
    <2> HIDE DEF under
    <2> QED BY <2>2, <2>3, <2>4 DEF Node, NewNode
<1> HIDE DEF under, task
<1>6. nodes[Root] \in Node
    BY RootThere, TreeNodes
<1>7. /\ root \in Node /\ root.parent = nodes[Root].parent /\ root.task = nodes[Root].task
      /\ root.children = under(Root)
    BY <1>4, <1>6 DEF Node
<1> HIDE DEF root
<1>8. /\ DOMAIN batch = {a, b}
      /\ \A n \in {a, b} : batch[n] = task(n)
    BY <1>3
<1>9. /\ DOMAIN group = {a, b} \cup {Root} /\ group[Root] = Change(nodes[Root], root)
      /\ \A n \in {a, b} : group[n] = Change(None, batch[n])
    BY <1>2
<1> HIDE DEF batch, group
<1>10. /\ e.nodeUndoable = FALSE /\ e.patch = <<group>> /\ e.affected = {Root, a, b}
    BY DEF Entry
<1>11. Len(e.patch) = 1 /\ e.patch[1] = group /\ e.affected = {a, b} \cup {Root}
    BY <1>10
<1> HIDE DEF e
<1>12. ups = [n \in {a, b} |-> ups[n]] /\ \A n \in {a, b} : ups[n] = IF n = a THEN Root ELSE above
    OBVIOUS
<1> HIDE DEF ups
<1>13. \A n \in {a, b} : /\ batch[n].parent = ups[n] /\ batch[n].task = TRUE /\ batch[n] # None
                         /\ ToSet(batch[n].children) = {c \in {a, b} : ups[c] = n}
    BY <1>4, <1>5, <1>8, NoneAssumption
<1>14. root # None /\ ToSet(root.children) = {c \in {a, b} : ups[c] = Root}
    BY <1>4, <1>7, NoneAssumption
<1>15. Applied(a, b, ups, batch, root, e)
    BY <1>7, <1>8, <1>9, <1>10, <1>11, <1>12, <1>13, <1>14 DEF Applied
<1> QED BY <1>1, <1>12, <1>15

\* The frame f2 has just the tasks a and b, each below up; none is drawn yet.
Applying(f2, a, b, up) ==
    /\ FrameOK(f2) /\ f2.plan = {a, b} /\ {a, b} \subseteq f2.ids
    /\ \A n \in {a, b} : up[n] = f2.home[n]
    /\ Placed(f2, Root, nodes[Root]) /\ nodes[Root].children = <<>> /\ nodes[Root] # None

LEMMA AppliedPlaced ==
    ASSUME NEW f2, NEW a, NEW b, NEW up, Applying(f2, a, b, up),
           NEW batch, NEW root, NEW e, Applied(a, b, up, batch, root, e)
    PROVE  /\ Placed(f2, Root, root) /\ \A n \in {a, b} : Placed(f2, n, batch[n])
           /\ Batch(f2, e)
           /\ \A t \in f2.plan : \/ f2.home[t] = Root /\ t \in ToSet(root.children)
                                 \/ /\ f2.home[t] \in {a, b}
                                    /\ t \in ToSet(batch[f2.home[t]].children)
<1>1. PICK ab : ab = {a, b}
    OBVIOUS
<1>2. /\ DOMAIN batch = ab
      /\ \A n \in ab : /\ batch[n].parent = up[n] /\ batch[n].task = TRUE /\ batch[n] # None
                       /\ ToSet(batch[n].children) = {c \in ab : up[c] = n}
      /\ root.parent = nodes[Root].parent /\ root.task = nodes[Root].task /\ root # None
      /\ ToSet(root.children) = {c \in ab : up[c] = Root}
      /\ e.nodeUndoable = FALSE /\ Len(e.patch) = 1 /\ e.affected = ab \cup {Root}
      /\ DOMAIN e.patch[1] = ab \cup {Root}
      /\ e.patch[1][Root] = Change(nodes[Root], root)
      /\ \A n \in ab : e.patch[1][n] = Change(None, batch[n])
    BY <1>1 DEF Applied
<1>3. /\ FrameOK(f2) /\ f2.plan = {a, b} /\ {a, b} \subseteq f2.ids
       /\ \A n \in {a, b} : up[n] = f2.home[n]
       /\ Placed(f2, Root, nodes[Root]) /\ nodes[Root].children = <<>> /\ nodes[Root] # None
    BY DEF Applying
<1>4. /\ f2.plan = ab /\ ab \subseteq f2.ids /\ Root \notin ab /\ ab # {}
      /\ \A n \in ab : up[n] = f2.home[n]
      /\ \A n \in ab : f2.home[n] \in ab \cup {Root}
    BY <1>1, <1>3, NearDrawn DEF FrameOK
<1>5. Placed(f2, Root, root)
    BY <1>2, <1>4, <1>3 DEF Placed
<1>6. ASSUME NEW n \in ab
      PROVE  Placed(f2, n, batch[n])
    BY <1>2, <1>4 DEF Placed
<1>7. ASSUME NEW t \in f2.plan
      PROVE  \/ f2.home[t] = Root /\ t \in ToSet(root.children)
             \/ f2.home[t] \in ab /\ t \in ToSet(batch[f2.home[t]].children)
    <2>1. t \in ab /\ up[t] = f2.home[t] /\ f2.home[t] \in ab \cup {Root}
        BY <1>4
    <2> QED BY <1>2, <2>1
<1>8. Batch(f2, e)
    <2>1. PICK group : group = e.patch[1]
        OBVIOUS
    <2>2. /\ group[Root].before = nodes[Root] /\ group[Root].after = root
          /\ \A n \in ab : group[n].before = None /\ group[n].after = batch[n]
        <3>1. \A x, y : Change(x, y).before = x /\ Change(x, y).after = y
            BY DEF Change
        <3>2. group[Root] = Change(nodes[Root], root) /\ \A n \in ab : group[n] = Change(None, batch[n])
            BY <1>2, <2>1
        <3> QED BY ONLY <3>1, <3>2
    <2>3. ToSet(group[Root].before.children) \cap f2.plan = {}
        BY <1>3, <2>2 DEF ToSet
    <2>4. \A n \in f2.plan \cup {Root} : group[n].after # None /\ Placed(f2, n, group[n].after)
        BY <1>2, <1>4, <1>5, <1>6, <2>2
    <2>5. \A t \in f2.plan : /\ group[t].before = None
                             /\ t \in ToSet(group[f2.home[t]].after.children)
        BY <1>4, <1>7, <2>2
    <2>6. group[Root].before # None /\ Placed(f2, Root, group[Root].before)
        BY <1>3, <2>2
    <2>7. /\ e.nodeUndoable = FALSE /\ Len(e.patch) = 1 /\ f2.plan # {}
          /\ e.affected = f2.plan \cup {Root} /\ DOMAIN group = f2.plan \cup {Root}
        BY <1>2, <1>4, <2>1
    <2> QED BY <2>1, <2>3, <2>4, <2>5, <2>6, <2>7 DEF Batch
<1> QED BY <1>1, <1>5, <1>6, <1>7, <1>8

LEMMA ApplyAuxoPlanPlot ==
    ASSUME TreeInv, NEW f, Situation(f), NEW a \in NodeId, NEW b \in NodeId,
           NEW above \in {Root, a}, ApplyAuxoPlan(a, b, above)
    PROVE  Plot(nodes', past', future', focus', DOMAIN origin', Busy')
<1> DEFINE ids == DOMAIN origin
<1>1. /\ {a, b} \subseteq NodeId \ ids /\ nodes[Root].children = <<>>
      /\ \A n \in DOMAIN nodes : ~nodes[n].task
      /\ origin' = Override(origin, [n \in {a, b} |-> {}])
      /\ UNCHANGED <<focus, open, retryable>>
    BY DEF ApplyAuxoPlan, Fresh
<1>2. PICK f0 : Quiet(f0)
    BY <1>1, QuietFrame
<1>3. /\ FrameOK(f0) /\ f0.plan = {} /\ f0.ids = ids
      /\ AllPlaced(f0, nodes) /\ AllKnown(f0, past)
    BY <1>2 DEF Quiet
<1>4. PICK f2 : f2 = BatchFrame(f0, a, b, above)
    OBVIOUS
<1>5. /\ FrameOK(f2) /\ FrameGrows(f2, f0)
      /\ f2.plan = {a, b} /\ f2.ids = ids \cup {a, b}
      /\ \A n \in {a, b} : f2.home[n] = IF n = a THEN Root ELSE above
      /\ f2.plan \cap (ids \cup {Root}) = {}
    BY <1>1, <1>3, <1>4, BatchFrameIs
<1>6. PICK up, batch, root, e :
          /\ Applied(a, b, up, batch, root, e)
          /\ \A n \in {a, b} : up[n] = IF n = a THEN Root ELSE above
          /\ nodes' = Override(Override(nodes, batch), [n \in {Root} |-> root])
          /\ PushHistory(e)
    BY ApplyAuxoPlanIs
<1>7. AllPlaced(f2, nodes)
    BY <1>3, <1>5, AllPlacedGrow
<1>8. Root \in DOMAIN nodes /\ nodes[Root] # None /\ Placed(f2, Root, nodes[Root])
    BY <1>7, RootThere, TreeNodes, NoneAssumption DEF AllPlaced
<1>9. /\ Placed(f2, Root, root) /\ \A n \in {a, b} : Placed(f2, n, batch[n])
      /\ Batch(f2, e)
      /\ \A t \in f2.plan : \/ f2.home[t] = Root /\ t \in ToSet(root.children)
                            \/ /\ f2.home[t] \in {a, b}
                               /\ t \in ToSet(batch[f2.home[t]].children)
    <2>1. {a, b} \subseteq f2.ids /\ \A n \in {a, b} : up[n] = f2.home[n]
        BY <1>5, <1>6
    <2>2. Applied(a, b, up, batch, root, e)
        BY <1>6
    <2>3. FrameOK(f2) /\ f2.plan = {a, b}
        BY <1>5
    <2>4. Placed(f2, Root, nodes[Root]) /\ nodes[Root].children = <<>> /\ nodes[Root] # None
        BY <1>1, <1>8
    <2>5. Applying(f2, a, b, up)
        BY <2>1, <2>3, <2>4 DEF Applying
    <2> QED BY ONLY <2>2, <2>5, AppliedPlaced
<1>10. PICK ns2 : ns2 = nodes'
    OBVIOUS
<1>11. /\ DOMAIN ns2 = DOMAIN nodes \cup {a, b} /\ ns2[Root] = root
       /\ \A n \in {a, b} : ns2[n] = batch[n]
       /\ \A n \in DOMAIN nodes \ {Root, a, b} : ns2[n] = nodes[n]
    <2>1. PICK full : full = Override(nodes, batch)
        OBVIOUS
    <2>2. DOMAIN batch = {a, b}
        BY <1>6 DEF Applied
    <2>3. /\ DOMAIN full = DOMAIN nodes \cup {a, b}
          /\ \A n \in {a, b} : full[n] = batch[n]
          /\ \A n \in DOMAIN nodes \ {a, b} : full[n] = nodes[n]
        <3>1. /\ DOMAIN Override(nodes, batch) = DOMAIN nodes \cup DOMAIN batch
              /\ \A n \in DOMAIN batch : Override(nodes, batch)[n] = batch[n]
              /\ \A n \in DOMAIN nodes \ DOMAIN batch : Override(nodes, batch)[n] = nodes[n]
            BY ONLY OverrideIs
        <3> QED BY ONLY <2>1, <2>2, <3>1
    <2>4. PICK top : top = [n \in {Root} |-> root]
        OBVIOUS
    <2>5. DOMAIN top = {Root} /\ top[Root] = root /\ ns2 = Override(full, top)
        BY <1>6, <1>10, <2>1, <2>4
    <2>6. /\ DOMAIN ns2 = DOMAIN full \cup {Root} /\ ns2[Root] = root
          /\ \A n \in DOMAIN full \ {Root} : ns2[n] = full[n]
        <3>1. /\ DOMAIN Override(full, top) = DOMAIN full \cup DOMAIN top
              /\ \A n \in DOMAIN top : Override(full, top)[n] = top[n]
              /\ \A n \in DOMAIN full \ DOMAIN top : Override(full, top)[n] = full[n]
            BY ONLY OverrideIs
        <3> QED BY ONLY <2>5, <3>1
    <2>7. Root \notin {a, b}
        BY EditsAssumption
    <2> QED BY <1>8, <2>3, <2>6, <2>7
<1>12. AllPlaced(f2, ns2)
    <2> SUFFICES ASSUME NEW n \in DOMAIN ns2
                 PROVE  Placed(f2, n, ns2[n])
        BY DEF AllPlaced
    <2>1. n = Root \/ n \in {a, b} \/ n \in DOMAIN nodes \ {Root, a, b}
        BY <1>11
    <2>2. n \in DOMAIN nodes => Placed(f2, n, nodes[n])
        BY <1>7 DEF AllPlaced
    <2> QED BY <1>9, <1>11, <2>1, <2>2
<1>13. Standing(f2, ns2)
    BY <1>5, <1>9, <1>11 DEF Standing
<1>14. \A i \in DOMAIN past : Plain(f2, past[i]) /\ ~Touches(f2, past[i])
    <2>1. f2.plan \cap (f0.ids \cup {Root}) = {}
        BY <1>3, <1>5
    <2>2. \A i \in DOMAIN past : Plain(f0, past[i]) \/ Batch(f0, past[i])
        BY <1>3 DEF AllKnown
    <2> QED BY <1>3, <1>5, <2>1, <2>2, PlainJoined
<1>15. PICK before2 : before2 = past'
    OBVIOUS
<1>16. before2 = Capped(Append(past, e)) /\ future' = <<>>
    BY <1>6, <1>15 DEF PushHistory
<1>17. AllKnown(f2, before2) /\ InTurn(f2, before2)
    <2>1. past \in Seq(EntryType) /\ session.entries \in Nat \ {0}
        BY HistorySides
    <2>2. AllKnown(f2, past) /\ InTurn(f2, past)
        BY <1>14, UntouchedInTurn DEF AllKnown
    <2>3. AllKnown(f2, before2)
        BY <1>9, <1>16, <2>1, <2>2, PushedKnown
    <2>4. InTurn(f2, before2)
        BY <1>14, <1>16, <2>1, <2>2, PushedInTurn
    <2> QED BY <2>3, <2>4
<1>18. Planned(f2, ns2, before2, <<>>)
    BY <1>13, <1>17, EmptyKnown DEF Planned
<1>19. Busy \subseteq f2.ids \ f2.plan
    <2>1. Busy \subseteq ids
        BY SituationIs
    <2> QED BY <1>5, <2>1
<1>20. Plotted(f2, ns2, before2, <<>>, focus, ids \cup {a, b}, Busy)
    BY <1>5, <1>12, <1>17, <1>18, <1>19, EmptyKnown DEF Plotted
<1>21. Plot(ns2, before2, <<>>, focus, ids \cup {a, b}, Busy)
    BY <1>20 DEF Plot
<1>22. DOMAIN origin' = ids \cup {a, b}
    <2>1. PICK new : new = [n \in {a, b} |-> {}]
        OBVIOUS
    <2>2. DOMAIN new = {a, b} /\ origin' = Override(origin, new)
        BY <1>1, <2>1
    <2> QED BY <2>2, OverrideIs
<1>23. Busy' = Busy /\ focus' = focus
    BY <1>1 DEF Busy, OpenNodes
<1> QED BY <1>10, <1>15, <1>16, <1>21, <1>22, <1>23

-----------------------------------------------------------------------------
(* The plot goes on.                                                        *)

LEMMA PlanStart == ASSUME Init PROVE PlanInv
<1> DEFINE alone == [n \in {Root} |-> [NewNode("root", None, "complete")
                                          EXCEPT !.context = "valid"]]
           f == [home |-> [n \in AnyId |-> None], plan |-> {}, ids |-> {}]
<1>1. /\ nodes = alone /\ graftSource = None /\ past = <<>> /\ future = <<>>
      /\ open = {} /\ retryable = {} /\ origin = [n \in {} |-> {}]
    BY DEF Init
<1>2. Root \in AnyId /\ f.plan = {} /\ f.ids = {} /\ f.home[Root] = None
    BY DEF AnyId
<1>3. FrameOK(f)
    <2>1. f \in Frame
        BY DEF Frame
    <2> QED BY <1>2, <2>1 DEF FrameOK
<1>4. AllPlaced(f, nodes)
    <2>1. PICK s : s = [NewNode("root", None, "complete") EXCEPT !.context = "valid"]
        OBVIOUS
    <2>2. s.parent = None /\ s.children = <<>> /\ s.task = FALSE
        BY <2>1 DEF NewNode
    <2>3. Placed(f, Root, s)
        BY <1>2, <2>2 DEF Placed, ToSet
    <2>4. DOMAIN nodes = {Root} /\ nodes[Root] = s
        BY <1>1, <2>1
    <2> HIDE DEF f
    <2> QED BY <2>3, <2>4 DEF AllPlaced
<1> HIDE DEF f
<1>5. Busy = {} /\ DOMAIN origin = {}
    BY <1>1 DEF Busy, OpenNodes
<1>6. Plotted(f, nodes, <<>>, <<>>, focus, f.ids, {})
    BY <1>2, <1>3, <1>4, EmptyKnown, NoTasksPlotted
<1>7. Plot(nodes, past, future, focus, DOMAIN origin, Busy)
    BY <1>1, <1>2, <1>5, <1>6 DEF Plot
<1> QED BY <1>1, <1>7 DEF PlanInv

LEMMA IdlePlot ==
    ASSUME TreeInv, NEW f, Situation(f),
           UNCHANGED <<nodes, focus, past, future, open, retryable, origin>>
    PROVE  Plot(nodes', past', future', focus', DOMAIN origin', Busy')
<1>1. Busy' = Busy
    BY DEF Busy, OpenNodes
<1> QED BY <1>1, SameHistory, AlikeSame, SteadyPlot

LEMMA SessionKept ==
    ASSUME [Next]_vars
    PROVE  session' = session
<1>1. CASE \E n \in NodeId, at \in AnyId : StartBranch(n, at) \/ Leaf(n, at)
    BY <1>1 DEF StartBranch, Leaf
<1>2. CASE \E n \in NodeId : \/ UpdateBranch(n) \/ RetryAnswer(n)
                             \/ RetrySemantics(n) \/ ToggleLeafContext(n)
                             \/ GraftStart(n) \/ Prune(n) \/ LayerMove(n)
    BY <1>2 DEF UpdateBranch, RetryAnswer, RetrySemantics, ToggleLeafContext, GraftStart, Prune,
                LayerMove
<1>3. CASE \E r \in open, status \in Status \ {"streaming"} : SettleBranch(r, status)
    BY <1>3 DEF SettleBranch
<1>4. CASE \E r \in structuring : SetNodeSemantics(r) \/ SemanticsFail(r)
    BY <1>4 DEF SetNodeSemantics, SemanticsFail
<1>5. ASSUME NEW a \in NodeId, NEW b \in NodeId, NEW above \in {Root, a},
             ApplyAuxoPlan(a, b, above)
      PROVE  session' = session
    BY <1>5 DEF ApplyAuxoPlan
<1>6. CASE GraftCancel \/ Reload
    BY <1>6 DEF GraftCancel, Reload
<1>7. CASE Undo \/ Redo
    BY <1>7 DEF Undo, Redo, UndoAt, RedoAt
<1>8. CASE \E n \in AnyId : GraftConfirm(n) \/ UndoNode(n) \/ RedoNode(n)
    BY <1>8 DEF GraftConfirm, UndoNode, RedoNode, UndoAt, RedoAt
<1>9. CASE UNCHANGED vars
    BY <1>9 DEF vars
<1> QED BY <1>1, <1>2, <1>3, <1>4, <1>5, <1>6, <1>7, <1>8, <1>9 DEF Next

LEMMA PlanStep ==
    ASSUME TreeInv, PlanInv, [Next]_vars
    PROVE  PlanInv'
<1>1. session' = session
    BY SessionKept
<1> SUFFICES ASSUME NoMoves
             PROVE  /\ graftSource' = None
                    /\ Plot(nodes', past', future', focus', DOMAIN origin', Busy')
    BY <1>1 DEF PlanInv, NoMoves, Does
<1>2. graftSource = None /\ ~Does("graft") /\ ~Does("prune")
    BY DEF PlanInv, NoMoves
<1>3. PICK f : Situation(f)
    BY DEF PlanInv, Plot, Situation
<1> DEFINE Goal == /\ graftSource' = None
                   /\ Plot(nodes', past', future', focus', DOMAIN origin', Busy')
<1>4. ASSUME NEW n \in NodeId, NEW at \in AnyId, StartBranch(n, at) \/ Leaf(n, at)
      PROVE  Goal
    <2>1. graftSource' = None
        BY <1>2, <1>4 DEF StartBranch, Leaf
    <2> QED BY <1>3, <1>4, <2>1, StartBranchPlot, LeafPlot
<1>5. ASSUME NEW n \in NodeId, \/ UpdateBranch(n) \/ RetryAnswer(n) \/ RetrySemantics(n)
                               \/ ToggleLeafContext(n) \/ LayerMove(n)
      PROVE  Goal
    <2>1. graftSource' = None
        BY <1>2, <1>5 DEF UpdateBranch, RetryAnswer, RetrySemantics, ToggleLeafContext, LayerMove
    <2>2. CASE RetrySemantics(n)
        <3>1. UNCHANGED <<nodes, focus, past, future, open, retryable, origin>>
            BY <2>2 DEF RetrySemantics
        <3> QED BY <1>3, <2>1, <3>1, IdlePlot
    <2> QED BY <1>3, <1>5, <2>1, <2>2, UpdateBranchPlot, RetryAnswerPlot, ToggleLeafContextPlot,
               LayerMovePlot
<1>6. ASSUME NEW r \in open, NEW status \in Status \ {"streaming"}, SettleBranch(r, status)
      PROVE  Goal
    <2>1. graftSource' = None
        BY <1>2, <1>6 DEF SettleBranch
    <2> QED BY <1>3, <1>6, <2>1, SettleBranchPlot
<1>7. ASSUME NEW r \in structuring, SetNodeSemantics(r) \/ SemanticsFail(r)
      PROVE  Goal
    <2>1. graftSource' = None
        BY <1>2, <1>7 DEF SetNodeSemantics, SemanticsFail
    <2>2. CASE SemanticsFail(r)
        <3>1. UNCHANGED <<nodes, focus, past, future, open, retryable, origin>>
            BY <2>2 DEF SemanticsFail
        <3> QED BY <1>3, <2>1, <3>1, IdlePlot
    <2> QED BY <1>3, <1>7, <2>1, <2>2, SetNodeSemanticsPlot
<1>8. ASSUME NEW a \in NodeId, NEW b \in NodeId, NEW above \in {Root, a},
             ApplyAuxoPlan(a, b, above)
      PROVE  Goal
    <2>1. graftSource' = None
        BY <1>2, <1>8 DEF ApplyAuxoPlan
    <2> QED BY <1>3, <1>8, <2>1, ApplyAuxoPlanPlot
<1>9. CASE Reload
    <2>1. graftSource' = None
        BY <1>9 DEF Reload
    <2> QED BY <1>3, <1>9, <2>1, ReloadPlot
<1>10. CASE Undo \/ Redo
    <2>1. graftSource' = None
        BY <1>2, <1>10 DEF Undo, Redo, UndoAt, RedoAt
    <2> QED BY <1>3, <1>10, <2>1, UndoPlot, RedoPlot
<1>11. ASSUME NEW n \in AnyId, UndoNode(n) \/ RedoNode(n)
       PROVE  Goal
    <2>1. graftSource' = None
        BY <1>2, <1>11 DEF UndoNode, RedoNode, UndoAt, RedoAt
    <2> QED BY <1>3, <1>11, <2>1, NodeRingsPlot
<1>12. CASE UNCHANGED vars
    <2>1. UNCHANGED <<nodes, graftSource, focus, past, future, open, retryable, origin>>
        BY <1>12 DEF vars
    <2> QED BY <1>2, <1>3, <2>1, IdlePlot
<1>13. ASSUME NEW n, GraftStart(n) \/ GraftConfirm(n) \/ Prune(n) \/ GraftCancel
       PROVE  Goal
    BY <1>2, <1>13 DEF GraftStart, GraftConfirm, Prune, GraftCancel
<1>14. CASE Next
    <2>1. CASE \E n \in NodeId, at \in AnyId : StartBranch(n, at) \/ Leaf(n, at)
        BY <1>4, <2>1
    <2>2. CASE \E n \in NodeId : \/ UpdateBranch(n) \/ RetryAnswer(n)
                                 \/ RetrySemantics(n) \/ ToggleLeafContext(n)
                                 \/ GraftStart(n) \/ Prune(n) \/ LayerMove(n)
        BY <1>5, <1>13, <2>2
    <2>3. CASE \E r \in open, status \in Status \ {"streaming"} : SettleBranch(r, status)
        BY <1>6, <2>3
    <2>4. CASE \E r \in structuring : SetNodeSemantics(r) \/ SemanticsFail(r)
        BY <1>7, <2>4
    <2>5. CASE \E a, b \in NodeId : \E above \in {Root, a} : ApplyAuxoPlan(a, b, above)
        BY <1>8, <2>5
    <2>6. CASE GraftCancel
        BY <1>13, <2>6
    <2>7. CASE \E n \in AnyId : GraftConfirm(n) \/ UndoNode(n) \/ RedoNode(n)
        BY <1>11, <1>13, <2>7
    <2> QED BY <1>9, <1>10, <1>14, <2>1, <2>2, <2>3, <2>4, <2>5, <2>6, <2>7 DEF Next
<1> QED BY <1>12, <1>14 DEF Goal

LEMMA PlanAlways == TreeSpec => []PlanInv
<1>1. TreeInv /\ PlanInv /\ [Next]_vars => PlanInv'
    BY PlanStep
<1> QED BY <1>1, PlanStart, TreeAlways, PTL DEF TreeSpec

LEMMA InvPlans == ASSUME TreeInv, PlanInv PROVE PlansStandWhole
<1> SUFFICES ASSUME NoMoves
             PROVE  /\ \A e \in ToSet(past) : e.nodeUndoable \/ e.affected \subseteq DOMAIN nodes
                    /\ \A e \in ToSet(future) :
                          e.nodeUndoable \/ e.affected \cap DOMAIN nodes = {Root}
                    /\ \A n \in DOMAIN nodes : nodes[n].task =>
                          /\ nodes[n].parent \in DOMAIN nodes
                          /\ n \in ChildrenOf(nodes, nodes[n].parent)
    BY DEF PlansStandWhole, NoMoves
<1>1. PICK f : Situation(f)
    BY DEF PlanInv, Plot, Situation
<1>2. /\ FrameOK(f) /\ AllPlaced(f, nodes) /\ Root \in DOMAIN nodes
      /\ AllKnown(f, past) /\ AllKnown(f, future)
      /\ Planned(f, nodes, past, future) \/ Withdrawn(f, nodes, past, future, focus)
    BY <1>1, SituationIs DEF Situation, Plotted
<1>3. ASSUME NEW e \in ToSet(past), ~e.nodeUndoable
      PROVE  e.affected \subseteq DOMAIN nodes
    <2>1. PICK i \in DOMAIN past : e = past[i]
        BY DEF ToSet
    <2>2. Batch(f, e) /\ Touches(f, e)
        BY <1>2, <1>3, <2>1, KnownEntry
    <2>3. Planned(f, nodes, past, future)
        BY <1>2, <2>1, <2>2 DEF Withdrawn, Gone
    <2> QED BY <1>2, <2>2, <2>3 DEF Planned, Standing, Batch
<1>4. ASSUME NEW e \in ToSet(future), ~e.nodeUndoable
      PROVE  e.affected \cap DOMAIN nodes = {Root}
    <2>1. PICK i \in DOMAIN future : e = future[i]
        BY DEF ToSet
    <2>2. Batch(f, e)
        BY <1>2, <1>4, <2>1, KnownEntry
    <2>3. f.plan \cap DOMAIN nodes = {}
        BY <1>2, <1>4, <2>1 DEF Planned, Withdrawn, Gone
    <2>4. e.affected = f.plan \cup {Root}
        BY <2>2 DEF Batch
    <2> QED BY <1>2, <2>3, <2>4
<1>5. ASSUME NEW n \in DOMAIN nodes, nodes[n].task
      PROVE  nodes[n].parent \in DOMAIN nodes /\ n \in ChildrenOf(nodes, nodes[n].parent)
    <2>1. nodes[n].parent = f.home[n] /\ n \in f.plan
        BY <1>2, <1>5 DEF AllPlaced, Placed
    <2>2. Standing(f, nodes)
        BY <1>2, <2>1 DEF Planned, Withdrawn, Gone
    <2>3. f.home[n] \in f.plan \cup {Root}
        BY <1>2, <2>1 DEF FrameOK
    <2>4. f.home[n] \in DOMAIN nodes /\ n \in ToSet(nodes[f.home[n]].children)
        BY <1>2, <2>1, <2>2, <2>3 DEF Standing
    <2> QED BY <2>1, <2>4 DEF ChildrenOf
<1> QED BY <1>3, <1>4, <1>5

\* As long as nothing is grafted or pruned the tasks of a plan come and go
\* together: whatever is undone and redone, node by node or as a whole, each task
\* that is there hangs from the parent it names (treeReducer.ts:956-959).
THEOREM PlansAreWhole == TreeSpec => []PlansStandWhole
BY PlanAlways, TreeAlways, InvPlans, PTL
=============================================================================
