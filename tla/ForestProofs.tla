---------------------------- MODULE ForestProofs ----------------------------
(***************************************************************************)
(* Proofs about Forest, for every set of ids and every session.            *)
(*                                                                         *)
(* That projects stay isolated (HomesKept) is not inductive: the history   *)
(* holds snapshots of nodes and of whole projects, and an undo puts them   *)
(* back.  The invariant says of every entry what HomesKept says of the     *)
(* projects: its snapshots were made for the project they are put back to. *)
(* The store and the view have invariants of their own, further down.      *)
(***************************************************************************)
EXTENDS Forest, TreeEditsProofs

NodeKept(node) ==
    DOMAIN node = {"kind", "parent", "children", "status", "context", "included", "task"}

Kept(h, p, project) ==
    /\ DOMAIN project = {"nodes", "nutrients", "active", "transfers"}
    /\ AtHome(h, p, project)
    /\ \A n \in DOMAIN project.nodes : NodeKept(project.nodes[n])

AllKept(h, ps) == \A p \in DOMAIN ps : Kept(h, p, ps[p])

EntryKept(h, e) ==
    /\ \A n \in DOMAIN e.nodes \ {Root} : n \in DOMAIN h /\ h[n] = e.project
    /\ \A n \in DOMAIN e.nodes :
          \A snapshot \in {e.nodes[n].before, e.nodes[n].after} \ {None} :
             NodeKept(snapshot)
    /\ \A p \in DOMAIN e.projects : \A snapshot \in {e.projects[p].before,
                                                     e.projects[p].after} \ {None} :
          Kept(h, p, snapshot)

HistoryKept(h, entries) ==
    /\ entries \in Seq(ToSet(entries))
    /\ \A e \in ToSet(entries) : EntryKept(h, e)

WorkspaceInv ==
    /\ AllKept(home, projects) /\ AllKept(home, disk.projects)
    /\ HistoryKept(home, past) /\ HistoryKept(home, future)

Extends(h, g) == \A x \in DOMAIN h : x \in DOMAIN g /\ g[x] = h[x]

-----------------------------------------------------------------------------
(* Records that grow.                                                       *)

\* A record of homes that gains new ids keeps the old ones.
LEMMA OverrideExtends ==
  ASSUME NEW h, NEW g, DOMAIN g \cap DOMAIN h = {}
  PROVE  /\ Extends(h, Override(h, g))
         /\ \A x \in DOMAIN g : x \in DOMAIN Override(h, g) /\ Override(h, g)[x] = g[x]
BY DEF Extends, Override

\* A record that stands.
LEMMA HomeStands == ASSUME UNCHANGED home PROVE Extends(home, home')
BY DEF Extends

\* What is kept stays so when the record grows.
LEMMA KeptGrows ==
  ASSUME NEW h, NEW g, Extends(h, g), NEW p, NEW project,
         Kept(h, p, project)
  PROVE  Kept(g, p, project)
<1>1. AtHome(g, p, project)
  BY DEF Extends, Kept, AtHome
<1>2. QED
  BY <1>1 DEF Kept

\* So do all the projects.
LEMMA AllKeptGrows ==
  ASSUME NEW h, NEW g, Extends(h, g), NEW ps, AllKept(h, ps)
  PROVE  AllKept(g, ps)
BY KeptGrows DEF AllKept

\* And the history.
LEMMA HistoryGrows ==
  ASSUME NEW h, NEW g, Extends(h, g), NEW s, HistoryKept(h, s)
  PROVE  HistoryKept(g, s)
<1>1. SUFFICES ASSUME NEW e \in ToSet(s) PROVE EntryKept(g, e)
  BY DEF HistoryKept
<1>2. EntryKept(h, e)
  BY DEF HistoryKept
<1>3. \A n \in DOMAIN e.nodes \ {Root} : n \in DOMAIN g /\ g[n] = e.project
  BY <1>2 DEF EntryKept, Extends
<1>4. ASSUME NEW p \in DOMAIN e.projects,
             NEW x \in {e.projects[p].before, e.projects[p].after} \ {None}
      PROVE  Kept(g, p, x)
  BY <1>2, <1>4, KeptGrows DEF EntryKept
<1>5. QED
  BY <1>2, <1>3, <1>4 DEF EntryKept

-----------------------------------------------------------------------------
(* Nodes, projects and histories that change.                               *)

\* A node that is restored, or gains or loses a child.
LEMMA EditedNode ==
  ASSUME NEW node, NodeKept(node)
  PROVE  /\ NodeKept(NormalizeNode(node))
         /\ \A c : /\ NodeKept(WithChild(node, c))
                  /\ NodeKept(WithoutChild(node, c))
                  /\ NodeKept([node EXCEPT !.children = c])
<1>1. /\ DOMAIN NormalizeNode(node) = DOMAIN node
      /\ \A x : DOMAIN [node EXCEPT !.children = x] = DOMAIN node
  BY DEF NormalizeNode
<1>2. QED
  BY <1>1 DEF NodeKept, WithChild, WithoutChild

\* A node that is drawn.
LEMMA DrawnNode ==
  ASSUME NEW kind, NEW parent, NEW status
  PROVE  NodeKept(NewNode(kind, parent, status))
BY DEF NodeKept, NewNode

\* One project is replaced by one that is kept.
LEMMA UpdateKept ==
  ASSUME NEW h, NEW ps, AllKept(h, ps), NEW a \in DOMAIN ps, NEW p,
         Kept(h, a, p)
  PROVE  AllKept(h, [ps EXCEPT ![a] = p])
BY DEF AllKept

\* The nodes ns of the project p.
NodesAllKept(h, p, ns) ==
    /\ \A n \in DOMAIN ns \ {Root} : n \in DOMAIN h /\ h[n] = p
    /\ \A n \in DOMAIN ns : NodeKept(ns[n])

\* A project with other nodes.
LEMMA NodesKept ==
  ASSUME NEW h, NEW p, NEW project, Kept(h, p, project), NEW ns,
         NodesAllKept(h, p, ns)
  PROVE  Kept(h, p, WithNodes(project, ns))
<1>1. /\ DOMAIN WithNodes(project, ns) = DOMAIN project
      /\ WithNodes(project, ns).nodes = ns
      /\ WithNodes(project, ns).nutrients = project.nutrients
      /\ WithNodes(project, ns).active = project.active
      /\ WithNodes(project, ns).transfers = project.transfers
  BY DEF WithNodes, Kept
<1>2. QED
  BY <1>1 DEF Kept, AtHome, NodesAllKept

\* A project as it comes from the store or from the history.
LEMMA NormalizedKept ==
  ASSUME NEW h, NEW p, NEW project, Kept(h, p, project)
  PROVE  Kept(h, p, NormalizeProject(project))
<1> DEFINE ns == [n \in DOMAIN project.nodes |-> NormalizeNode(project.nodes[n])]
<1>1. NodesAllKept(h, p, ns)
  BY EditedNode DEF Kept, AtHome, NodesAllKept
<1> HIDE DEF ns
<1>2. Kept(h, p, WithNodes(project, ns))
  BY <1>1, NodesKept
<1>3. QED
  BY <1>2 DEF NormalizeProject, ns

\* Any history of entries that are kept.
LEMMA HistoryOf ==
  ASSUME NEW h, NEW S, \A e \in S : EntryKept(h, e), NEW s \in Seq(S)
  PROVE  HistoryKept(h, s)
<1>1. ToSet(s) \subseteq S /\ s \in Seq(ToSet(s))
  <2>1. Len(s) \in Nat /\ DOMAIN s = 1..Len(s) /\ \A i \in 1..Len(s) : s[i] \in S
    OBVIOUS
  <2>2. ToSet(s) = {s[i] : i \in 1..Len(s)}
    BY <2>1 DEF ToSet
  <2>3. s \in [1..Len(s) -> ToSet(s)]
    BY <2>1, <2>2
  <2>4. QED
    BY <2>1, <2>2, <2>3, SeqDef
<1>2. QED
  BY <1>1 DEF HistoryKept

\* An entry more, perhaps one dropped for it.
LEMMA PushKept ==
  ASSUME NEW h, NEW s, HistoryKept(h, s), NEW e, EntryKept(h, e)
  PROVE  HistoryKept(h, Capped(Append(s, e))) /\ HistoryKept(h, <<e>> \o s)
<1> DEFINE S == ToSet(s) \cup {e}
<1>1. s \in Seq(S) /\ e \in S /\ \A x \in S : EntryKept(h, x)
  BY SeqMonotonic DEF HistoryKept
<1> HIDE DEF S
<1>2. Append(s, e) \in Seq(S) /\ Append(s, e) # <<>>
  BY <1>1, AppendProperties
<1>3. Tail(Append(s, e)) \in Seq(S)
  BY <1>2, HeadTailProperties
<1>4. Capped(Append(s, e)) \in Seq(S)
  BY <1>2, <1>3 DEF Capped
<1>5. <<e>> \in Seq(S)
  BY <1>1
<1>6. <<e>> \o s \in Seq(S)
  BY <1>1, <1>5
<1>7. QED
  BY <1>1, <1>4, <1>6, HistoryOf

\* An entry less.
LEMMA RemoveKept ==
  ASSUME NEW h, NEW s, HistoryKept(h, s), NEW i \in DOMAIN s
  PROVE  HistoryKept(h, RemoveAt(s, i)) /\ EntryKept(h, s[i])
<1> DEFINE S == ToSet(s)
<1>1. s \in Seq(S) /\ \A x \in S : EntryKept(h, x)
  BY DEF HistoryKept
<1>2. s[i] \in S
  BY DEF ToSet
<1> HIDE DEF S
<1>3. Len(s) \in Nat /\ DOMAIN s = 1..Len(s) /\ i \in 1..Len(s)
      /\ \A k \in 1..Len(s) : s[k] \in S
  BY <1>1
<1>4. SubSeq(s, 1, i - 1) \in Seq(S) /\ SubSeq(s, i + 1, Len(s)) \in Seq(S)
  BY <1>1, <1>3, SubSeqProperties
<1>5. RemoveAt(s, i) \in Seq(S)
  BY <1>4 DEF RemoveAt
<1>6. QED
  BY <1>1, <1>2, <1>5, HistoryOf

-----------------------------------------------------------------------------
(* What the actions are made of.                                            *)

\* The nodes of a project with a group of changes made or unmade.
LEMMA GroupKept ==
  ASSUME NEW h, NEW e, EntryKept(h, e), NEW ns, NEW direction,
         NodesAllKept(h, e.project, ns)
  PROVE  NodesAllKept(h, e.project, ApplyGroup(ns, e.nodes, direction))
<1> DEFINE value(n) ==
             IF direction = "undo"
             THEN ResolveNodePatchValue(ns, n, e.nodes[n].after, e.nodes[n].before)
             ELSE ResolveNodePatchValue(ns, n, e.nodes[n].before, e.nodes[n].after)
           result == ApplyGroup(ns, e.nodes, direction)
<1>1. ASSUME NEW n \in DOMAIN e.nodes, value(n) # None
      PROVE  NodeKept(value(n))
  <2>1. PICK x \in {e.nodes[n].before, e.nodes[n].after} \ {None} :
           value(n) = x \/ \E c : value(n) = [x EXCEPT !.children = c]
    BY <1>1 DEF ResolveNodePatchValue
  <2>2. NodeKept(x)
    BY DEF EntryKept
  <2>3. \A c : NodeKept([x EXCEPT !.children = c])
    BY <2>2, EditedNode
  <2> HIDE DEF value
  <2>4. QED
    BY <2>1, <2>2, <2>3
<1>2. \A n \in DOMAIN result :
         /\ n \in DOMAIN e.nodes => value(n) # None /\ result[n] = NormalizeNode(value(n))
         /\ n \notin DOMAIN e.nodes => n \in DOMAIN ns /\ result[n] = ns[n]
  BY DEF ApplyGroup
<1> HIDE DEF result, value
<1>3. \A n \in DOMAIN result : NodeKept(result[n])
  BY <1>1, <1>2, EditedNode DEF NodesAllKept
<1>4. \A n \in DOMAIN result \ {Root} : n \in DOMAIN h /\ h[n] = e.project
  BY <1>2 DEF NodesAllKept, EntryKept
<1>5. QED
  BY <1>3, <1>4 DEF NodesAllKept, result

\* An undo or a redo puts every snapshot back where it belongs.
LEMMA PatchKept ==
  ASSUME NEW h, NEW ps, AllKept(h, ps), NEW e, EntryKept(h, e), NEW direction
  PROVE  AllKept(h, ApplyPatch(ps, e, direction))
<1> DEFINE patched == PatchProjects(ps, e, direction)
<1>1. AllKept(h, patched)
  <2> DEFINE value(p) == IF direction = "undo" THEN e.projects[p].before
                                               ELSE e.projects[p].after
  <2>1. \A p \in DOMAIN patched :
           /\ p \in DOMAIN e.projects =>
                 value(p) # None /\ patched[p] = NormalizeProject(value(p))
           /\ p \notin DOMAIN e.projects => p \in DOMAIN ps /\ patched[p] = ps[p]
    BY DEF PatchProjects
  <2>2. \A p \in DOMAIN e.projects : value(p) # None => Kept(h, p, value(p))
    BY DEF EntryKept
  <2> HIDE DEF value, patched
  <2>3. QED
    BY <2>1, <2>2, NormalizedKept DEF AllKept
<1>2. CASE e.project \in DOMAIN patched /\ DOMAIN e.nodes # {}
  <2> DEFINE project == patched[e.project]
             ns      == ApplyGroup(project.nodes, e.nodes, direction)
  <2>1. Kept(h, e.project, project)
    BY <1>1, <1>2 DEF AllKept
  <2>2. NodesAllKept(h, e.project, ns)
    <3>1. NodesAllKept(h, e.project, project.nodes)
      BY <2>1 DEF Kept, AtHome, NodesAllKept
    <3> HIDE DEF project
    <3>2. QED
      BY <3>1, GroupKept
  <2>3. ApplyPatch(ps, e, direction) = [patched EXCEPT ![e.project] = WithNodes(project, ns)]
    BY <1>2 DEF ApplyPatch
  <2> HIDE DEF project, ns
  <2>4. Kept(h, e.project, WithNodes(project, ns))
    BY <2>1, <2>2, NodesKept
  <2> HIDE DEF patched
  <2>5. AllKept(h, [patched EXCEPT ![e.project] = WithNodes(project, ns)])
    BY <1>1, <1>2, <2>4, UpdateKept
  <2>6. QED
    BY <2>3, <2>5
<1>3. CASE ~(e.project \in DOMAIN patched /\ DOMAIN e.nodes # {})
  BY <1>1, <1>3 DEF ApplyPatch
<1>4. QED
  BY <1>2, <1>3

\* What is in the store after a save: the workspace, or what was there.
LEMMA StoredIs ==
  ASSUME NEW ps, NEW a, NEW n, Persist(ps, a, n)
  PROVE  /\ projects' = ps /\ activeProject' = a /\ selected' = n
         /\ disk' = Workspace(ps, a, n) \/ disk' = disk
         /\ Workspace(ps, a, n).projects = ps
BY DEF Persist, Save, Workspace

\* A step that saves projects which are kept, with a history that is, or tries to.
LEMMA SavedKept ==
  ASSUME WorkspaceInv, Extends(home, home'), NEW ps, NEW a, NEW n, Persist(ps, a, n),
         AllKept(home', ps), HistoryKept(home', past'), HistoryKept(home', future')
  PROVE  WorkspaceInv'
<1>1. AllKept(home', disk.projects)
  BY AllKeptGrows DEF WorkspaceInv
<1>2. QED
  BY <1>1, StoredIs DEF WorkspaceInv

\* The active project is replaced by one that is kept.
LEMMA ActiveKept ==
  ASSUME WorkspaceInv, activeProject \in DOMAIN projects, NEW p, PersistActive(p),
         Kept(home, activeProject, p), UNCHANGED <<past, future, home>>
  PROVE  WorkspaceInv'
<1>1. AllKept(home, [projects EXCEPT ![activeProject] = p])
  BY UpdateKept DEF WorkspaceInv
<1>2. QED
  BY <1>1, SavedKept, HomeStands DEF PersistActive, WorkspaceInv

\* The empty history.
LEMMA NothingRecorded == ASSUME NEW h PROVE HistoryKept(h, <<>>)
<1>1. <<>> \in Seq({})
  BY EmptySeq
<1>2. QED
  BY <1>1, HistoryOf

\* An entry about nodes of one project.
LEMMA NodeEntryKept ==
  ASSUME NEW h, NEW p, NEW primary, NEW affected, NEW changes,
         \A n \in DOMAIN changes \ {Root} : n \in DOMAIN h /\ h[n] = p,
         \A n \in DOMAIN changes :
            \A x \in {changes[n].before, changes[n].after} \ {None} : NodeKept(x)
  PROVE  EntryKept(h, Entry(p, primary, affected, changes, NoChanges))
BY DEF EntryKept, Entry, NoChanges

-----------------------------------------------------------------------------
(* The steps.                                                               *)

\* SEED
LEMMA SeedKept == ASSUME WorkspaceInv, NEW p, Seed(p) PROVE WorkspaceInv'
<1> DEFINE ps == Override(projects, [q \in {p} |-> NewProject])
           e  == Entry(activeProject, Root, {Root}, NoChanges,
                       [q \in {p} |-> Change(None, NewProject)])
<1>1. Kept(home, p, NewProject)
  <2>1. NodeKept(NewNode("root", None, "complete"))
    BY DrawnNode
  <2>2. QED
    BY <2>1 DEF Kept, AtHome, NewProject
<1>2. AllKept(home, ps)
  BY <1>1 DEF AllKept, Override, WorkspaceInv
<1>3. EntryKept(home, e)
  BY <1>1 DEF EntryKept, Entry, NoChanges, Change
<1>4. Persist(ps, p, Root) /\ past' = Capped(Append(past, e)) /\ future' = <<>>
      /\ UNCHANGED home
  BY DEF Seed, PushHistory
<1> HIDE DEF ps, e
<1>5. QED
  BY <1>2, <1>3, <1>4, SavedKept, HomeStands, PushKept, NothingRecorded DEF WorkspaceInv

\* DELETE_PROJECT
LEMMA DeleteKept == ASSUME WorkspaceInv, NEW p, DeleteProject(p) PROVE WorkspaceInv'
<1> DEFINE ps == [q \in DOMAIN projects \ {p} |-> projects[q]]
           e  == Entry(activeProject, Root, DOMAIN projects[p].nodes, NoChanges,
                       [q \in {p} |-> Change(projects[p], None)])
<1>1. Kept(home, p, projects[p])
  BY DEF WorkspaceInv, AllKept, DeleteProject
<1>2. AllKept(home, ps)
  BY DEF AllKept, WorkspaceInv
<1>3. EntryKept(home, e)
  BY <1>1 DEF EntryKept, Entry, NoChanges, Change
<1>4. PICK next : Persist(ps, next, Root)
  BY DEF DeleteProject
<1>5. past' = Capped(Append(past, e)) /\ future' = <<>> /\ UNCHANGED home
  BY DEF DeleteProject, PushHistory, ghostVars, pageVars
<1> HIDE DEF ps, e
<1>6. QED
  BY <1>2, <1>3, <1>4, <1>5, SavedKept, HomeStands, PushKept, NothingRecorded
     DEF WorkspaceInv

\* The nodes of the active project.
LEMMA ActiveNodes ==
  ASSUME WorkspaceInv, activeProject \in DOMAIN projects
  PROVE  NodesAllKept(home, activeProject, Nodes)
BY DEF WorkspaceInv, AllKept, Kept, AtHome, Nodes, NodesAllKept

\* An edit of the active project, with its entry.
LEMMA EditKept ==
  ASSUME WorkspaceInv, activeProject \in DOMAIN projects, Extends(home, home'),
         NEW ns, NEW n, NEW e, PushHistory(e),
         Persist([projects EXCEPT ![activeProject].nodes = ns], activeProject, n),
         NodesAllKept(home', activeProject, ns), EntryKept(home', e)
  PROVE  WorkspaceInv'
<1>1. AllKept(home', projects) /\ HistoryKept(home', past)
  BY AllKeptGrows, HistoryGrows DEF WorkspaceInv
<1>2. Kept(home', activeProject, WithNodes(projects[activeProject], ns))
  BY <1>1, NodesKept DEF AllKept
<1>3. AllKept(home', [projects EXCEPT ![activeProject].nodes = ns])
  BY <1>1, <1>2, UpdateKept DEF WithNodes
<1>4. HistoryKept(home', past') /\ HistoryKept(home', future')
  BY <1>1, PushKept, NothingRecorded DEF PushHistory
<1>5. QED
  BY <1>3, <1>4, SavedKept

\* LEAF
LEMMA LeafKept == ASSUME WorkspaceInv, NEW n, Leaf(n) PROVE WorkspaceInv'
<1> DEFINE parent == ResolveBranchParent(Nodes, selected)
           leaf   == NewNode("leaf", parent, "complete")
           after  == WithChild(Nodes[parent], n)
           ns == Override(Nodes, [x \in {parent, n} |-> IF x = n THEN leaf ELSE after])
           changes == [x \in {parent, n} |-> IF x = n THEN Change(None, leaf)
                                             ELSE Change(Nodes[parent], after)]
           e == Entry(activeProject, n, {parent, n, selected}, changes, NoChanges)
<1>1. /\ activeProject \in DOMAIN projects /\ n \notin DOMAIN home /\ n # Root
      /\ parent \in DOMAIN Nodes
      /\ home' = Override(home, [x \in {n} |-> activeProject])
      /\ PushHistory(e)
      /\ Persist([projects EXCEPT ![activeProject].nodes = ns], activeProject, n)
  BY EditsAssumption DEF Leaf, AtWork, FreshNode, Nodes
<1>2. /\ Extends(home, home')
      /\ n \in DOMAIN home' /\ home'[n] = activeProject
  BY <1>1, OverrideExtends
<1>3. NodesAllKept(home, activeProject, Nodes) /\ n \notin DOMAIN Nodes
  BY <1>1, ActiveNodes DEF NodesAllKept
<1>4. \A x \in (DOMAIN Nodes \cup {n}) \ {Root} :
         x \in DOMAIN home' /\ home'[x] = activeProject
  BY <1>2, <1>3 DEF Extends, NodesAllKept
<1>5. NodeKept(leaf)
  BY DrawnNode
<1>6. /\ NodeKept(Nodes[parent])
      /\ NodeKept(after)
  BY <1>1, <1>3, EditedNode DEF NodesAllKept
<1>7. /\ DOMAIN ns = DOMAIN Nodes \cup {n} /\ ns[n] = leaf /\ ns[parent] = after
      /\ \A x \in DOMAIN Nodes \ {parent} : ns[x] = Nodes[x]
  BY <1>1, <1>3 DEF Override
<1>8. /\ DOMAIN changes = {parent, n}
      /\ changes[n].before = None /\ changes[n].after = leaf
      /\ changes[parent].before = Nodes[parent] /\ changes[parent].after = after
  BY <1>1, <1>3 DEF Change
<1> HIDE DEF ns, changes, parent, leaf, after
<1>9. EntryKept(home', e)
  BY <1>1, <1>4, <1>5, <1>6, <1>8, NodeEntryKept
<1>10. NodesAllKept(home', activeProject, ns)
  BY <1>3, <1>4, <1>5, <1>6, <1>7 DEF NodesAllKept
<1> HIDE DEF e
<1>11. QED
  BY <1>1, <1>2, <1>9, <1>10, EditKept

\* PRUNE
LEMMA PruneKept == ASSUME WorkspaceInv, Prune PROVE WorkspaceInv'
<1> DEFINE n        == selected
           deleted  == Subtree(Nodes, n) \cap DOMAIN Nodes
           parent   == {Nodes[n].parent} \cap DOMAIN Nodes
           after(m) == WithoutChild(Nodes[m], n)
           ns == [m \in DOMAIN Nodes \ deleted |-> IF m \in parent THEN after(m)
                                                   ELSE Nodes[m]]
           changes == [m \in parent \cup deleted |->
                          IF m \in deleted THEN Change(Nodes[m], None)
                          ELSE Change(Nodes[m], after(m))]
           e == Entry(activeProject, Nodes[n].parent, parent \cup deleted, changes,
                      NoChanges)
<1>1. /\ activeProject \in DOMAIN projects /\ UNCHANGED home /\ PushHistory(e)
      /\ Persist([projects EXCEPT ![activeProject].nodes = ns], activeProject,
                 Nodes[n].parent)
  BY DEF Prune, AtWork, ghostVars, Nodes
<1>2. NodesAllKept(home, activeProject, Nodes)
  BY <1>1, ActiveNodes
<1>3. \A m \in DOMAIN Nodes : NodeKept(after(m))
  BY <1>2, EditedNode DEF NodesAllKept
<1>4. /\ DOMAIN ns \subseteq DOMAIN Nodes
      /\ \A m \in DOMAIN ns : ns[m] \in {Nodes[m], after(m)}
  OBVIOUS
<1>5. /\ DOMAIN changes \subseteq DOMAIN Nodes
      /\ \A m \in DOMAIN changes : /\ changes[m].before = Nodes[m]
                                   /\ changes[m].after \in {None, after(m)}
  BY DEF Change
<1> HIDE DEF ns, changes, after
<1>6. EntryKept(home, e)
  <2>1. \A m \in DOMAIN changes \ {Root} : m \in DOMAIN home /\ home[m] = activeProject
    BY <1>2, <1>5 DEF NodesAllKept
  <2>2. \A m \in DOMAIN changes :
           \A x \in {changes[m].before, changes[m].after} \ {None} :
              NodeKept(x)
    BY <1>2, <1>3, <1>5 DEF NodesAllKept
  <2>3. QED
    BY <2>1, <2>2, NodeEntryKept
<1>7. NodesAllKept(home, activeProject, ns)
  BY <1>2, <1>3, <1>4 DEF NodesAllKept
<1>8. Extends(home, home') /\ home' = home
  BY <1>1 DEF Extends
<1> HIDE DEF e
<1>9. QED
  BY <1>1, <1>6, <1>7, <1>8, EditKept

\* STREAM_BRANCH_START
LEMMA AskKept == ASSUME WorkspaceInv, NEW n, Ask(n) PROVE WorkspaceInv'
<1> DEFINE parent == Anchor(Nodes, selected)
           new    == NewNode("branch", parent, "streaming")
           after  == WithChild(Nodes[parent], n)
           ns == Override(Nodes, [x \in {parent, n} |-> IF x = n THEN new ELSE after])
<1>1. /\ activeProject \in DOMAIN projects /\ n \in NodeId \ DOMAIN home /\ n # Root
      /\ parent \in DOMAIN Nodes
      /\ home' = Override(home, [x \in {n} |-> activeProject])
      /\ Persist([projects EXCEPT ![activeProject].nodes = ns], activeProject, n)
      /\ UNCHANGED <<past, future>>
  BY EditsAssumption DEF Ask, AtWork, FreshNode, Nodes
<1>2. /\ Extends(home, home')
      /\ n \in DOMAIN home' /\ home'[n] = activeProject
  BY <1>1, OverrideExtends
<1>3. /\ AllKept(home', projects)
      /\ HistoryKept(home', past) /\ HistoryKept(home', future)
  BY <1>2, AllKeptGrows, HistoryGrows DEF WorkspaceInv
<1>4. Kept(home', activeProject, projects[activeProject])
  BY <1>1, <1>3 DEF AllKept
<1>5. NodesAllKept(home', activeProject, Nodes)
  BY <1>4 DEF Kept, AtHome, Nodes, NodesAllKept
<1>6. NodeKept(new)
  BY DrawnNode
<1>7. NodeKept(after)
  BY <1>1, <1>5, EditedNode DEF NodesAllKept
<1>8. /\ DOMAIN ns = DOMAIN Nodes \cup {n}
       /\ \A x \in DOMAIN ns : \/ x = n /\ ns[x] = new
                               \/ x = parent /\ ns[x] = after
                               \/ x \in DOMAIN Nodes /\ ns[x] = Nodes[x]
  BY <1>1 DEF Override
<1> HIDE DEF ns, parent, new, after
<1>9. NodesAllKept(home', activeProject, ns)
  BY <1>2, <1>5, <1>6, <1>7, <1>8 DEF NodesAllKept
<1>10. Kept(home', activeProject, WithNodes(projects[activeProject], ns))
  BY <1>4, <1>9, NodesKept
<1>11. AllKept(home', [projects EXCEPT ![activeProject].nodes = ns])
  BY <1>1, <1>3, <1>10, UpdateKept DEF WithNodes
<1>12. QED
  BY <1>1, <1>2, <1>3, <1>11, SavedKept

\* A node of a project is replaced.
LEMMA NodeUpdateKept ==
  ASSUME NEW h, NEW ps, AllKept(h, ps), NEW p \in DOMAIN ps,
         NEW n \in DOMAIN ps[p].nodes, NEW node, NodeKept(node)
  PROVE  AllKept(h, [ps EXCEPT ![p].nodes[n] = node])
<1> DEFINE ns == [ps[p].nodes EXCEPT ![n] = node]
<1>1. NodesAllKept(h, p, ns)
  BY DEF AllKept, Kept, AtHome, NodesAllKept
<1>2. [ps EXCEPT ![p].nodes[n] = node] = [ps EXCEPT ![p] = WithNodes(ps[p], ns)]
  BY DEF WithNodes
<1> HIDE DEF ns
<1>3. Kept(h, p, WithNodes(ps[p], ns))
  BY <1>1, NodesKept DEF AllKept
<1>4. QED
  BY <1>2, <1>3, UpdateKept

\* STREAM_BRANCH_UPDATE, of a token or a retry.
LEMMA UpdatedKept ==
  ASSUME WorkspaceInv, NEW r, Known(r), Update(r), UNCHANGED home PROVE WorkspaceInv'
<1> DEFINE old  == projects[r.project].nodes[r.node]
           node == [old EXCEPT !.status = "streaming"]
<1>1. /\ r.project \in DOMAIN projects /\ r.node \in DOMAIN projects[r.project].nodes
      /\ projects' = [projects EXCEPT ![r.project].nodes[r.node] = node]
      /\ UNCHANGED <<past, future, disk, home>>
  BY DEF Update, Known
<1>2. NodeKept(node)
  BY <1>1 DEF WorkspaceInv, AllKept, Kept, NodeKept
<1> HIDE DEF node
<1>3. QED
  BY <1>1, <1>2, NodeUpdateKept DEF WorkspaceInv

\* STREAM_BRANCH_FINISH, STREAM_BRANCH_FAIL
LEMMA SettledKept ==
  ASSUME WorkspaceInv, NEW p \in DOMAIN projects, NEW n \in DOMAIN projects[p].nodes,
         projects[p].nodes[n].parent \in DOMAIN projects[p].nodes,
         NEW status, Settled(p, n, status), UNCHANGED home
  PROVE  WorkspaceInv'
<1> DEFINE ns == projects[p].nodes
           parent == ns[n].parent
           after  == Answered(p, n, status)
           changes == [x \in {parent, n} |->
                          IF x = n THEN Change(None, after)
                          ELSE Change(WithoutChild(ns[parent], n), ns[parent])]
           e == Entry(p, n, {parent, n}, changes, NoChanges)
<1>1. /\ Persist([projects EXCEPT ![p].nodes[n] = after], activeProject, selected)
      /\ \/ UNCHANGED <<past, future>>
         \/ PushHistory(e)
  BY DEF Settled, CreationEntry
<1>2. NodesAllKept(home, p, ns)
  BY DEF WorkspaceInv, AllKept, Kept, AtHome, NodesAllKept
<1>3. NodeKept(after)
  BY <1>2 DEF NodesAllKept, NodeKept, Answered
<1>4. NodeKept(WithoutChild(ns[parent], n))
  BY <1>2, EditedNode DEF NodesAllKept
<1>5. /\ DOMAIN changes = {parent, n}
      /\ \A x \in DOMAIN changes :
            \/ x = n /\ changes[x].before = None /\ changes[x].after = after
            \/ /\ x = parent /\ changes[x].before = WithoutChild(ns[parent], n)
               /\ changes[x].after = ns[parent]
  BY DEF Change
<1> HIDE DEF changes, after
<1>6. EntryKept(home, e)
  <2>1. \A x \in DOMAIN changes \ {Root} : x \in DOMAIN home /\ home[x] = p
    BY <1>2, <1>5 DEF NodesAllKept
  <2>2. \A x \in DOMAIN changes :
           \A y \in {changes[x].before, changes[x].after} \ {None} : NodeKept(y)
    BY <1>2, <1>3, <1>4, <1>5 DEF NodesAllKept
  <2>3. QED
    BY <2>1, <2>2, NodeEntryKept
<1>7. AllKept(home, [projects EXCEPT ![p].nodes[n] = after])
  BY <1>3, NodeUpdateKept DEF WorkspaceInv
<1> HIDE DEF e
<1>8. HistoryKept(home, past') /\ HistoryKept(home, future')
  BY <1>1, <1>6, PushKept, NothingRecorded DEF PushHistory, WorkspaceInv
<1>9. QED
  BY <1>1, <1>7, <1>8, HomeStands, SavedKept

\* A request that ends.
LEMMA SettleKept ==
  ASSUME WorkspaceInv, NEW r \in open, NEW status, Settle(r, status)
  PROVE  WorkspaceInv'
<1>1. UNCHANGED home
  BY DEF Settle, ghostVars
<1>2. CASE /\ Known(r)
           /\ projects[r.project].nodes[r.node].parent \in DOMAIN projects[r.project].nodes
  BY <1>1, <1>2, SettledKept DEF Settle, Known
<1>3. CASE UNCHANGED <<projects, activeProject, selected, past, future, storeVars>>
  BY <1>1, <1>3 DEF storeVars, WorkspaceInv
<1>4. QED
  BY <1>2, <1>3 DEF Settle

\* A retry reopens the selected answer, or is refused and fails it.
LEMMA RetryKept == ASSUME WorkspaceInv, RetryAnswer PROVE WorkspaceInv'
<1> DEFINE r == [project |-> activeProject, node |-> selected]
<1>1. /\ activeProject \in DOMAIN projects /\ selected \in DOMAIN projects[activeProject].nodes
      /\ UNCHANGED home
  BY DEF RetryAnswer, Known, ghostVars
<1>2. Known(r)
  BY DEF RetryAnswer
<1>3. CASE Update(r)
  BY <1>1, <1>2, <1>3, UpdatedKept
<1>4. CASE ~Update(r)
  BY <1>1, <1>4, SettledKept DEF RetryAnswer, Nodes
<1>5. QED
  BY <1>3, <1>4

\* ADD_NUTRIENTS
LEMMA UploadKept == ASSUME WorkspaceInv, NEW X, X \subseteq FreshNutrient, UploadEnds(X)
                    PROVE  WorkspaceInv'
<1>1. CASE X # {} /\ upload \in DOMAIN projects
  <2> DEFINE p == [projects[upload] EXCEPT !.nutrients = @ \cup X,
                                           !.active = @ \cup (X \ Unreadable)]
  <2>1. /\ Persist([projects EXCEPT ![upload] = p], activeProject, selected)
        /\ home' = Override(home, [x \in X |-> upload])
        /\ UNCHANGED <<past, future>>
    BY <1>1 DEF UploadEnds, Added
  <2>2. /\ Extends(home, home')
        /\ \A x \in X : x \in DOMAIN home' /\ home'[x] = upload
    BY <2>1, OverrideExtends DEF FreshNutrient
  <2>3. AllKept(home', projects) /\ HistoryKept(home', past) /\ HistoryKept(home', future)
    BY <2>2, AllKeptGrows, HistoryGrows DEF WorkspaceInv
  <2>4. Kept(home', upload, projects[upload])
    BY <1>1, <2>3 DEF AllKept
  <2>5. Kept(home', upload, p)
    <3>1. /\ DOMAIN p = DOMAIN projects[upload]
          /\ p.nodes = projects[upload].nodes
          /\ p.transfers = projects[upload].transfers
          /\ p.nutrients = projects[upload].nutrients \cup X
          /\ p.active = projects[upload].active \cup (X \ Unreadable)
      BY <2>4 DEF Kept
    <3>2. QED
      BY <2>2, <2>4, <3>1 DEF Kept, AtHome
  <2> HIDE DEF p
  <2>6. AllKept(home', [projects EXCEPT ![upload] = p])
    BY <1>1, <2>3, <2>5, UpdateKept
  <2>7. QED
    BY <2>1, <2>2, <2>3, <2>6, SavedKept
<1>2. CASE ~(X # {} /\ upload \in DOMAIN projects)
  BY <1>2 DEF UploadEnds, storeVars, WorkspaceInv
<1>3. QED
  BY <1>1, <1>2

\* REMOVE_NUTRIENT
LEMMA RemoveEndsKept == ASSUME WorkspaceInv, NEW x, RemoveEnds(x) PROVE WorkspaceInv'
<1>1. CASE activeProject \in DOMAIN projects
  <2> DEFINE q == projects[activeProject]
             p == [q EXCEPT !.nutrients = @ \ {x}, !.active = @ \ {x}]
  <2>1. PersistActive(p) /\ UNCHANGED <<past, future, home>>
    BY <1>1 DEF RemoveEnds, ghostVars
  <2>2. Kept(home, activeProject, q)
    BY <1>1 DEF WorkspaceInv, AllKept
  <2>3. /\ DOMAIN p = DOMAIN q /\ p.nodes = q.nodes /\ p.transfers = q.transfers
        /\ p.nutrients = q.nutrients \ {x} /\ p.active = q.active \ {x}
    BY <2>2 DEF Kept
  <2> HIDE DEF p
  <2>4. Kept(home, activeProject, p)
    BY <2>2, <2>3 DEF Kept, AtHome
  <2>5. QED
    BY <1>1, <2>1, <2>4, ActiveKept
<1>2. CASE activeProject \notin DOMAIN projects
  <2>1. Persist(projects, activeProject, selected) /\ UNCHANGED <<past, future, home>>
    BY <1>2 DEF RemoveEnds, ghostVars
  <2>2. QED
    BY <2>1, SavedKept, HomeStands DEF WorkspaceInv
<1>3. QED
  BY <1>1, <1>2

\* TOGGLE_NUTRIENT_ACTIVE
LEMMA ToggleKept == ASSUME WorkspaceInv, NEW x, ToggleNutrient(x) PROVE WorkspaceInv'
<1> DEFINE q == projects[activeProject]
           p == [q EXCEPT !.active = SymDiff(@, {x})]
<1>1. /\ activeProject \in DOMAIN projects /\ x \in q.nutrients
      /\ PersistActive(p) /\ UNCHANGED <<past, future, home>>
  BY DEF ToggleNutrient, ghostVars, pageVars, AtWork
<1>2. Kept(home, activeProject, q)
  BY <1>1 DEF WorkspaceInv, AllKept
<1>3. /\ DOMAIN p = DOMAIN q /\ p.nodes = q.nodes /\ p.transfers = q.transfers
      /\ p.nutrients = q.nutrients /\ p.active \subseteq q.active \cup {x}
  BY <1>2 DEF Kept, SymDiff
<1> HIDE DEF p
<1>4. Kept(home, activeProject, p)
  BY <1>1, <1>2, <1>3 DEF Kept, AtHome
<1>5. QED
  BY <1>1, <1>4, ActiveKept

\* ADD_CONTEXT_TRANSFER
LEMMA AddTransferKept ==
  ASSUME WorkspaceInv, NEW source, NEW type, AddTransfer(source, type) PROVE WorkspaceInv'
<1> DEFINE q == projects[activeProject]
           target == IF type = "pin" THEN Root ELSE ResolveBranchParent(Nodes, selected)
           t == [source |-> source, target |-> target, type |-> type]
           p == [q EXCEPT !.transfers = @ \cup {t}]
<1>1. /\ activeProject \in DOMAIN projects
      /\ source \in DOMAIN Nodes /\ target \in DOMAIN Nodes
      /\ PersistActive(p) /\ UNCHANGED <<past, future, home>>
  BY DEF AddTransfer, ghostVars, pageVars, AtWork
<1>2. Kept(home, activeProject, q)
  BY <1>1 DEF WorkspaceInv, AllKept
<1> HIDE DEF target
<1>3. t.source = source /\ t.target = target
  OBVIOUS
<1> HIDE DEF t
<1>4. /\ DOMAIN p = DOMAIN q /\ p.nodes = q.nodes /\ p.nutrients = q.nutrients
      /\ p.active = q.active /\ p.transfers = q.transfers \cup {t}
  BY <1>2 DEF Kept
<1> HIDE DEF p
<1>5. \A n \in {t.source, t.target} \ {Root} : n \in DOMAIN home /\ home[n] = activeProject
  BY <1>1, <1>2, <1>3 DEF Nodes, Kept, AtHome
<1>6. Kept(home, activeProject, p)
  BY <1>2, <1>4, <1>5 DEF Kept, AtHome
<1>7. QED
  BY <1>1, <1>6, ActiveKept

\* REMOVE_CONTEXT_TRANSFER
LEMMA RemoveTransferKept == ASSUME WorkspaceInv, NEW t, RemoveTransfer(t) PROVE WorkspaceInv'
<1> DEFINE q == projects[activeProject]
           p == [q EXCEPT !.transfers = @ \ {t}]
<1>1. /\ activeProject \in DOMAIN projects
      /\ PersistActive(p) /\ UNCHANGED <<past, future, home>>
  BY DEF RemoveTransfer, ghostVars, pageVars, AtWork
<1>2. Kept(home, activeProject, q)
  BY <1>1 DEF WorkspaceInv, AllKept
<1>3. /\ DOMAIN p = DOMAIN q /\ p.nodes = q.nodes /\ p.nutrients = q.nutrients
      /\ p.active = q.active /\ p.transfers = q.transfers \ {t}
  BY <1>2 DEF Kept
<1> HIDE DEF p
<1>4. Kept(home, activeProject, p)
  BY <1>2, <1>3 DEF Kept, AtHome
<1>5. QED
  BY <1>1, <1>4, ActiveKept

\* What an undo or a redo saves are the patched projects.
LEMMA PatchedKept ==
  ASSUME WorkspaceInv, Extends(home, home'), NEW ps, NEW e, PersistPatched(ps, e),
         AllKept(home', ps), HistoryKept(home', past'), HistoryKept(home', future')
  PROVE  WorkspaceInv'
BY SavedKept DEF PersistPatched

\* Undo of an entry.
LEMMA UndoKept == ASSUME WorkspaceInv, NEW i \in DOMAIN past, UndoAt(i) PROVE WorkspaceInv'
<1> DEFINE ps == ApplyPatch(projects, past[i], "undo")
<1>1. /\ PersistPatched(ps, past[i])
      /\ past' = RemoveAt(past, i) /\ future' = <<past[i]>> \o future
      /\ UNCHANGED home
  BY DEF UndoAt, ghostVars
<1>2. HistoryKept(home, RemoveAt(past, i)) /\ EntryKept(home, past[i])
  BY RemoveKept DEF WorkspaceInv
<1>3. AllKept(home, ps)
  BY <1>2, PatchKept DEF WorkspaceInv
<1>4. HistoryKept(home, <<past[i]>> \o future)
  BY <1>2, PushKept DEF WorkspaceInv
<1> HIDE DEF ps
<1>5. QED
  BY <1>1, <1>2, <1>3, <1>4, PatchedKept, HomeStands

\* Redo of an entry.
LEMMA RedoKept == ASSUME WorkspaceInv, NEW i \in DOMAIN future, RedoAt(i) PROVE WorkspaceInv'
<1> DEFINE ps == ApplyPatch(projects, future[i], "redo")
<1>1. /\ PersistPatched(ps, future[i])
      /\ future' = RemoveAt(future, i) /\ past' = Capped(Append(past, future[i]))
      /\ UNCHANGED home
  BY DEF RedoAt, ghostVars
<1>2. HistoryKept(home, RemoveAt(future, i)) /\ EntryKept(home, future[i])
  BY RemoveKept DEF WorkspaceInv
<1>3. AllKept(home, ps)
  BY <1>2, PatchKept DEF WorkspaceInv
<1>4. HistoryKept(home, Capped(Append(past, future[i])))
  BY <1>2, PushKept DEF WorkspaceInv
<1> HIDE DEF ps
<1>5. QED
  BY <1>1, <1>2, <1>3, <1>4, PatchedKept, HomeStands

\* The last entry of a history that is not empty is one of it, and so is the first.
LEMMA EndsOfHistory ==
  ASSUME NEW h, NEW s, HistoryKept(h, s), s # <<>>
  PROVE  Len(s) \in DOMAIN s /\ 1 \in DOMAIN s
BY EmptySeq DEF HistoryKept

\* Loading the page again.
LEMMA ReloadKept == ASSUME WorkspaceInv, Reload PROVE WorkspaceInv'
<1>1. PICK w \in Loaded(disk) : projects' = w.projects
  BY DEF Reload
<1>2. AllKept(home, w.projects)
  <2> DEFINE ps == [p \in DOMAIN disk.projects |-> NormalizeProject(disk.projects[p])]
  <2>1. AllKept(home, ps)
    BY NormalizedKept DEF AllKept, WorkspaceInv
  <2>2. DOMAIN EmptyWorkspace.projects = {}
    BY DEF EmptyWorkspace, Workspace
  <2>3. w.projects = ps \/ w = EmptyWorkspace
    BY <1>1 DEF Loaded, Workspace
  <2>4. QED
    BY <2>1, <2>2, <2>3 DEF AllKept
<1>3. UNCHANGED <<disk, home>> /\ past' = <<>> /\ future' = <<>>
  BY DEF Reload, ghostVars
<1>4. Extends(home, home')
  BY <1>3, HomeStands
<1>5. AllKept(home', projects') /\ AllKept(home', disk'.projects)
  BY <1>1, <1>2, <1>3, <1>4, AllKeptGrows DEF WorkspaceInv
<1>6. QED
  BY <1>3, <1>5, NothingRecorded DEF WorkspaceInv

-----------------------------------------------------------------------------
(* Isolation.                                                               *)

\* Everything is at home, in the projects, in the store and in every snapshot of
\* the history, throughout.
THEOREM WorkspaceInvariant == ForestSpec => []WorkspaceInv
<1>1. Init => WorkspaceInv
  <2>1. HistoryKept(home, <<>>)
    BY NothingRecorded
  <2>2. QED
    BY <2>1 DEF Init, WorkspaceInv, AllKept, EmptyWorkspace, Workspace
<1>2. WorkspaceInv /\ [Next]_forestVars => WorkspaceInv'
  <2> SUFFICES ASSUME WorkspaceInv, [Next]_forestVars PROVE WorkspaceInv'
    OBVIOUS
  <2>1. ASSUME NEW p \in ProjectId, Seed(p) \/ SwitchProject(p) \/ DeleteProject(p)
        PROVE  WorkspaceInv'
    <3>1. CASE SwitchProject(p)
      BY <3>1, SavedKept, HomeStands DEF SwitchProject, ghostVars, pageVars, WorkspaceInv
    <3>2. QED
      BY <2>1, <3>1, SeedKept, DeleteKept
  <2>2. ASSUME NEW n \in AnyId, SelectNode(n) \/ Leaf(n) \/ Ask(n) PROVE WorkspaceInv'
    <3>1. CASE SelectNode(n)
      BY <3>1, SavedKept, HomeStands DEF SelectNode, ghostVars, pageVars, WorkspaceInv
    <3>2. QED
      BY <2>2, <3>1, LeafKept, AskKept
  <2>3. CASE Prune
    BY <2>3, PruneKept
  <2>4. ASSUME NEW r \in open,
               Token(r) \/ \E status \in Status \ {"streaming"} : Settle(r, status)
        PROVE  WorkspaceInv'
    <3>1. CASE Token(r)
      BY <3>1, UpdatedKept DEF Token, ghostVars
    <3>2. QED
      BY <2>4, <3>1, SettleKept
  <2>5. CASE UploadBegins
    BY <2>5 DEF UploadBegins, storeVars, ghostVars, WorkspaceInv
  <2>6. ASSUME NEW X \in SUBSET FreshNutrient, UploadEnds(X) PROVE WorkspaceInv'
    BY <2>6, UploadKept
  <2>7. ASSUME NEW x \in NutrientId, RemoveBegins(x) \/ RemoveEnds(x) \/ ToggleNutrient(x)
        PROVE  WorkspaceInv'
    <3>1. CASE RemoveBegins(x)
      BY <3>1 DEF RemoveBegins, storeVars, ghostVars, WorkspaceInv
    <3>2. QED
      BY <2>7, <3>1, RemoveEndsKept, ToggleKept
  <2>8. ASSUME NEW source \in AnyId, NEW type \in {"pin", "quote"},
               AddTransfer(source, type)
        PROVE  WorkspaceInv'
    BY <2>8, AddTransferKept
  <2>9. ASSUME NEW t \in Transfer, RemoveTransfer(t) PROVE WorkspaceInv'
    BY <2>9, RemoveTransferKept
  <2>10. CASE Undo \/ Redo
    <3>1. CASE Undo
      BY <3>1, EndsOfHistory, UndoKept DEF Undo, WorkspaceInv
    <3>2. CASE Redo
      BY <3>2, EndsOfHistory, RedoKept DEF Redo, WorkspaceInv
    <3>3. QED
      BY <2>10, <3>1, <3>2
  <2>11. ASSUME NEW n \in AnyId, UndoNode(n) \/ RedoNode(n) PROVE WorkspaceInv'
    BY <2>11, UndoKept, RedoKept DEF UndoNode, RedoNode, Reached
  <2>12. CASE Reload
    BY <2>12, ReloadKept
  <2>13. CASE UNCHANGED forestVars
    BY <2>13 DEF forestVars, storeVars, ghostVars, WorkspaceInv
  <2>14. CASE RetryAnswer
    BY <2>14, RetryKept
  <2>15. QED
    BY <2>1, <2>2, <2>3, <2>4, <2>5, <2>6, <2>7, <2>8, <2>9, <2>10, <2>11, <2>12, <2>13,
       <2>14 DEF Next
<1>3. QED
  BY <1>1, <1>2, PTL DEF ForestSpec

\* What was made in one project is never found in another, on the page or in the
\* store (HomesKept).
THEOREM ProjectsStayIsolated == ForestSpec => []HomesKept
<1>1. WorkspaceInv => HomesKept
  BY DEF WorkspaceInv, HomesKept, AllKept, Kept
<1>2. QED
  BY <1>1, WorkspaceInvariant, PTL

-----------------------------------------------------------------------------
(* The store.  What is saved equals what is on the page, unless the write   *)
(* failed; what is streamed afterwards is newer on the page; and a reload   *)
(* puts the page back to what is saved.                                     *)

ActiveInv ==
    /\ activeProject \in DOMAIN projects \/ DOMAIN projects = {}
    /\ disk.active \in DOMAIN disk.projects \/ DOMAIN disk.projects = {}
    /\ \A r \in open : r = [project |-> r.project, node |-> r.node]

Normalized(ps) == [p \in DOMAIN ps |-> NormalizeProject(ps[p])]

\* Loaded(), with its projects named.
LEMMA LoadedIs ==
  ASSUME NEW ws
  PROVE  LET ps == Normalized(ws.projects) IN
         Loaded(ws) =
           IF DOMAIN ps = {} THEN {EmptyWorkspace}
           ELSE {Workspace(ps, p, IF ws.selected \in DOMAIN ps[p].nodes
                                  THEN ws.selected ELSE Root) :
                   p \in IF ws.active \in DOMAIN ps THEN {ws.active} ELSE DOMAIN ps}
BY DEF Loaded, Normalized

\* A project whose nodes are replaced.
LEMMA Replaced ==
  ASSUME NEW q, "nodes" \in DOMAIN q, NEW ns
  PROVE  /\ WithNodes(q, ns).nodes = ns /\ DOMAIN WithNodes(q, ns) = DOMAIN q
         /\ \A x : WithNodes(WithNodes(q, ns), x) = WithNodes(q, x)
BY DEF WithNodes

RestoredNodes(ns) == [n \in DOMAIN ns |-> NormalizeNode(ns[n])]

\* A project as it is restored.
LEMMA Restored ==
  ASSUME NEW q, "nodes" \in DOMAIN q
  PROVE  /\ NormalizeProject(q) = WithNodes(q, RestoredNodes(q.nodes))
         /\ NormalizeProject(q).nodes = RestoredNodes(q.nodes)
         /\ "nodes" \in DOMAIN NormalizeProject(q)
         /\ \A ns : NormalizeProject(WithNodes(q, ns)) = WithNodes(q, RestoredNodes(ns))
<1>1. NormalizeProject(q) = WithNodes(q, RestoredNodes(q.nodes))
  BY DEF NormalizeProject, RestoredNodes
<1>2. ASSUME NEW ns PROVE NormalizeProject(WithNodes(q, ns)) = WithNodes(q, RestoredNodes(ns))
  BY Replaced DEF NormalizeProject, RestoredNodes
<1>3. QED
  BY <1>1, <1>2, Replaced

\* A restored node is not changed by being restored again, and a node that is made to
\* stream is restored without regard to the status it had.
LEMMA RestoredNode ==
  ASSUME NEW node, NodeKept(node)
  PROVE  /\ NormalizeNode(NormalizeNode(node)) = NormalizeNode(node)
         /\ NormalizeNode([node EXCEPT !.status = "streaming"])
              = [NormalizeNode(node) EXCEPT !.status = "stopped"]
BY DEF NormalizeNode, NodeKept

\* Restored projects are not changed by being restored again.
LEMMA RestoredProjects ==
  ASSUME NEW h, NEW ps, AllKept(h, ps)
  PROVE  /\ Normalized(Normalized(ps)) = Normalized(ps)
         /\ \A p \in DOMAIN ps : DOMAIN Normalized(ps)[p].nodes = DOMAIN ps[p].nodes
<1>1. ASSUME NEW p \in DOMAIN ps
      PROVE  /\ NormalizeProject(NormalizeProject(ps[p])) = NormalizeProject(ps[p])
             /\ DOMAIN NormalizeProject(ps[p]).nodes = DOMAIN ps[p].nodes
  <2> DEFINE q  == ps[p]
             ns == RestoredNodes(q.nodes)
  <2>1. Kept(h, p, q)
    BY DEF AllKept
  <2>2. "nodes" \in DOMAIN q /\ RestoredNodes(ns) = ns /\ DOMAIN ns = DOMAIN q.nodes
    BY <2>1, RestoredNode DEF Kept, RestoredNodes
  <2>3. NormalizeProject(q) = WithNodes(q, ns) /\ NormalizeProject(q).nodes = ns
    BY <2>2, Restored
  <2> HIDE DEF q, ns
  <2>4. QED
    BY <2>2, <2>3, Restored DEF q
<1>2. QED
  BY <1>1 DEF Normalized

\* Nothing is reopened where nothing is streamed.
LEMMA NothingReopened ==
  ASSUME NEW h, NEW ps, AllKept(h, ps)
  PROVE  /\ Normalized(Reopened(ps, {})) = Normalized(ps)
         /\ DOMAIN Reopened(ps, {}) = DOMAIN ps
<1>1. ASSUME NEW p \in DOMAIN ps
      PROVE  NormalizeProject(Reopened(ps, {})[p]) = NormalizeProject(ps[p])
  <2> DEFINE q  == ps[p]
             ns == [n \in DOMAIN q.nodes |-> q.nodes[n]]
  <2>1. Reopened(ps, {})[p] = WithNodes(q, ns) /\ RestoredNodes(ns) = RestoredNodes(q.nodes)
    BY DEF Reopened, RestoredNodes
  <2>2. "nodes" \in DOMAIN q
    BY DEF AllKept, Kept
  <2> HIDE DEF q, ns
  <2>3. QED
    BY <2>1, <2>2, Restored DEF q
<1>2. DOMAIN Reopened(ps, {}) = DOMAIN ps
  BY DEF Reopened
<1>3. QED
  BY <1>1, <1>2 DEF Normalized

\* Workspaces that restore to the same projects bring back the same.
LEMMA SameLoaded ==
  ASSUME NEW ps, NEW qs, Normalized(ps) = Normalized(qs), NEW a, NEW n
  PROVE  Loaded(Workspace(ps, a, n)) = Loaded(Workspace(qs, a, n))
<1>1. /\ Workspace(ps, a, n).projects = ps /\ Workspace(qs, a, n).projects = qs
      /\ \A x : Workspace(x, a, n).active = a /\ Workspace(x, a, n).selected = n
  BY DEF Workspace
<1> HIDE DEF Workspace
<1>2. QED
  BY <1>1, LoadedIs

\* What a reload brings when the active project exists.
LEMMA LoadedOne ==
  ASSUME NEW ps, NEW a \in DOMAIN ps, NEW n
  PROVE  Loaded(Workspace(ps, a, n)) =
           {Workspace(Normalized(ps), a,
                      IF n \in DOMAIN Normalized(ps)[a].nodes THEN n ELSE Root)}
<1>1. /\ Workspace(ps, a, n).projects = ps /\ Workspace(ps, a, n).active = a
      /\ Workspace(ps, a, n).selected = n
  BY DEF Workspace
<1>2. DOMAIN Normalized(ps) = DOMAIN ps
  BY DEF Normalized
<1> HIDE DEF Workspace
<1>3. QED
  BY <1>1, <1>2 DEF Loaded, Normalized

\* And when there is no project.
LEMMA LoadedNone ==
  ASSUME NEW ps, DOMAIN ps = {}, NEW a, NEW n
  PROVE  Loaded(Workspace(ps, a, n)) = {EmptyWorkspace}
BY DEF Loaded, Workspace

\* After a write that did not fail the store matches the page.
LEMMA PersistFollows ==
  ASSUME NEW ps, NEW a, NEW n, Persist(ps, a, n), WorkspaceInv'
  PROVE  StoreFollows'
<1>1. SUFFICES ASSUME ~unsaved' PROVE StoreFollows'
  BY DEF StoreFollows
<1>2. disk' = Workspace(ps, a, n) /\ streamed' = {}
  BY <1>1 DEF Persist, Save
<1>3. projects' = ps /\ activeProject' = a /\ selected' = n /\ AllKept(home', ps)
  BY DEF Persist, WorkspaceInv
<1>4. disk'.projects = ps /\ disk'.active = a /\ disk'.selected = n
  BY <1>2 DEF Workspace
<1>5. Loaded(Workspace(Reopened(ps, {}), a, n)) = Loaded(Workspace(ps, a, n))
  BY <1>3, NothingReopened, SameLoaded
<1> HIDE DEF Workspace
<1>6. QED
  BY <1>2, <1>3, <1>4, <1>5 DEF StoreFollows

\* A node that is made to stream is restored alike from two nodes d and q that are
\* restored alike, the first perhaps streaming already.
LEMMA StreamedNode ==
  ASSUME NEW d, NodeKept(d), NEW q, NodeKept(q),
         NEW x \in {d, [d EXCEPT !.status = "streaming"]},
         NormalizeNode(x) = NormalizeNode(q)
  PROVE  NormalizeNode([d EXCEPT !.status = "streaming"])
           = NormalizeNode([q EXCEPT !.status = "streaming"])
<1> DEFINE D == NormalizeNode(d)
           Q == NormalizeNode(q)
<1>1. NormalizeNode([d EXCEPT !.status = "streaming"]) = [D EXCEPT !.status = "stopped"]
  BY RestoredNode
<1>2. NormalizeNode([q EXCEPT !.status = "streaming"]) = [Q EXCEPT !.status = "stopped"]
  BY RestoredNode
<1>3. Q = D \/ Q = [D EXCEPT !.status = "stopped"]
  BY <1>1
<1> HIDE DEF D, Q
<1>4. QED
  BY <1>1, <1>2, <1>3

NodeUpdated(ns, n) == [ns EXCEPT ![n].status = "streaming"]

\* The nodes of the project p with the answers of S streaming.
ReopenedNodes(ns, p, S) ==
    [n \in DOMAIN ns |-> IF [project |-> p, node |-> n] \in S
                         THEN [ns[n] EXCEPT !.status = "streaming"] ELSE ns[n]]

\* The nodes of a project stay restored alike when one more is made to stream.
LEMMA StreamedNodes ==
  ASSUME NEW ds, NEW qs, NEW p, NEW S, NEW n \in DOMAIN qs,
         \A m \in DOMAIN ds : NodeKept(ds[m]), \A m \in DOMAIN qs : NodeKept(qs[m]),
         RestoredNodes(ReopenedNodes(ds, p, S)) = RestoredNodes(qs)
  PROVE  RestoredNodes(ReopenedNodes(ds, p, S \cup {[project |-> p, node |-> n]}))
           = RestoredNodes(NodeUpdated(qs, n))
<1> DEFINE T  == S \cup {[project |-> p, node |-> n]}
           xs == ReopenedNodes(ds, p, S)
           ys == ReopenedNodes(ds, p, T)
           us == NodeUpdated(qs, n)
<1>1. DOMAIN xs = DOMAIN ds /\ DOMAIN ys = DOMAIN ds /\ DOMAIN us = DOMAIN qs
  BY DEF ReopenedNodes, NodeUpdated
<1>2. DOMAIN RestoredNodes(xs) = DOMAIN xs /\ DOMAIN RestoredNodes(qs) = DOMAIN qs
  BY DEF RestoredNodes
<1>3. DOMAIN ds = DOMAIN qs
  BY <1>1, <1>2
<1>4. \A m \in DOMAIN qs : NormalizeNode(xs[m]) = NormalizeNode(qs[m])
  <2>1. \A m \in DOMAIN qs : /\ RestoredNodes(xs)[m] = NormalizeNode(xs[m])
                             /\ RestoredNodes(qs)[m] = NormalizeNode(qs[m])
    BY <1>1, <1>3 DEF RestoredNodes
  <2>2. QED
    BY <2>1
<1>5. ASSUME NEW m \in DOMAIN qs PROVE NormalizeNode(ys[m]) = NormalizeNode(us[m])
  <2>1. CASE m # n
    <3>1. [project |-> p, node |-> m].node # [project |-> p, node |-> n].node
      BY <2>1
    <3>2. [project |-> p, node |-> m] \in S <=> [project |-> p, node |-> m] \in T
      BY <3>1
    <3>3. ys[m] = xs[m] /\ us[m] = qs[m]
      BY <1>3, <2>1, <3>2 DEF ReopenedNodes, NodeUpdated
    <3>4. QED
      BY <1>4, <3>3
  <2>2. CASE m = n
    <3>1. xs[n] \in {ds[n], [ds[n] EXCEPT !.status = "streaming"]}
      BY <1>3 DEF ReopenedNodes
    <3>2. ys[n] = [ds[n] EXCEPT !.status = "streaming"]
      BY <1>3 DEF ReopenedNodes
    <3>3. us[n] = [qs[n] EXCEPT !.status = "streaming"]
      BY DEF NodeUpdated
    <3>4. NodeKept(ds[n]) /\ NodeKept(qs[n]) /\ NormalizeNode(xs[n]) = NormalizeNode(qs[n])
      BY <1>3, <1>4
    <3> HIDE DEF xs, ys, us
    <3>5. QED
      BY <2>2, <3>1, <3>2, <3>3, <3>4, StreamedNode
  <2>3. QED
    BY <2>1, <2>2
<1> HIDE DEF ys, us
<1>6. QED
  BY <1>1, <1>3, <1>5 DEF RestoredNodes, ys, us

ProjectsUpdated(ps, p, n) == [ps EXCEPT ![p].nodes[n].status = "streaming"]

\* Likewise for projects.
LEMMA StreamedProjects ==
  ASSUME NEW h, NEW ds, AllKept(h, ds), NEW ps, AllKept(h, ps), NEW S,
         Normalized(Reopened(ds, S)) = Normalized(ps),
         NEW p \in DOMAIN ps, NEW n \in DOMAIN ps[p].nodes
  PROVE  Normalized(Reopened(ds, S \cup {[project |-> p, node |-> n]}))
           = Normalized(ProjectsUpdated(ps, p, n))
<1> DEFINE r  == [project |-> p, node |-> n]
           T  == S \cup {r}
           qs == [ps EXCEPT ![p].nodes[n].status = "streaming"]
<1>1. /\ DOMAIN Normalized(Reopened(ds, S)) = DOMAIN ds
      /\ DOMAIN Normalized(Reopened(ds, T)) = DOMAIN ds
      /\ DOMAIN Normalized(ps) = DOMAIN ps /\ DOMAIN Normalized(qs) = DOMAIN ps
  BY DEF Normalized, Reopened
<1>2. DOMAIN ds = DOMAIN ps
  BY <1>1
<1>3. \A x \in DOMAIN ps : NormalizeProject(Reopened(ds, S)[x]) = NormalizeProject(ps[x])
  <2>1. \A x \in DOMAIN ps :
           /\ Normalized(Reopened(ds, S))[x] = NormalizeProject(Reopened(ds, S)[x])
           /\ Normalized(ps)[x] = NormalizeProject(ps[x])
    BY <1>2 DEF Normalized, Reopened
  <2>2. QED
    BY <2>1
<1>4. \A x \in DOMAIN ps : \A Z :
         Reopened(ds, Z)[x] = WithNodes(ds[x], ReopenedNodes(ds[x].nodes, x, Z))
  BY <1>2 DEF Reopened, ReopenedNodes
<1>5. ASSUME NEW x \in DOMAIN ps
      PROVE  NormalizeProject(Reopened(ds, T)[x]) = NormalizeProject(qs[x])
  <2>1. CASE x # p
    <3>1. \A m : [project |-> x, node |-> m] \in S <=> [project |-> x, node |-> m] \in T
      <4>1. \A m : [project |-> x, node |-> m].project # r.project
        BY <2>1
      <4>2. QED
        BY <4>1
    <3>2. ReopenedNodes(ds[x].nodes, x, T) = ReopenedNodes(ds[x].nodes, x, S)
      BY <3>1 DEF ReopenedNodes
    <3>3. qs[x] = ps[x]
      BY <2>1
    <3>4. QED
      BY <1>3, <1>4, <3>2, <3>3
  <2>2. CASE x = p
    <3> DEFINE dn == ReopenedNodes(ds[p].nodes, p, S)
               en == ReopenedNodes(ds[p].nodes, p, T)
               pn == ps[p].nodes
    <3>1. /\ "nodes" \in DOMAIN ds[p] /\ \A m \in DOMAIN ds[p].nodes : NodeKept(ds[p].nodes[m])
          /\ "nodes" \in DOMAIN ps[p] /\ \A m \in DOMAIN pn : NodeKept(pn[m])
      BY <1>2 DEF AllKept, Kept
    <3>2. qs[p] = WithNodes(ps[p], NodeUpdated(pn, n))
      BY DEF WithNodes, NodeUpdated
    <3>3. Reopened(ds, S)[p] = WithNodes(ds[p], dn) /\ Reopened(ds, T)[p] = WithNodes(ds[p], en)
      BY <1>4
    <3>4. NormalizeProject(WithNodes(ds[p], dn)) = NormalizeProject(ps[p])
      BY <1>3, <3>3
    <3> HIDE DEF dn, en, pn
    <3>5. /\ NormalizeProject(WithNodes(ds[p], dn)) = WithNodes(ds[p], RestoredNodes(dn))
          /\ NormalizeProject(WithNodes(ds[p], en)) = WithNodes(ds[p], RestoredNodes(en))
          /\ NormalizeProject(ps[p]) = WithNodes(ps[p], RestoredNodes(pn))
          /\ NormalizeProject(WithNodes(ps[p], NodeUpdated(pn, n)))
               = WithNodes(ps[p], RestoredNodes(NodeUpdated(pn, n)))
      BY <3>1, Restored DEF pn
    <3>6. WithNodes(ds[p], RestoredNodes(dn)) = WithNodes(ps[p], RestoredNodes(pn))
      BY <3>4, <3>5
    <3>7. RestoredNodes(dn) = RestoredNodes(pn)
      <4>1. /\ WithNodes(ds[p], RestoredNodes(dn)).nodes = RestoredNodes(dn)
            /\ WithNodes(ps[p], RestoredNodes(pn)).nodes = RestoredNodes(pn)
        BY <3>1, Replaced
      <4>2. QED
        BY <3>6, <4>1
    <3>8. RestoredNodes(en) = RestoredNodes(NodeUpdated(pn, n))
      BY <3>1, <3>7, StreamedNodes DEF dn, en, pn
    <3>9. \A z : WithNodes(ds[p], z) = WithNodes(ps[p], z)
      BY <3>1, <3>6, Replaced
    <3>10. QED
      BY <2>2, <3>2, <3>3, <3>5, <3>8, <3>9
  <2>3. QED
    BY <2>1, <2>2
<1> HIDE DEF T, qs
<1>6. QED
  BY <1>1, <1>2, <1>5 DEF Normalized, T, qs, r, ProjectsUpdated

\* Two workspaces, each with its active project, that bring back the same.
LEMMA LoadedAlike ==
  ASSUME NEW ps, NEW a \in DOMAIN ps, NEW n, NEW qs, NEW b, NEW m,
         b \in DOMAIN qs \/ DOMAIN qs = {},
         Loaded(Workspace(qs, b, m)) = Loaded(Workspace(ps, a, n))
  PROVE  /\ b = a /\ a \in DOMAIN qs /\ Normalized(qs) = Normalized(ps)
         /\ (IF m \in DOMAIN Normalized(ps)[a].nodes THEN m ELSE Root)
              = (IF n \in DOMAIN Normalized(ps)[a].nodes THEN n ELSE Root)
<1> DEFINE found(x) == IF x \in DOMAIN Normalized(ps)[a].nodes THEN x ELSE Root
           kept(x)  == IF x \in DOMAIN Normalized(qs)[b].nodes THEN x ELSE Root
<1>1. Loaded(Workspace(ps, a, n)) = {Workspace(Normalized(ps), a, found(n))}
  BY LoadedOne
<1>2. DOMAIN Normalized(ps) = DOMAIN ps
  BY DEF Normalized
<1>3. b \in DOMAIN qs
  <2>1. ASSUME DOMAIN qs = {} PROVE FALSE
    <3>1. EmptyWorkspace = Workspace(Normalized(ps), a, found(n))
      BY <1>1, <2>1, LoadedNone
    <3>2. DOMAIN EmptyWorkspace.projects = {}
      BY DEF EmptyWorkspace, Workspace
    <3>3. Workspace(Normalized(ps), a, found(n)).projects = Normalized(ps)
      BY DEF Workspace
    <3>4. QED
      BY <1>2, <3>1, <3>2, <3>3
  <2>2. QED
    BY <2>1
<1>4. Loaded(Workspace(qs, b, m)) = {Workspace(Normalized(qs), b, kept(m))}
  BY <1>3, LoadedOne
<1> HIDE DEF found, kept
<1>5. Workspace(Normalized(qs), b, kept(m)) = Workspace(Normalized(ps), a, found(n))
  BY <1>1, <1>4
<1>6. \A x, y, z : /\ Workspace(x, y, z).projects = x /\ Workspace(x, y, z).active = y
                   /\ Workspace(x, y, z).selected = z
  BY DEF Workspace
<1>7. Normalized(qs) = Normalized(ps) /\ b = a /\ kept(m) = found(n)
  BY <1>5, <1>6
<1>8. QED
  BY <1>3, <1>7 DEF found, kept

\* A text that streams is newer on the page only, until it is saved.
LEMMA UpdateFollows ==
  ASSUME WorkspaceInv, WorkspaceInv', ActiveInv, StoreFollows,
         NEW r, r = [project |-> r.project, node |-> r.node], Known(r), Update(r)
  PROVE  StoreFollows'
<1> DEFINE p  == r.project
           n  == r.node
           ps == [projects EXCEPT ![p].nodes[n].status = "streaming"]
           ds == disk.projects
           T  == streamed \cup {r}
<1>1. SUFFICES ASSUME ~unsaved' PROVE StoreFollows'
  BY DEF StoreFollows
<1>2. /\ projects' = ps /\ streamed' = T /\ disk' = disk /\ ~unsaved
      /\ activeProject' = activeProject /\ selected' = selected
  BY <1>1 DEF Update
<1>3. p \in DOMAIN projects /\ n \in DOMAIN projects[p].nodes
  BY DEF Known
<1>4. \A q \in T : Known(q)' /\ projects'[q.project].nodes[q.node].status = "streaming"
  <2>1. "nodes" \in DOMAIN projects[p] /\ NodeKept(projects[p].nodes[n])
    BY <1>3 DEF WorkspaceInv, AllKept, Kept
  <2>2. \A q \in streamed : Known(q) /\ projects[q.project].nodes[q.node].status = "streaming"
    BY <1>2 DEF StoreFollows
  <2>3. DOMAIN ps = DOMAIN projects /\ \A x \in DOMAIN ps \ {p} : ps[x] = projects[x]
    OBVIOUS
  <2>4. /\ DOMAIN ps[p].nodes = DOMAIN projects[p].nodes
        /\ ps[p].nodes[n].status = "streaming"
        /\ \A m \in DOMAIN projects[p].nodes \ {n} : ps[p].nodes[m] = projects[p].nodes[m]
    BY <1>3, <2>1 DEF NodeKept
  <2> HIDE DEF ps
  <2>5. ASSUME NEW q \in T PROVE /\ q.project \in DOMAIN ps /\ q.node \in DOMAIN ps[q.project].nodes
                                 /\ ps[q.project].nodes[q.node].status = "streaming"
    BY <1>3, <2>2, <2>3, <2>4 DEF Known
  <2>6. QED
    BY <1>2, <2>5 DEF Known
<1>5. Loaded(Workspace(Reopened(ds, T), disk.active, disk.selected))
        = Loaded(Workspace(ps, activeProject, selected))
  <2> DEFINE a == activeProject
  <2>1. AllKept(home, ds) /\ AllKept(home, projects) /\ AllKept(home', ps)
    BY <1>2 DEF WorkspaceInv
  <2>2. a \in DOMAIN projects /\ DOMAIN ps = DOMAIN projects
    BY <1>3 DEF ActiveInv
  <2>3. DOMAIN Reopened(ds, streamed) = DOMAIN ds /\ DOMAIN Reopened(ds, T) = DOMAIN ds
    BY DEF Reopened
  <2>4. disk.active \in DOMAIN Reopened(ds, streamed) \/ DOMAIN Reopened(ds, streamed) = {}
    BY <2>3 DEF ActiveInv
  <2>5. Loaded(Workspace(Reopened(ds, streamed), disk.active, disk.selected))
          = Loaded(Workspace(projects, a, selected))
    BY <1>2 DEF StoreFollows
  <2>6. /\ disk.active = a /\ a \in DOMAIN Reopened(ds, streamed)
        /\ Normalized(Reopened(ds, streamed)) = Normalized(projects)
        /\ (IF disk.selected \in DOMAIN Normalized(projects)[a].nodes
            THEN disk.selected ELSE Root)
             = (IF selected \in DOMAIN Normalized(projects)[a].nodes THEN selected ELSE Root)
    <3> DEFINE rs == Reopened(ds, streamed)
    <3>1. rs = Reopened(ds, streamed)
      OBVIOUS
    <3> HIDE DEF rs, ds, ps, T
    <3>2. disk.active \in DOMAIN rs \/ DOMAIN rs = {}
      BY <2>4, <3>1
    <3>3. Loaded(Workspace(rs, disk.active, disk.selected))
            = Loaded(Workspace(projects, activeProject, selected))
      BY <2>5, <3>1
    <3>4. activeProject \in DOMAIN projects
      BY <2>2
    <3>5. QED
      BY <3>1, <3>2, <3>3, <3>4, LoadedAlike
  <2>7. Normalized(Reopened(ds, T)) = Normalized(ps)
    <3>1. Normalized(Reopened(ds, streamed \cup {[project |-> p, node |-> n]}))
            = Normalized(ProjectsUpdated(projects, p, n))
      BY <1>3, <2>1, <2>6, StreamedProjects
    <3>2. /\ T = streamed \cup {[project |-> p, node |-> n]}
          /\ ps = ProjectsUpdated(projects, p, n)
      BY DEF ProjectsUpdated
    <3> HIDE DEF T, ps
    <3>3. QED
      BY <3>1, <3>2
  <2>8. DOMAIN Normalized(ps)[a].nodes = DOMAIN Normalized(projects)[a].nodes
    <3>1. DOMAIN ps[a].nodes = DOMAIN projects[a].nodes
      <4>1. "nodes" \in DOMAIN projects[p]
        BY <1>3 DEF WorkspaceInv, AllKept, Kept
      <4>2. QED
        BY <1>3, <2>2, <4>1
    <3>2. QED
      BY <2>1, <2>2, <3>1, RestoredProjects
  <2>9. Loaded(Workspace(Reopened(ds, T), a, disk.selected))
          = Loaded(Workspace(ps, a, disk.selected))
    BY <2>7, SameLoaded
  <2>10. /\ Loaded(Workspace(ps, a, disk.selected))
              = {Workspace(Normalized(ps), a, IF disk.selected \in DOMAIN Normalized(ps)[a].nodes
                                              THEN disk.selected ELSE Root)}
         /\ Loaded(Workspace(ps, a, selected))
              = {Workspace(Normalized(ps), a, IF selected \in DOMAIN Normalized(ps)[a].nodes
                                              THEN selected ELSE Root)}
    BY <2>2, LoadedOne
  <2> HIDE DEF a, ps, ds, T
  <2>11. QED
    BY <2>6, <2>8, <2>9, <2>10 DEF a
<1> HIDE DEF ps, T
<1>6. QED
  BY <1>2, <1>4, <1>5 DEF StoreFollows

\* A reload puts what is saved on the page.
LEMMA ReloadFollows ==
  ASSUME WorkspaceInv, ActiveInv, Reload PROVE ActiveInv' /\ StoreFollows'
<1> DEFINE ds == disk.projects
           found(n) == IF n \in DOMAIN Normalized(ds)[disk.active].nodes THEN n ELSE Root
<1>1. PICK w \in Loaded(disk) : projects' = w.projects /\ activeProject' = w.active
                                /\ selected' = w.selected
  BY DEF Reload
<1>2. disk' = disk /\ streamed' = {} /\ open' = {}
  BY DEF Reload
<1>3. Loaded(disk) = Loaded(Workspace(ds, disk.active, disk.selected))
  BY DEF Loaded, Workspace
<1>4. AllKept(home, ds)
  BY DEF WorkspaceInv
<1>5. Loaded(Workspace(Reopened(ds, {}), disk.active, disk.selected)) = Loaded(disk)
  BY <1>3, <1>4, NothingReopened, SameLoaded
<1>6. CASE DOMAIN ds = {}
  <2>1. Loaded(disk) = {EmptyWorkspace}
    BY <1>3, <1>6, LoadedNone
  <2>2. w = EmptyWorkspace
    BY <1>1, <2>1
  <2>3. DOMAIN projects' = {}
    BY <1>1, <2>2 DEF EmptyWorkspace, Workspace
  <2>4. Loaded(Workspace(projects', activeProject', selected')) = {EmptyWorkspace}
    BY <2>3, LoadedNone
  <2>5. StoreFollows'
    BY <1>2, <1>5, <2>4, <2>1 DEF StoreFollows
  <2>6. ActiveInv'
    BY <1>2, <1>6, <2>3 DEF ActiveInv
  <2>7. QED
    BY <2>5, <2>6
<1>7. CASE disk.active \in DOMAIN ds
  <2> DEFINE ns == Normalized(ds)
             s  == found(disk.selected)
  <2>1. Loaded(disk) = {Workspace(ns, disk.active, s)}
    BY <1>3, <1>7, LoadedOne
  <2>2. projects' = ns /\ activeProject' = disk.active /\ selected' = s
    BY <1>1, <2>1 DEF Workspace
  <2>3. Normalized(ns) = ns /\ disk.active \in DOMAIN ns
    BY <1>4, <1>7, RestoredProjects DEF Normalized
  <2>4. s = IF s \in DOMAIN ns[disk.active].nodes THEN s ELSE Root
    OBVIOUS
  <2> HIDE DEF ns, s
  <2>5. Loaded(Workspace(ns, disk.active, s)) = {Workspace(ns, disk.active, s)}
    BY <2>3, <2>4, LoadedOne
  <2>6. Loaded(Workspace(projects', activeProject', selected')) = Loaded(disk)
    BY <2>1, <2>2, <2>5
  <2>7. StoreFollows'
    BY <1>2, <1>5, <2>6 DEF StoreFollows
  <2>8. ActiveInv'
    BY <1>2, <1>7, <2>2, <2>3 DEF ActiveInv
  <2>9. QED
    BY <2>7, <2>8
<1>8. QED
  BY <1>6, <1>7 DEF ActiveInv

\* An undo or a redo is saved, with a project in view if there is one.
LEMMA PatchedFollows ==
  ASSUME ActiveInv, WorkspaceInv', UNCHANGED open,
         NEW ps, NEW e, PersistPatched(ps, e)
  PROVE  ActiveInv' /\ StoreFollows'
<1>1. PICK a, n : Persist(ps, a, n) /\ (a \in DOMAIN ps \/ DOMAIN ps = {})
  BY DEF PersistPatched
<1>2. QED
  BY <1>1, PersistFollows, StoredIs DEF ActiveInv, Workspace

\* Every step leaves a project in view, if there is one, and the store up to date
\* but for what is streamed.
LEMMA StoreStep ==
  ASSUME WorkspaceInv, WorkspaceInv', ActiveInv, StoreFollows, [Next]_forestVars
  PROVE  ActiveInv' /\ StoreFollows'
<1> DEFINE Follows == ActiveInv' /\ StoreFollows'
           Same    == UNCHANGED <<projects, activeProject, selected, disk, streamed, unsaved>>
           Records == \A r \in open' : r = [project |-> r.project, node |-> r.node]
<1>1. ASSUME Same, Records PROVE Follows
  BY <1>1 DEF ActiveInv, StoreFollows, Known
<1>2. ASSUME NEW ps, NEW a, NEW n, Persist(ps, a, n), a \in DOMAIN ps, Records PROVE Follows
  BY <1>2, PersistFollows, StoredIs DEF ActiveInv, Workspace
<1>3. ASSUME NEW p, PersistActive(p), activeProject \in DOMAIN projects, Records PROVE Follows
  <2>1. activeProject \in DOMAIN [projects EXCEPT ![activeProject] = p]
    BY <1>3
  <2>2. QED
    BY <1>2, <1>3, <2>1 DEF PersistActive
<1>4. UNCHANGED open => Records
  BY DEF ActiveInv
<1> SUFFICES Follows
  OBVIOUS
<1> HIDE DEF Follows
<1>5. ASSUME NEW p \in ProjectId, Seed(p) \/ SwitchProject(p) \/ DeleteProject(p)
      PROVE  Follows
  <2>1. CASE Seed(p)
    BY <1>2, <1>4, <2>1 DEF Seed, Override, pageVars
  <2>2. CASE SwitchProject(p)
    BY <1>2, <1>4, <2>2 DEF SwitchProject, pageVars
  <2>3. CASE DeleteProject(p)
    <3>1. DOMAIN [q \in DOMAIN projects \ {p} |-> projects[q]] = DOMAIN projects \ {p}
      OBVIOUS
    <3>2. QED
      BY <1>2, <1>4, <2>3, <3>1 DEF DeleteProject, AtWork, pageVars
  <2>4. QED
    BY <1>5, <2>1, <2>2, <2>3
<1>6. ASSUME NEW n \in AnyId, SelectNode(n) \/ Leaf(n) \/ Ask(n) PROVE Follows
  <2>1. CASE SelectNode(n)
    BY <1>2, <1>4, <2>1 DEF SelectNode, AtWork, pageVars
  <2>2. CASE Leaf(n)
    BY <1>2, <1>4, <2>2 DEF Leaf, AtWork, pageVars
  <2>3. CASE Ask(n)
    <3>1. Records
      <4>1. open' = open \cup {[project |-> activeProject, node |-> n]}
        BY <2>3 DEF Ask
      <4>2. QED
        BY <4>1 DEF ActiveInv
    <3>2. PICK ps : Persist(ps, activeProject, n) /\ DOMAIN ps = DOMAIN projects
      BY <2>3 DEF Ask
    <3>3. activeProject \in DOMAIN ps
      BY <2>3, <3>2 DEF Ask, AtWork
    <3>4. QED
      BY <1>2, <3>1, <3>2, <3>3
  <2>4. QED
    BY <1>6, <2>1, <2>2, <2>3
<1>7. CASE Prune
  <2>1. activeProject \in DOMAIN projects /\ UNCHANGED open
    BY <1>7 DEF Prune, AtWork, pageVars
  <2>2. PICK ns, n : Persist([projects EXCEPT ![activeProject].nodes = ns],
                             activeProject, n)
    BY <1>7 DEF Prune
  <2>3. activeProject \in DOMAIN [projects EXCEPT ![activeProject].nodes = ns]
    BY <2>1
  <2>4. QED
    BY <1>2, <1>4, <2>1, <2>2, <2>3
<1>8. ASSUME NEW r, r = [project |-> r.project, node |-> r.node], Known(r), Update(r), Records
      PROVE  Follows
  <2>1. ActiveInv'
    BY <1>8 DEF Update, Known, ActiveInv
  <2>2. QED
    BY <1>8, <2>1, UpdateFollows DEF Follows
<1>9. ASSUME NEW r, NEW status, Settled(r.project, r.node, status), Known(r), Records
      PROVE  Follows
  <2>1. PICK node : Persist([projects EXCEPT ![r.project].nodes[r.node] = node],
                            activeProject, selected)
    BY <1>9 DEF Settled
  <2>2. activeProject \in DOMAIN [projects EXCEPT ![r.project].nodes[r.node] = node]
    BY <1>9 DEF Known, ActiveInv
  <2>3. QED
    BY <1>2, <1>9, <2>1, <2>2
<1>10. ASSUME NEW r \in open, Token(r) PROVE Follows
  BY <1>4, <1>8, <1>10 DEF Token, ActiveInv, pageVars
<1>11. ASSUME NEW r \in open, NEW status, Settle(r, status) PROVE Follows
  <2>1. Records
    BY <1>11 DEF Settle, ActiveInv
  <2>2. Same \/ (Settled(r.project, r.node, status) /\ Known(r))
    BY <1>11 DEF Settle, storeVars
  <2>3. QED
    BY <1>1, <1>9, <2>1, <2>2
<1>12. CASE RetryAnswer
  <2> DEFINE r == [project |-> activeProject, node |-> selected]
  <2>1. r = [project |-> r.project, node |-> r.node]
    OBVIOUS
  <2>2. Records
    BY <1>12, <2>1 DEF RetryAnswer, ActiveInv
  <2>3. Known(r) /\ (Settled(r.project, r.node, "failed") \/ Update(r))
    BY <1>12 DEF RetryAnswer
  <2> HIDE DEF r
  <2>4. QED
    BY <1>8, <1>9, <2>1, <2>2, <2>3
<1>13. CASE UploadBegins
  BY <1>1, <1>4, <1>13 DEF UploadBegins, storeVars
<1>14. ASSUME NEW X, UploadEnds(X) PROVE Follows
  <2>1. CASE X # {} /\ upload \in DOMAIN projects
    <3>1. PICK ps : Persist(ps, activeProject, selected) /\ DOMAIN ps = DOMAIN projects
      BY <1>14, <2>1 DEF UploadEnds, Added
    <3>2. activeProject \in DOMAIN ps /\ UNCHANGED open
      BY <1>14, <2>1, <3>1 DEF ActiveInv, UploadEnds
    <3>3. QED
      BY <1>2, <1>4, <3>1, <3>2
  <2>2. CASE ~(X # {} /\ upload \in DOMAIN projects)
    BY <1>1, <1>4, <1>14, <2>2 DEF UploadEnds, storeVars
  <2>3. QED
    BY <2>1, <2>2
<1>15. ASSUME NEW x \in NutrientId, RemoveBegins(x) \/ RemoveEnds(x) \/ ToggleNutrient(x)
       PROVE  Follows
  <2>1. CASE RemoveBegins(x)
    BY <1>1, <1>4, <2>1 DEF RemoveBegins, storeVars
  <2>2. CASE RemoveEnds(x) /\ activeProject \in DOMAIN projects
    BY <1>3, <1>4, <2>2 DEF RemoveEnds
  <2>3. CASE RemoveEnds(x) /\ activeProject \notin DOMAIN projects
    <3>1. Persist(projects, activeProject, selected) /\ UNCHANGED open
      BY <2>3 DEF RemoveEnds
    <3>2. ActiveInv'
      BY <2>3, <3>1, StoredIs DEF ActiveInv, Workspace
    <3>3. QED
      BY <3>1, <3>2, PersistFollows DEF Follows
  <2>4. CASE ToggleNutrient(x)
    BY <1>3, <1>4, <2>4 DEF ToggleNutrient, AtWork, pageVars
  <2>5. QED
    BY <1>15, <2>1, <2>2, <2>3, <2>4
<1>16. ASSUME NEW source, NEW type, AddTransfer(source, type) PROVE Follows
  BY <1>3, <1>4, <1>16 DEF AddTransfer, AtWork, pageVars
<1>17. ASSUME NEW t, RemoveTransfer(t) PROVE Follows
  BY <1>3, <1>4, <1>17 DEF RemoveTransfer, AtWork, pageVars
<1>18. ASSUME NEW i, UndoAt(i) \/ RedoAt(i) PROVE Follows
  BY <1>18, PatchedFollows DEF UndoAt, RedoAt, Follows
<1>19. CASE Reload
  BY <1>19, ReloadFollows DEF Follows
<1>20. CASE UNCHANGED forestVars
  <2>1. Same /\ UNCHANGED open
    BY <1>20 DEF forestVars, storeVars, pageVars
  <2>2. QED
    BY <1>1, <1>4, <2>1
<1>21. QED
  BY <1>5, <1>6, <1>7, <1>10, <1>11, <1>12, <1>13, <1>14, <1>15, <1>16, <1>17, <1>18, <1>19,
     <1>20 DEF Next, Undo, Redo, UndoNode, RedoNode

\* Unless the last write failed, the store lags behind the page by the text and the
\* ending of the answers that stream on it and by nothing else, and it has caught up
\* with a retried answer once that is settled (StoreFollows).
THEOREM StoreFollowsPage == ForestSpec => []StoreFollows
<1>1. Init => ActiveInv /\ StoreFollows
  <2>1. SUFFICES ASSUME Init PROVE ActiveInv /\ StoreFollows
    OBVIOUS
  <2>2. /\ DOMAIN projects = {} /\ DOMAIN disk.projects = {} /\ streamed = {} /\ open = {}
    BY <2>1 DEF Init, EmptyWorkspace, Workspace
  <2>3. DOMAIN Reopened(disk.projects, streamed) = {}
    BY <2>2 DEF Reopened
  <2>4. QED
    BY <2>2, <2>3, LoadedNone DEF ActiveInv, StoreFollows
<1>2. WorkspaceInv /\ WorkspaceInv' /\ ActiveInv /\ StoreFollows /\ [Next]_forestVars
         => ActiveInv' /\ StoreFollows'
  BY StoreStep
<1>3. QED
  BY <1>1, <1>2, WorkspaceInvariant, PTL DEF ForestSpec

-----------------------------------------------------------------------------
(* The view.  That something is always in view rests on the shape of the    *)
(* trees: the card below a pruned one is not pruned with it only because    *)
(* no node hangs below itself.  Nodes are never moved here, so there is a   *)
(* rank, growing with every new node, that rises along every edge of the    *)
(* trees, of the store and of all snapshots in the history.                 *)

Rank == [AnyId -> Nat]
NodesDrawn == DOMAIN home \cap NodeId

\* s may stand for node n.
Standing(rank, ids, n, s) ==
    /\ s \in Node
    /\ n \in ids \cup {Root}
    /\ \A c \in ToSet(s.children) : c \in ids /\ rank[n] < rank[c]
    /\ n # Root => s.parent \in ids \cup {Root} /\ rank[s.parent] < rank[n]

SnapshotStands(rank, ids, n, s) == (s = None /\ n # Root) \/ Standing(rank, ids, n, s)

NodesStand(rank, ids, ns) ==
    /\ ns \in NodeMap
    /\ Root \in DOMAIN ns
    /\ \A n \in DOMAIN ns : Standing(rank, ids, n, ns[n])

ProjectStands(rank, ids, p) ==
    /\ DOMAIN p = {"nodes", "nutrients", "active", "transfers"}
    /\ NodesStand(rank, ids, p.nodes)
    /\ p.nutrients \subseteq NutrientId /\ p.active \subseteq p.nutrients
    /\ p.transfers \subseteq Transfer

ProjectsStand(rank, ids, ps) ==
    /\ DOMAIN ps \subseteq ProjectId
    /\ \A p \in DOMAIN ps : ProjectStands(rank, ids, ps[p])

GroupStands(rank, ids, group) ==
    /\ group \in Group
    /\ \A n \in DOMAIN group : /\ SnapshotStands(rank, ids, n, group[n].before)
                               /\ SnapshotStands(rank, ids, n, group[n].after)

EntryStands(rank, ids, e) ==
    /\ GroupStands(rank, ids, e.nodes)
    /\ DOMAIN e.projects \subseteq ProjectId
    /\ \A p \in DOMAIN e.projects : \A s \in {e.projects[p].before,
                                              e.projects[p].after} \ {None} :
          ProjectStands(rank, ids, s)

HistoryStands(rank, ids, entries) ==
    \E S : entries \in Seq(S) /\ \A e \in S : EntryStands(rank, ids, e)

AllStands(rank, ids, ps, saved, before, after) ==
    /\ ProjectsStand(rank, ids, ps) /\ ProjectsStand(rank, ids, saved)
    /\ HistoryStands(rank, ids, before) /\ HistoryStands(rank, ids, after)

InView(ps, active, node) ==
    IF DOMAIN ps = {} THEN active = None /\ node = None
    ELSE active \in DOMAIN ps /\ node \in DOMAIN ps[active].nodes

Requests == [project : ProjectId, node : NodeId]

PageTyped ==
    /\ open \cup retryable \subseteq Requests
    /\ upload \in ProjectId \cup {None}
    /\ removals \subseteq NutrientId

ViewInv ==
    /\ PageTyped /\ streamed \subseteq Requests
    /\ InView(projects, activeProject, selected)
    /\ \E rank \in Rank :
          AllStands(rank, NodesDrawn, projects, disk.projects, past, future)

-----------------------------------------------------------------------------
(* What stands keeps standing when nodes are drawn.                         *)

\* The rank of the nodes drawn so far does not change.
Outgrows(rank2, ids2, rank, ids) ==
    ids \subseteq ids2 /\ \A n \in ids \cup {Root} : rank2[n] = rank[n]

LEMMA StandingGrows ==
    ASSUME NEW rank, NEW ids, NEW rank2, NEW ids2, Outgrows(rank2, ids2, rank, ids),
           NEW n, NEW s, Standing(rank, ids, n, s)
    PROVE  Standing(rank2, ids2, n, s)
BY DEF Standing, Outgrows

LEMMA ProjectGrows ==
    ASSUME NEW rank, NEW ids, NEW rank2, NEW ids2, Outgrows(rank2, ids2, rank, ids),
           NEW p, ProjectStands(rank, ids, p)
    PROVE  ProjectStands(rank2, ids2, p)
BY StandingGrows DEF ProjectStands, NodesStand

LEMMA EntryGrows ==
    ASSUME NEW rank, NEW ids, NEW rank2, NEW ids2, Outgrows(rank2, ids2, rank, ids),
           NEW e, EntryStands(rank, ids, e)
    PROVE  EntryStands(rank2, ids2, e)
<1>1. ASSUME NEW n, NEW s, SnapshotStands(rank, ids, n, s)
      PROVE  SnapshotStands(rank2, ids2, n, s)
    BY <1>1, StandingGrows DEF SnapshotStands
<1>2. GroupStands(rank2, ids2, e.nodes)
    BY <1>1 DEF EntryStands, GroupStands
<1> QED BY <1>2, ProjectGrows DEF EntryStands

LEMMA AllGrow ==
    ASSUME NEW rank, NEW ids, NEW rank2, NEW ids2, Outgrows(rank2, ids2, rank, ids),
           NEW ps, NEW saved, NEW before, NEW after,
           AllStands(rank, ids, ps, saved, before, after)
    PROVE  AllStands(rank2, ids2, ps, saved, before, after)
<1>1. ASSUME NEW entries, HistoryStands(rank, ids, entries)
      PROVE  HistoryStands(rank2, ids2, entries)
    BY <1>1, EntryGrows DEF HistoryStands
<1> QED BY <1>1, ProjectGrows DEF AllStands, ProjectsStand

-----------------------------------------------------------------------------
(* Nodes that are edited.                                                   *)

LEMMA StandingEdited ==
    ASSUME NEW rank, NEW ids, NEW n, NEW s, Standing(rank, ids, n, s),
           NEW new \in Node, new.parent = s.parent,
           \A c \in ToSet(new.children) : c \in ToSet(s.children) \/ (c \in ids /\ rank[n] < rank[c])
    PROVE  Standing(rank, ids, n, new)
BY DEF Standing

LEMMA StandingStatus ==
    ASSUME NEW rank, NEW ids, NEW n, NEW s, Standing(rank, ids, n, s), NEW status \in Status
    PROVE  Standing(rank, ids, n, [s EXCEPT !.status = status])
<1> DEFINE new == [s EXCEPT !.status = status]
<1>1. s \in Node
    BY DEF Standing
<1>2. new \in Node /\ new.parent = s.parent /\ new.children = s.children
    BY <1>1 DEF Node
<1> HIDE DEF new
<1>3. Standing(rank, ids, n, new)
    BY <1>2, StandingEdited
<1> QED BY <1>3 DEF new

LEMMA StandingNormal ==
    ASSUME NEW rank, NEW ids, NEW n, NEW s, Standing(rank, ids, n, s)
    PROVE  Standing(rank, ids, n, NormalizeNode(s))
<1>1. s \in Node /\ s.status \in Status
    BY NodeFields DEF Standing
<1>2. NormalizeNode(s) = [s EXCEPT !.status = IF s.status = "streaming" THEN "stopped"
                                              ELSE s.status]
    BY <1>1 DEF NormalizeNode
<1>3. (IF s.status = "streaming" THEN "stopped" ELSE s.status) \in Status
    BY <1>1 DEF Status
<1> QED BY <1>2, <1>3, StandingStatus

LEMMA StandingWithout ==
    ASSUME NEW rank, NEW ids, NEW n, NEW s, Standing(rank, ids, n, s), NEW c
    PROVE  Standing(rank, ids, n, WithoutChild(s, c))
<1> DEFINE new == WithoutChild(s, c)
           children == Without(s.children, {c})
<1>1. s \in Node /\ s.children \in Seq(AnyId)
    BY NodeFields DEF Standing
<1>2. children \in Seq(AnyId) /\ ToSet(children) = ToSet(s.children) \ {c}
    BY <1>1, WithoutElements
<1>3. new = [s EXCEPT !.children = children]
    BY <1>1 DEF WithoutChild, Node
<1> HIDE DEF new, children
<1>4. new \in Node /\ new.parent = s.parent /\ new.children = children
    BY <1>1, <1>2, <1>3 DEF Node
<1>5. Standing(rank, ids, n, new)
    BY <1>2, <1>4, StandingEdited
<1> QED BY <1>5 DEF new

LEMMA StandingWith ==
    ASSUME NEW rank, NEW ids, NEW n, NEW s, Standing(rank, ids, n, s),
           NEW c \in ids, c \in AnyId, rank[n] < rank[c]
    PROVE  Standing(rank, ids, n, WithChild(s, c))
<1> DEFINE new == WithChild(s, c)
           children == Append(s.children, c)
<1>1. s \in Node /\ s.children \in Seq(AnyId)
    BY NodeFields DEF Standing
<1>2. children \in Seq(AnyId) /\ ToSet(children) = ToSet(s.children) \cup {c}
    BY <1>1, ElementsOfAppend
<1>3. new = [s EXCEPT !.children = children]
    BY <1>1 DEF WithChild, Node
<1> HIDE DEF new, children
<1>4. new \in Node /\ new.parent = s.parent /\ new.children = children
    BY <1>1, <1>2, <1>3 DEF Node
<1>5. Standing(rank, ids, n, new)
    BY <1>2, <1>4, StandingEdited
<1> QED BY <1>5 DEF new

LEMMA StandingNew ==
    ASSUME NEW rank, NEW ids, NEW n \in ids, NEW kind \in {"branch", "leaf"},
           NEW parent \in ids \cup {Root}, ids \subseteq NodeId, rank[parent] < rank[n],
           NEW status \in Status
    PROVE  Standing(rank, ids, n, NewNode(kind, parent, status))
<1> DEFINE new == NewNode(kind, parent, status)
<1>1. parent \in AnyId
    BY DEF AnyId
<1>2. <<>> \in Seq(AnyId) /\ ToSet(<<>>) = {}
    BY DEF ToSet
<1>3. new \in Node /\ new.children = <<>> /\ new.parent = parent
    BY <1>1, <1>2 DEF NewNode, Node
<1> HIDE DEF new
<1>4. Standing(rank, ids, n, new)
    BY <1>2, <1>3 DEF Standing
<1> QED BY <1>4 DEF new

-----------------------------------------------------------------------------
(* Undone and redone.                                                       *)

LEMMA ChangedStands ==
    ASSUME NEW rank, NEW ids, NEW ns, NodesStand(rank, ids, ns), NEW n,
           NEW change \in [before: Snapshot, after: Snapshot],
           SnapshotStands(rank, ids, n, change.before),
           SnapshotStands(rank, ids, n, change.after),
           NEW d \in Direction, NEW node, ChangedTo(node, ns, n, change, d)
    PROVE  Standing(rank, ids, n, node)
<1> DEFINE source == Source(change, d)
           target == Target(change, d)
<1>1. /\ node \in Node /\ target \in Node /\ node.parent = target.parent
      /\ \/ (source = None \/ n \notin DOMAIN ns) /\ node.children = target.children
         \/ /\ source \in Node /\ n \in DOMAIN ns
            /\ MergedFrom(node.children, AnyId, ns[n].children, source.children,
                          target.children)
    BY ChangedNode
<1>2. SnapshotStands(rank, ids, n, target)
    BY DEF Target
<1> HIDE DEF source, target
<1>3. Standing(rank, ids, n, target)
    BY <1>1, <1>2, NoneAssumption DEF SnapshotStands
<1>4. CASE node.children = target.children
    BY <1>1, <1>3, <1>4, StandingEdited
<1>5. CASE /\ n \in DOMAIN ns
           /\ MergedFrom(node.children, AnyId, ns[n].children, source.children,
                         target.children)
    <2>1. Standing(rank, ids, n, ns[n])
        BY <1>5 DEF NodesStand
    <2>2. ToSet(node.children) \subseteq ToSet(ns[n].children) \cup ToSet(target.children)
        BY <1>5 DEF MergedFrom
    <2>3. \A c \in ToSet(node.children) : c \in ids /\ rank[n] < rank[c]
        BY <1>3, <2>1, <2>2 DEF Standing
    <2> QED BY <1>1, <1>3, <2>3, StandingEdited
<1> QED BY <1>1, <1>4, <1>5

LEMMA GroupKeepsStanding ==
    ASSUME NEW rank, NEW ids, NEW ns, NodesStand(rank, ids, ns),
           NEW group, GroupStands(rank, ids, group), NEW d \in Direction
    PROVE  NodesStand(rank, ids, ApplyGroup(ns, group, d))
<1> DEFINE result == ApplyGroup(ns, group, d)
<1>1. ns \in NodeMap /\ group \in Group
    BY DEF NodesStand, GroupStands
<1>2. result \in NodeMap
    BY <1>1, GroupTyped
<1>3. Root \in DOMAIN result
    <2>1. Root \in DOMAIN ns
        BY DEF NodesStand
    <2>2. \/ Root \in DOMAIN result
          \/ Root \in DOMAIN group /\ Target(group[Root], d) = None
        BY <1>1, <2>1, GroupDomain
    <2>3. ASSUME Root \in DOMAIN group, Target(group[Root], d) = None
          PROVE  FALSE
        <3>1. SnapshotStands(rank, ids, Root, Target(group[Root], d))
            BY <2>3 DEF Target, GroupStands
        <3> QED BY <2>3, <3>1, NoneAssumption DEF SnapshotStands, Standing
    <2> QED BY <2>2, <2>3
<1>4. ASSUME NEW n \in DOMAIN result
      PROVE  Standing(rank, ids, n, result[n])
    <2>1. CASE n \in DOMAIN ns /\ result[n] = ns[n]
        BY <2>1 DEF NodesStand
    <2>2. CASE n \in DOMAIN group /\ ChangedTo(result[n], ns, n, group[n], d)
        <3>1. /\ group[n] \in [before: Snapshot, after: Snapshot]
              /\ SnapshotStands(rank, ids, n, group[n].before)
              /\ SnapshotStands(rank, ids, n, group[n].after)
            BY <1>1, <2>2 DEF GroupStands, Group
        <3> HIDE DEF result
        <3> QED BY <2>2, <3>1, ChangedStands
    <2> QED BY <1>1, <1>4, <2>1, <2>2, GroupValue
<1> QED BY <1>2, <1>3, <1>4 DEF NodesStand

LEMMA WithNodesStands ==
    ASSUME NEW rank, NEW ids, NEW p, ProjectStands(rank, ids, p),
           NEW ns, NodesStand(rank, ids, ns)
    PROVE  ProjectStands(rank, ids, WithNodes(p, ns))
<1>1. /\ DOMAIN WithNodes(p, ns) = DOMAIN p
      /\ WithNodes(p, ns).nodes = ns
      /\ WithNodes(p, ns).nutrients = p.nutrients
      /\ WithNodes(p, ns).active = p.active
      /\ WithNodes(p, ns).transfers = p.transfers
    BY DEF WithNodes, ProjectStands
<1> QED BY <1>1 DEF ProjectStands

LEMMA NormalizedStands ==
    ASSUME NEW rank, NEW ids, NEW p, ProjectStands(rank, ids, p)
    PROVE  /\ ProjectStands(rank, ids, NormalizeProject(p))
           /\ DOMAIN NormalizeProject(p).nodes = DOMAIN p.nodes
<1> DEFINE ns == [n \in DOMAIN p.nodes |-> NormalizeNode(p.nodes[n])]
<1>1. NodesStand(rank, ids, ns)
    <2>1. \A n \in DOMAIN p.nodes : Standing(rank, ids, n, NormalizeNode(p.nodes[n]))
        BY StandingNormal DEF ProjectStands, NodesStand
    <2>2. DOMAIN p.nodes \in SUBSET AnyId /\ Root \in DOMAIN p.nodes
        BY DEF ProjectStands, NodesStand, NodeMap
    <2>3. ns \in [DOMAIN p.nodes -> Node]
        BY <2>1 DEF Standing
    <2>4. ns \in NodeMap
        BY <2>2, <2>3 DEF NodeMap
    <2> QED BY <2>1, <2>2, <2>4 DEF NodesStand
<1>2. DOMAIN ns = DOMAIN p.nodes /\ NormalizeProject(p) = WithNodes(p, ns)
    BY DEF NormalizeProject
<1> HIDE DEF ns
<1>3. ProjectStands(rank, ids, WithNodes(p, ns))
    BY <1>1, WithNodesStands
<1>4. WithNodes(p, ns).nodes = ns
    BY DEF WithNodes, ProjectStands
<1> QED BY <1>2, <1>3, <1>4

LEMMA PatchStands ==
    ASSUME NEW rank, NEW ids, NEW ps, ProjectsStand(rank, ids, ps),
           NEW e, EntryStands(rank, ids, e), NEW d \in Direction
    PROVE  ProjectsStand(rank, ids, ApplyPatch(ps, e, d))
<1> DEFINE patched == PatchProjects(ps, e, d)
<1>1. ProjectsStand(rank, ids, patched)
    <2> DEFINE value(p) == IF d = "undo" THEN e.projects[p].before
                                         ELSE e.projects[p].after
    <2>1. /\ DOMAIN patched \subseteq DOMAIN ps \cup DOMAIN e.projects
          /\ \A p \in DOMAIN patched :
               /\ p \in DOMAIN e.projects =>
                     value(p) # None /\ patched[p] = NormalizeProject(value(p))
               /\ p \notin DOMAIN e.projects => p \in DOMAIN ps /\ patched[p] = ps[p]
        BY DEF PatchProjects
    <2>2. \A p \in DOMAIN e.projects : value(p) # None => ProjectStands(rank, ids, value(p))
        BY DEF EntryStands
    <2> HIDE DEF value, patched
    <2> QED BY <2>1, <2>2, NormalizedStands DEF ProjectsStand, EntryStands
<1>2. CASE e.project \in DOMAIN patched /\ DOMAIN e.nodes # {}
    <2> DEFINE project == patched[e.project]
               ns == ApplyGroup(project.nodes, e.nodes, d)
    <2>1. ProjectStands(rank, ids, project)
        BY <1>1, <1>2 DEF ProjectsStand
    <2>2. NodesStand(rank, ids, ns)
        <3>1. NodesStand(rank, ids, project.nodes) /\ GroupStands(rank, ids, e.nodes)
            BY <2>1 DEF ProjectStands, EntryStands
        <3> HIDE DEF project
        <3> QED BY <3>1, GroupKeepsStanding
    <2>3. ApplyPatch(ps, e, d) = [patched EXCEPT ![e.project] = WithNodes(project, ns)]
        BY <1>2 DEF ApplyPatch
    <2> HIDE DEF project, ns
    <2>4. ProjectStands(rank, ids, WithNodes(project, ns))
        BY <2>1, <2>2, WithNodesStands
    <2> HIDE DEF patched
    <2> QED BY <1>1, <1>2, <2>3, <2>4 DEF ProjectsStand
<1>3. CASE ~(e.project \in DOMAIN patched /\ DOMAIN e.nodes # {})
    BY <1>1, <1>3 DEF ApplyPatch
<1> QED BY <1>2, <1>3

-----------------------------------------------------------------------------
(* Histories and entries that stand.                                        *)

LEMMA PushStands ==
    ASSUME NEW rank, NEW ids, NEW s, HistoryStands(rank, ids, s),
           NEW e, EntryStands(rank, ids, e)
    PROVE  /\ HistoryStands(rank, ids, Capped(Append(s, e)))
           /\ HistoryStands(rank, ids, <<e>> \o s)
<1>1. PICK S : s \in Seq(S) /\ \A x \in S : EntryStands(rank, ids, x)
    BY DEF HistoryStands
<1> DEFINE T == S \cup {e}
<1>2. s \in Seq(T) /\ e \in T /\ \A x \in T : EntryStands(rank, ids, x)
    BY <1>1, SeqMonotonic
<1> HIDE DEF T
<1>3. Append(s, e) \in Seq(T) /\ Append(s, e) # <<>>
    BY <1>2, AppendProperties
<1>4. Tail(Append(s, e)) \in Seq(T)
    BY <1>3, HeadTailProperties
<1>5. Capped(Append(s, e)) \in Seq(T)
    BY <1>3, <1>4 DEF Capped
<1>6. <<e>> \in Seq(T)
    BY <1>2
<1>7. <<e>> \o s \in Seq(T)
    BY <1>2, <1>6
<1> QED BY <1>2, <1>5, <1>7 DEF HistoryStands

LEMMA RemoveStands ==
    ASSUME NEW rank, NEW ids, NEW s, HistoryStands(rank, ids, s), NEW i \in DOMAIN s
    PROVE  HistoryStands(rank, ids, RemoveAt(s, i)) /\ EntryStands(rank, ids, s[i])
<1>1. PICK S : s \in Seq(S) /\ \A x \in S : EntryStands(rank, ids, x)
    BY DEF HistoryStands
<1>2. Len(s) \in Nat /\ i \in 1..Len(s) /\ \A k \in 1..Len(s) : s[k] \in S
    BY <1>1
<1>3. SubSeq(s, 1, i - 1) \in Seq(S) /\ SubSeq(s, i + 1, Len(s)) \in Seq(S)
    BY <1>1, <1>2, SubSeqProperties
<1>4. RemoveAt(s, i) \in Seq(S)
    BY <1>3 DEF RemoveAt
<1> QED BY <1>1, <1>2, <1>4 DEF HistoryStands

LEMMA NothingStands ==
    ASSUME NEW rank, NEW ids
    PROVE  HistoryStands(rank, ids, <<>>)
<1>1. PICK S : S = {}
    OBVIOUS
<1>2. <<>> \in Seq(S) /\ \A e \in S : EntryStands(rank, ids, e)
    BY <1>1, EmptySeq
<1> QED BY <1>2 DEF HistoryStands

LEMMA PushedStands ==
    ASSUME NEW rank, NEW ids, HistoryStands(rank, ids, past),
           NEW e, EntryStands(rank, ids, e), PushHistory(e)
    PROVE  HistoryStands(rank, ids, past') /\ HistoryStands(rank, ids, future')
BY PushStands, NothingStands DEF PushHistory

LEMMA NodeEntryStands ==
    ASSUME NEW rank, NEW ids, NEW p, NEW primary, NEW affected, NEW group,
           GroupStands(rank, ids, group)
    PROVE  EntryStands(rank, ids, Entry(p, primary, affected, group, NoChanges))
BY DEF EntryStands, Entry, NoChanges

\* A whole project comes or goes.
ProjectChange(p, before, after) == [q \in {p} |-> Change(before, after)]

MayStand(rank, ids, project) == project = None \/ ProjectStands(rank, ids, project)

LEMMA ProjectEntryStands ==
    ASSUME NEW rank, NEW ids, NEW active, NEW primary, NEW affected, NEW p \in ProjectId,
           NEW before, MayStand(rank, ids, before), NEW after, MayStand(rank, ids, after)
    PROVE  EntryStands(rank, ids, Entry(active, primary, affected, NoChanges,
                                        ProjectChange(p, before, after)))
<1>1. NoChanges \in Group /\ DOMAIN NoChanges = {}
    <2>1. DOMAIN NoChanges = {} /\ NoChanges = [n \in {} |-> NoChanges[n]]
        BY DEF NoChanges
    <2>2. NoChanges \in [{} -> [before: Snapshot, after: Snapshot]]
        BY <2>1
    <2> QED BY <2>1, <2>2 DEF Group
<1>2. GroupStands(rank, ids, NoChanges)
    BY <1>1 DEF GroupStands
<1> QED BY <1>2 DEF EntryStands, Entry, Change, ProjectChange, MayStand

\* A node is drawn below parent, which changes from before to after.
DrawnBelow(n, parent, node, before, after) ==
    [x \in {parent, n} |-> IF x = n THEN Change(None, node) ELSE Change(before, after)]

LEMMA DrawnBelowStands ==
    ASSUME NEW rank, NEW ids \in SUBSET NodeId, NEW n \in ids, NEW parent \in ids \cup {Root},
           NEW node, Standing(rank, ids, n, node), NEW before,
           Standing(rank, ids, parent, before), NEW after, Standing(rank, ids, parent, after)
    PROVE  GroupStands(rank, ids, DrawnBelow(n, parent, node, before, after))
<1> DEFINE group == DrawnBelow(n, parent, node, before, after)
<1>1. /\ DOMAIN group = {parent, n} /\ group = [x \in DOMAIN group |-> group[x]]
      /\ \A x \in DOMAIN group :
            \/ x = n /\ group[x] = Change(None, node)
            \/ x = parent /\ group[x] = Change(before, after)
    BY DEF DrawnBelow
<1> HIDE DEF group
<1>2. n # Root /\ {parent, n} \subseteq AnyId
    BY EditsAssumption DEF AnyId
<1>3. ASSUME NEW x \in DOMAIN group
      PROVE  /\ group[x] \in [before: Snapshot, after: Snapshot]
             /\ SnapshotStands(rank, ids, x, group[x].before)
             /\ SnapshotStands(rank, ids, x, group[x].after)
    BY <1>1, <1>2 DEF Change, Snapshot, Standing, SnapshotStands
<1>4. group \in [DOMAIN group -> [before: Snapshot, after: Snapshot]]
    BY <1>1, <1>3
<1>5. group \in Group
    BY <1>1, <1>2, <1>4 DEF Group
<1> QED BY <1>3, <1>5 DEF GroupStands, group

\* The nodes with a node drawn below parent, or with one node replaced.
Grown(ns, n, parent, node, after) ==
    Override(ns, [x \in {parent, n} |-> IF x = n THEN node ELSE after])

LEMMA GrownStands ==
    ASSUME NEW rank, NEW ids, ids \subseteq NodeId, NEW ns, NodesStand(rank, ids, ns),
           NEW n \in ids, NEW parent \in DOMAIN ns, NEW node, Standing(rank, ids, n, node),
           NEW after, Standing(rank, ids, parent, after)
    PROVE  /\ NodesStand(rank, ids, Grown(ns, n, parent, node, after))
           /\ n \in DOMAIN Grown(ns, n, parent, node, after)
<1> DEFINE new  == Grown(ns, n, parent, node, after)
           both == [x \in {parent, n} |-> IF x = n THEN node ELSE after]
<1>1. /\ DOMAIN both = {parent, n}
      /\ \A x \in DOMAIN both : Standing(rank, ids, x, both[x])
    OBVIOUS
<1>2. new = Override(ns, both)
    BY DEF Grown
<1> HIDE DEF both, new
<1>3. /\ DOMAIN new = DOMAIN ns \cup {parent, n} /\ new = [x \in DOMAIN new |-> new[x]]
      /\ \A x \in DOMAIN new : new[x] = IF x \in DOMAIN both THEN both[x] ELSE ns[x]
    BY <1>1, <1>2 DEF Override
<1>4. \A x \in DOMAIN new : Standing(rank, ids, x, new[x])
    BY <1>1, <1>3 DEF NodesStand
<1>5. DOMAIN ns \subseteq AnyId /\ n \in AnyId /\ Root \in DOMAIN ns
    BY DEF NodesStand, NodeMap, AnyId
<1>6. new \in [DOMAIN new -> Node]
    BY <1>3, <1>4 DEF Standing
<1>7. new \in NodeMap
    BY <1>3, <1>5, <1>6 DEF NodeMap
<1> QED BY <1>1, <1>3, <1>4, <1>5, <1>7 DEF NodesStand, new

LEMMA ReplacedStands ==
    ASSUME NEW rank, NEW ids, NEW ns, NodesStand(rank, ids, ns), NEW n \in DOMAIN ns,
           NEW node, Standing(rank, ids, n, node)
    PROVE  NodesStand(rank, ids, [ns EXCEPT ![n] = node])
<1> DEFINE new == [ns EXCEPT ![n] = node]
<1>1. DOMAIN ns \in SUBSET AnyId /\ Root \in DOMAIN ns
    BY DEF NodesStand, NodeMap
<1>2. \A x \in DOMAIN new : Standing(rank, ids, x, new[x])
    BY DEF NodesStand
<1>3. new \in [DOMAIN ns -> Node]
    BY <1>2 DEF Standing
<1>4. new \in NodeMap /\ DOMAIN new = DOMAIN ns
    BY <1>1, <1>3 DEF NodeMap
<1> HIDE DEF new
<1>5. NodesStand(rank, ids, new)
    BY <1>1, <1>2, <1>4 DEF NodesStand
<1> QED BY <1>5 DEF new

\* A project is replaced.
LEMMA UpdateStands ==
    ASSUME NEW rank, NEW ids, NEW ps, ProjectsStand(rank, ids, ps), NEW p \in DOMAIN ps,
           NEW new, ProjectStands(rank, ids, new)
    PROVE  ProjectsStand(rank, ids, [ps EXCEPT ![p] = new])
BY DEF ProjectsStand

-----------------------------------------------------------------------------
(* Steps that save.                                                         *)

LEMMA SavedInView ==
    ASSUME ViewInv, NEW rank \in Rank, NEW ps, NEW a, NEW n, Persist(ps, a, n),
           InView(ps, a, n), PageTyped', ProjectsStand(rank, NodesDrawn', ps),
           ProjectsStand(rank, NodesDrawn', disk.projects),
           HistoryStands(rank, NodesDrawn', past'), HistoryStands(rank, NodesDrawn', future')
    PROVE  ViewInv'
<1>1. streamed' \subseteq Requests
    BY DEF Persist, Save, ViewInv
<1>2. ProjectsStand(rank, NodesDrawn', disk'.projects)
    BY StoredIs
<1>3. projects' = ps /\ activeProject' = a /\ selected' = n
    BY StoredIs
<1> QED BY <1>1, <1>2, <1>3 DEF ViewInv, AllStands

LEMMA SamePage ==
    ASSUME PageTyped, UNCHANGED pageVars
    PROVE  PageTyped'
BY DEF PageTyped, pageVars

LEMMA DrawnTyped == NodesDrawn \subseteq NodeId
BY DEF NodesDrawn

\* The project p, and p in view.
LEMMA ActiveStands ==
    ASSUME ViewInv, NEW p \in DOMAIN projects
    PROVE  /\ p \in ProjectId /\ DOMAIN projects # {}
           /\ activeProject \in DOMAIN projects /\ activeProject \in ProjectId
           /\ selected \in DOMAIN projects[activeProject].nodes
BY DEF ViewInv, InView, AllStands, ProjectsStand

\* One project changes, the view does not.
LEMMA ProjectInView ==
    ASSUME ViewInv, NEW rank \in Rank, ProjectsStand(rank, NodesDrawn', projects),
           ProjectsStand(rank, NodesDrawn', disk.projects),
           NEW p \in DOMAIN projects, NEW new, ProjectStands(rank, NodesDrawn', new),
           DOMAIN projects[p].nodes \subseteq DOMAIN new.nodes,
           Persist([projects EXCEPT ![p] = new], activeProject, selected), PageTyped',
           HistoryStands(rank, NodesDrawn', past'), HistoryStands(rank, NodesDrawn', future')
    PROVE  ViewInv'
<1> DEFINE ps == [projects EXCEPT ![p] = new]
<1>1. ProjectsStand(rank, NodesDrawn', ps)
    BY UpdateStands
<1>2. InView(ps, activeProject, selected)
    BY ActiveStands DEF InView
<1> HIDE DEF ps
<1>3. Persist(ps, activeProject, selected)
    BY DEF ps
<1> QED BY <1>1, <1>2, <1>3, SavedInView

\* The nodes of the active project change, with an entry or without.
LEMMA EditInView ==
    ASSUME ViewInv, activeProject \in DOMAIN projects, NEW rank \in Rank,
           AllStands(rank, NodesDrawn', projects, disk.projects, past, future),
           NEW ns, NodesStand(rank, NodesDrawn', ns), NEW n \in DOMAIN ns,
           Persist([projects EXCEPT ![activeProject].nodes = ns], activeProject, n),
           PageTyped',
           \/ UNCHANGED <<past, future>>
           \/ \E e : PushHistory(e) /\ EntryStands(rank, NodesDrawn', e)
    PROVE  ViewInv'
<1> DEFINE new == WithNodes(projects[activeProject], ns)
           ps == [projects EXCEPT ![activeProject] = new]
<1>1. ProjectStands(rank, NodesDrawn', projects[activeProject])
    BY DEF AllStands, ProjectsStand
<1>2. ProjectStands(rank, NodesDrawn', new) /\ new.nodes = ns
    BY <1>1, WithNodesStands DEF WithNodes, ProjectStands
<1>3. Persist(ps, activeProject, n)
    BY DEF WithNodes
<1> HIDE DEF new
<1>4. ProjectsStand(rank, NodesDrawn', ps)
    BY <1>2, UpdateStands DEF AllStands
<1>5. InView(ps, activeProject, n) /\ ProjectsStand(rank, NodesDrawn', disk.projects)
    BY <1>2 DEF InView, AllStands
<1>6. HistoryStands(rank, NodesDrawn', past') /\ HistoryStands(rank, NodesDrawn', future')
    BY PushedStands DEF AllStands
<1> HIDE DEF ps
<1> QED BY <1>3, <1>4, <1>5, <1>6, SavedInView

\* A node that is drawn gets a rank above its parent's.
LEMMA RankGrows ==
    ASSUME NEW rank \in Rank, NEW n \in NodeId \ DOMAIN home,
           NEW parent \in NodesDrawn \cup {Root}, NEW p,
           home' = Override(home, [x \in {n} |-> p])
    PROVE  /\ NodesDrawn' = NodesDrawn \cup {n}
           /\ \E rank2 \in Rank : /\ Outgrows(rank2, NodesDrawn', rank, NodesDrawn)
                                  /\ rank2[parent] < rank2[n]
<1> DEFINE rank2 == [rank EXCEPT ![n] = rank[parent] + 1]
<1>1. NodesDrawn' = NodesDrawn \cup {n}
    BY DEF NodesDrawn, Override
<1>2. n \notin NodesDrawn \cup {Root} /\ n \in AnyId /\ parent \in AnyId
    BY EditsAssumption DEF NodesDrawn, AnyId
<1>3. rank[parent] \in Nat
    BY <1>2 DEF Rank
<1>4. rank2 \in Rank
    BY <1>2, <1>3 DEF Rank
<1>5. rank2[n] = rank[parent] + 1 /\ \A m \in NodesDrawn \cup {Root} : rank2[m] = rank[m]
    <2>1. NodesDrawn \cup {Root} \subseteq AnyId
        BY DEF NodesDrawn, AnyId
    <2> QED BY <1>2, <2>1 DEF Rank
<1> HIDE DEF rank2
<1>6. Outgrows(rank2, NodesDrawn', rank, NodesDrawn)
    BY <1>1, <1>5 DEF Outgrows
<1>7. rank2[parent] < rank2[n]
    BY <1>3, <1>5
<1> QED BY <1>1, <1>4, <1>6, <1>7

-----------------------------------------------------------------------------
(* The steps and the view.                                                  *)

LEMMA NewProjectStands ==
    ASSUME NEW rank, NEW ids
    PROVE  ProjectStands(rank, ids, NewProject) /\ DOMAIN NewProject.nodes = {Root}
<1> DEFINE root == NewNode("root", None, "complete")
           ns == [n \in {Root} |-> root]
<1>1. <<>> \in Seq(AnyId) /\ ToSet(<<>>) = {}
    BY DEF ToSet
<1>2. root \in Node /\ root.children = <<>>
    BY <1>1 DEF NewNode, Node, Status
<1> HIDE DEF root
<1>3. Standing(rank, ids, Root, root)
    BY <1>1, <1>2 DEF Standing
<1>4. ns \in [{Root} -> Node] /\ {Root} \in SUBSET AnyId
    BY <1>2 DEF AnyId
<1>5. ns \in NodeMap
    BY <1>4 DEF NodeMap
<1>6. NodesStand(rank, ids, ns) /\ DOMAIN ns = {Root}
    BY <1>3, <1>5 DEF NodesStand
<1>7. /\ DOMAIN NewProject = {"nodes", "nutrients", "active", "transfers"}
      /\ NewProject.nodes = ns /\ NewProject.nutrients = {} /\ NewProject.active = {}
      /\ NewProject.transfers = {}
    BY DEF NewProject, root
<1> HIDE DEF ns
<1> QED BY <1>6, <1>7 DEF ProjectStands

\* SEED
LEMMA SeedInView == ASSUME ViewInv, NEW p \in ProjectId, Seed(p) PROVE ViewInv'
<1> DEFINE ps == Override(projects, [q \in {p} |-> NewProject])
           e  == Entry(activeProject, Root, {Root}, NoChanges,
                       ProjectChange(p, None, NewProject))
<1>1. PICK rank \in Rank :
         AllStands(rank, NodesDrawn, projects, disk.projects, past, future)
    BY DEF ViewInv
<1>2. /\ Persist(ps, p, Root) /\ PushHistory(e) /\ NodesDrawn' = NodesDrawn /\ PageTyped'
    BY SamePage DEF Seed, ViewInv, NodesDrawn, ProjectChange
<1>3. ProjectStands(rank, NodesDrawn, NewProject) /\ DOMAIN NewProject.nodes = {Root}
    BY NewProjectStands
<1>4. EntryStands(rank, NodesDrawn, e)
    <2>1. MayStand(rank, NodesDrawn, None) /\ MayStand(rank, NodesDrawn, NewProject)
        BY <1>3 DEF MayStand
    <2> QED BY <2>1, ProjectEntryStands
<1>5. ps[p] = NewProject /\ DOMAIN ps = DOMAIN projects \cup {p}
      /\ \A q \in DOMAIN projects \ {p} : ps[q] = projects[q]
    BY DEF Override
<1> HIDE DEF ps, e
<1>6. ProjectsStand(rank, NodesDrawn, ps) /\ InView(ps, p, Root)
    BY <1>1, <1>3, <1>5 DEF AllStands, ProjectsStand, InView
<1>7. /\ HistoryStands(rank, NodesDrawn, past') /\ HistoryStands(rank, NodesDrawn, future')
      /\ ProjectsStand(rank, NodesDrawn, disk.projects)
    BY <1>1, <1>2, <1>4, PushedStands DEF AllStands
<1> QED BY <1>2, <1>6, <1>7, SavedInView

\* SWITCH_PROJECT and SELECT_NODE
LEMMA ChosenInView ==
    ASSUME ViewInv, NEW p \in DOMAIN projects, NEW n \in DOMAIN projects[p].nodes,
           Persist(projects, p, n), UNCHANGED <<past, future, pageVars, ghostVars>>
    PROVE  ViewInv'
<1>1. PICK rank \in Rank :
         AllStands(rank, NodesDrawn, projects, disk.projects, past, future)
    BY DEF ViewInv
<1>2. NodesDrawn' = NodesDrawn /\ PageTyped'
    BY SamePage DEF NodesDrawn, ViewInv, ghostVars
<1>3. InView(projects, p, n)
    BY DEF InView
<1> QED BY <1>1, <1>2, <1>3, SavedInView DEF AllStands

LEMMA SwitchInView == ASSUME ViewInv, NEW p, SwitchProject(p) PROVE ViewInv'
<1>1. p \in DOMAIN projects /\ Persist(projects, p, Root)
      /\ UNCHANGED <<past, future, pageVars, ghostVars>>
    BY DEF SwitchProject
<1>2. Root \in DOMAIN projects[p].nodes
    BY <1>1 DEF ViewInv, AllStands, ProjectsStand, ProjectStands, NodesStand
<1> QED BY <1>1, <1>2, ChosenInView

LEMMA SelectInView == ASSUME ViewInv, NEW n, SelectNode(n) PROVE ViewInv'
BY ChosenInView DEF SelectNode, AtWork, Selectable, Nodes

\* DELETE_PROJECT
LEMMA DeleteInView == ASSUME ViewInv, NEW p \in ProjectId, DeleteProject(p) PROVE ViewInv'
<1> DEFINE ps == [q \in DOMAIN projects \ {p} |-> projects[q]]
           e  == Entry(activeProject, Root, DOMAIN projects[p].nodes, NoChanges,
                       ProjectChange(p, projects[p], None))
<1>1. PICK rank \in Rank :
         AllStands(rank, NodesDrawn, projects, disk.projects, past, future)
    BY DEF ViewInv
<1>2. /\ p \in DOMAIN projects /\ activeProject \in DOMAIN projects /\ DOMAIN ps # {}
      /\ PushHistory(e) /\ NodesDrawn' = NodesDrawn /\ PageTyped'
    BY SamePage DEF DeleteProject, ViewInv, NodesDrawn, ghostVars, AtWork, ProjectChange
<1>3. PICK next : next \in DOMAIN ps /\ Persist(ps, next, Root)
    BY <1>2 DEF DeleteProject
<1>4. ProjectStands(rank, NodesDrawn, projects[p])
    BY <1>1, <1>2 DEF AllStands, ProjectsStand
<1>5. EntryStands(rank, NodesDrawn, e)
    <2>1. MayStand(rank, NodesDrawn, projects[p]) /\ MayStand(rank, NodesDrawn, None)
        BY <1>4 DEF MayStand
    <2> QED BY <2>1, ProjectEntryStands
<1>6. ProjectsStand(rank, NodesDrawn, ps)
    BY <1>1 DEF AllStands, ProjectsStand
<1>7. InView(ps, next, Root)
    BY <1>3, <1>6 DEF InView, ProjectsStand, ProjectStands, NodesStand
<1> HIDE DEF ps, e
<1>8. /\ HistoryStands(rank, NodesDrawn, past') /\ HistoryStands(rank, NodesDrawn, future')
      /\ ProjectsStand(rank, NodesDrawn, disk.projects)
    BY <1>1, <1>2, <1>5, PushedStands DEF AllStands
<1> QED BY <1>2, <1>3, <1>6, <1>7, <1>8, SavedInView

\* LEAF
LEMMA LeafInView == ASSUME ViewInv, NEW n, Leaf(n) PROVE ViewInv'
<1> DEFINE parent == ResolveBranchParent(Nodes, selected)
           leaf   == NewNode("leaf", parent, "complete")
           after  == WithChild(Nodes[parent], n)
           ns == Grown(Nodes, n, parent, leaf, after)
           e == Entry(activeProject, n, {parent, n, selected},
                      DrawnBelow(n, parent, leaf, Nodes[parent], after), NoChanges)
<1>1. /\ activeProject \in DOMAIN projects /\ n \in NodeId \ DOMAIN home
      /\ parent \in DOMAIN Nodes
      /\ home' = Override(home, [x \in {n} |-> activeProject])
      /\ PushHistory(e) /\ PageTyped'
      /\ Persist([projects EXCEPT ![activeProject].nodes = ns], activeProject, n)
    BY SamePage, EditsAssumption DEF Leaf, AtWork, FreshNode, Nodes, DrawnBelow, Grown, ViewInv, AnyId
<1> HIDE DEF parent
<1>2. PICK rank \in Rank :
         AllStands(rank, NodesDrawn, projects, disk.projects, past, future)
    BY DEF ViewInv
<1>3. NodesStand(rank, NodesDrawn, Nodes)
    BY <1>1, <1>2 DEF AllStands, ProjectsStand, ProjectStands, Nodes
<1>4. parent \in NodesDrawn \cup {Root}
    BY <1>1, <1>3 DEF NodesStand, Standing
<1>5. PICK rank2 \in Rank : /\ NodesDrawn' = NodesDrawn \cup {n}
                            /\ Outgrows(rank2, NodesDrawn', rank, NodesDrawn)
                            /\ rank2[parent] < rank2[n]
    BY <1>1, <1>4, RankGrows
<1>6. /\ AllStands(rank2, NodesDrawn', projects, disk.projects, past, future)
      /\ NodesDrawn' \in SUBSET NodeId /\ n \in AnyId /\ n \in NodesDrawn'
      /\ parent \in NodesDrawn' \cup {Root}
    BY <1>1, <1>2, <1>4, <1>5, AllGrow, DrawnTyped DEF AnyId
<1>7. NodesStand(rank2, NodesDrawn', Nodes)
    BY <1>1, <1>6 DEF AllStands, ProjectsStand, ProjectStands, Nodes
<1>8. Standing(rank2, NodesDrawn', parent, Nodes[parent])
    BY <1>1, <1>7 DEF NodesStand
<1>9. Standing(rank2, NodesDrawn', parent, after)
    BY <1>5, <1>6, <1>8, StandingWith
<1>10. Standing(rank2, NodesDrawn', n, leaf)
    BY <1>5, <1>6, StandingNew DEF Status
<1>11. NodesStand(rank2, NodesDrawn', ns) /\ n \in DOMAIN ns
    <2> HIDE DEF leaf, after
    <2> QED BY <1>1, <1>6, <1>7, <1>9, <1>10, GrownStands
<1> HIDE DEF leaf, after, ns
<1>12. EntryStands(rank2, NodesDrawn', e)
    BY <1>6, <1>8, <1>9, <1>10, DrawnBelowStands, NodeEntryStands
<1> HIDE DEF e
<1> QED BY <1>1, <1>6, <1>11, <1>12, EditInView

\* STREAM_BRANCH_START
LEMMA AskInView == ASSUME ViewInv, NEW n, Ask(n) PROVE ViewInv'
<1> DEFINE parent == Anchor(Nodes, selected)
           branch == NewNode("branch", parent, "streaming")
           after  == WithChild(Nodes[parent], n)
           ns == Grown(Nodes, n, parent, branch, after)
           r == [project |-> activeProject, node |-> n]
<1>1. /\ activeProject \in DOMAIN projects /\ n \in NodeId \ DOMAIN home
      /\ parent \in DOMAIN Nodes
      /\ home' = Override(home, [x \in {n} |-> activeProject])
      /\ UNCHANGED <<past, future, retryable, upload, removals>> /\ open' = open \cup {r}
      /\ Persist([projects EXCEPT ![activeProject].nodes = ns], activeProject, n)
    BY EditsAssumption DEF Ask, AtWork, FreshNode, Nodes, Grown, AnyId
<1> HIDE DEF parent
<1>2. PICK rank \in Rank :
         AllStands(rank, NodesDrawn, projects, disk.projects, past, future)
    BY DEF ViewInv
<1>3. NodesStand(rank, NodesDrawn, Nodes)
    BY <1>1, <1>2 DEF AllStands, ProjectsStand, ProjectStands, Nodes
<1>4. parent \in NodesDrawn \cup {Root}
    BY <1>1, <1>3 DEF NodesStand, Standing
<1>5. PICK rank2 \in Rank : /\ NodesDrawn' = NodesDrawn \cup {n}
                            /\ Outgrows(rank2, NodesDrawn', rank, NodesDrawn)
                            /\ rank2[parent] < rank2[n]
    BY <1>1, <1>4, RankGrows
<1>6. /\ AllStands(rank2, NodesDrawn', projects, disk.projects, past, future)
      /\ NodesDrawn' \in SUBSET NodeId /\ n \in AnyId /\ n \in NodesDrawn'
      /\ parent \in NodesDrawn' \cup {Root}
    BY <1>1, <1>2, <1>4, <1>5, AllGrow, DrawnTyped DEF AnyId
<1>7. NodesStand(rank2, NodesDrawn', Nodes)
    BY <1>1, <1>6 DEF AllStands, ProjectsStand, ProjectStands, Nodes
<1>8. Standing(rank2, NodesDrawn', parent, Nodes[parent])
    BY <1>1, <1>7 DEF NodesStand
<1>9. Standing(rank2, NodesDrawn', parent, after)
    BY <1>5, <1>6, <1>8, StandingWith
<1>10. Standing(rank2, NodesDrawn', n, branch)
    BY <1>5, <1>6, StandingNew DEF Status
<1>11. NodesStand(rank2, NodesDrawn', ns) /\ n \in DOMAIN ns
    <2> HIDE DEF branch, after
    <2> QED BY <1>1, <1>6, <1>7, <1>9, <1>10, GrownStands
<1>12. PageTyped'
    <2>1. r \in Requests
        BY <1>1, ActiveStands DEF Requests
    <2> HIDE DEF r
    <2> QED BY <1>1, <2>1 DEF ViewInv, PageTyped
<1> HIDE DEF branch, after, ns
<1> QED BY <1>1, <1>6, <1>11, <1>12, EditInView

\* What is pruned below the node n: neither the root nor what n hangs from.
LEMMA PrunedBelow ==
    ASSUME NEW rank \in Rank, NEW ids \in SUBSET NodeId, NEW ns, NodesStand(rank, ids, ns),
           NEW n \in DOMAIN ns, n # Root
    PROVE  /\ Root \notin Subtree(ns, n)
           /\ ns[n].parent \notin Subtree(ns, n)
           /\ ns[n].parent \in Ancestors(ns, n)
<1>1. /\ n \in ids /\ ns[n].parent \in ids \cup {Root} /\ rank[ns[n].parent] < rank[n]
    BY DEF NodesStand, Standing
<1>2. /\ NodeId \subseteq AnyId /\ Root \notin NodeId /\ None \notin AnyId
      /\ ids \cup {Root} \subseteq AnyId
    BY EditsAssumption DEF AnyId
<1>3. Root \notin Subtree(ns, n)
    <2>1. \A x \in NodeId : ChildrenOf(ns, x) \subseteq NodeId
        BY DEF ChildrenOf, NodesStand, Standing
    <2>2. NodeId \in SUBSET AnyId /\ n \in NodeId
        BY <1>1, <1>2
    <2> QED BY <1>2, <2>1, <2>2 DEF Subtree
<1>4. ns[n].parent \notin Subtree(ns, n)
    <2> DEFINE above == {x \in AnyId : rank[n] < rank[x] \/ x = n}
    <2>1. ASSUME NEW x \in above, NEW c \in ChildrenOf(ns, x)
          PROVE  c \in above
        <3>1. c \in AnyId /\ rank[x] < rank[c]
            BY <1>2 DEF ChildrenOf, NodesStand, Standing
        <3>2. rank[n] \in Nat /\ rank[x] \in Nat /\ rank[c] \in Nat
            BY <1>1, <1>2, <3>1 DEF Rank
        <3> QED BY <3>1, <3>2
    <2>2. ns[n].parent \notin above
        <3>1. rank[n] \in Nat /\ rank[ns[n].parent] \in Nat
            BY <1>1, <1>2 DEF Rank
        <3> QED BY <1>1, <3>1
    <2>3. above \in SUBSET AnyId /\ n \in above
        BY <1>1, <1>2
    <2> HIDE DEF above
    <2> QED BY <2>1, <2>2, <2>3 DEF Subtree
<1>5. ns[n].parent \in Ancestors(ns, n)
    <2>1. ns[n].parent \in AnyId /\ ns[n].parent # None
        BY <1>1, <1>2
    <2> QED BY <2>1 DEF Ancestors
<1> QED BY <1>3, <1>4, <1>5

\* PRUNE
LEMMA PruneInView == ASSUME ViewInv, Prune PROVE ViewInv'
<1> DEFINE n        == selected
           deleted  == Subtree(Nodes, n) \cap DOMAIN Nodes
           parent   == {Nodes[n].parent} \cap DOMAIN Nodes
           after(m) == WithoutChild(Nodes[m], n)
           ns == [m \in DOMAIN Nodes \ deleted |-> IF m \in parent THEN after(m)
                                                   ELSE Nodes[m]]
           changes == [m \in parent \cup deleted |->
                          IF m \in deleted THEN Change(Nodes[m], None)
                          ELSE Change(Nodes[m], after(m))]
           e == Entry(activeProject, Nodes[n].parent, parent \cup deleted, changes,
                      NoChanges)
<1>1. /\ activeProject \in DOMAIN projects /\ PageIsUp /\ n # Root /\ PushHistory(e)
      /\ NodesDrawn' = NodesDrawn /\ PageTyped'
      /\ Persist([projects EXCEPT ![activeProject].nodes = ns], activeProject,
                 Nodes[n].parent)
    BY SamePage DEF Prune, AtWork, PruneOffered, ghostVars, Nodes, NodesDrawn, ViewInv
<1>2. PICK rank \in Rank :
         AllStands(rank, NodesDrawn, projects, disk.projects, past, future)
    BY DEF ViewInv
<1>3. NodesStand(rank, NodesDrawn, Nodes) /\ n \in DOMAIN Nodes /\ activeProject # None
    BY <1>1, <1>2, ActiveStands, ForestAssumption
       DEF AllStands, ProjectsStand, ProjectStands, Nodes
<1>4. /\ Root \notin Subtree(Nodes, n) /\ Nodes[n].parent \notin Subtree(Nodes, n)
      /\ Nodes[n].parent \in Ancestors(Nodes, n)
    BY <1>1, <1>3, PrunedBelow, DrawnTyped
<1>5. Nodes[n].parent \in DOMAIN Nodes
    BY <1>1, <1>3, <1>4 DEF PageIsUp, Drawable, Nodes
<1>6. \A m \in DOMAIN Nodes : /\ Standing(rank, NodesDrawn, m, Nodes[m])
                              /\ Standing(rank, NodesDrawn, m, after(m))
    BY <1>3, StandingWithout DEF NodesStand
<1>7. /\ DOMAIN ns \subseteq DOMAIN Nodes /\ ns = [m \in DOMAIN ns |-> ns[m]]
      /\ Root \in DOMAIN ns /\ Nodes[n].parent \in DOMAIN ns
      /\ \A m \in DOMAIN ns : ns[m] \in {Nodes[m], after(m)}
    BY <1>3, <1>4, <1>5 DEF NodesStand
<1>8. /\ DOMAIN changes \subseteq DOMAIN Nodes /\ changes = [m \in DOMAIN changes |-> changes[m]]
      /\ \A m \in DOMAIN changes :
            /\ changes[m] = Change(changes[m].before, changes[m].after)
            /\ changes[m].before = Nodes[m]
            /\ changes[m].after = after(m) \/ (changes[m].after = None /\ m # Root)
    BY <1>4 DEF Change
<1>9. DOMAIN Nodes \subseteq AnyId
    BY <1>3 DEF NodesStand, NodeMap
<1> HIDE DEF ns, changes, after, parent, deleted
<1>10. NodesStand(rank, NodesDrawn, ns)
    <2>1. \A m \in DOMAIN ns : Standing(rank, NodesDrawn, m, ns[m])
        BY <1>6, <1>7
    <2>2. ns \in [DOMAIN ns -> Node]
        BY <1>7, <2>1 DEF Standing
    <2>3. ns \in NodeMap
        BY <1>7, <1>9, <2>2 DEF NodeMap
    <2> QED BY <1>7, <2>1, <2>3 DEF NodesStand
<1>11. EntryStands(rank, NodesDrawn, e)
    <2>1. ASSUME NEW m \in DOMAIN changes
          PROVE  /\ changes[m] \in [before: Snapshot, after: Snapshot]
                 /\ SnapshotStands(rank, NodesDrawn, m, changes[m].before)
                 /\ SnapshotStands(rank, NodesDrawn, m, changes[m].after)
        <3>1. /\ Standing(rank, NodesDrawn, m, Nodes[m])
              /\ Standing(rank, NodesDrawn, m, after(m))
            BY <1>6, <1>8
        <3>2. changes[m].before \in Snapshot /\ changes[m].after \in Snapshot
            BY <1>8, <3>1 DEF Snapshot, Standing
        <3>3. changes[m] \in [before: Snapshot, after: Snapshot]
            BY <1>8, <3>2 DEF Change
        <3> QED BY <1>8, <3>1, <3>3 DEF SnapshotStands
    <2>2. changes \in [DOMAIN changes -> [before: Snapshot, after: Snapshot]]
        BY <1>8, <2>1
    <2>3. changes \in Group
        BY <1>8, <1>9, <2>2 DEF Group
    <2>4. GroupStands(rank, NodesDrawn, changes)
        BY <2>1, <2>3 DEF GroupStands
    <2> QED BY <2>4, NodeEntryStands
<1> HIDE DEF e
<1> QED BY <1>1, <1>2, <1>7, <1>10, <1>11, EditInView

\* An answer arrives at a node of the project p.
LEMMA AnsweredStands ==
    ASSUME NEW rank, NEW ids, NEW p, ProjectStands(rank, ids, p), NEW n \in DOMAIN p.nodes,
           NEW status \in Status
    PROVE  /\ Standing(rank, ids, n, p.nodes[n])
           /\ Standing(rank, ids, n, [p.nodes[n] EXCEPT !.status = status])
           /\ ProjectStands(rank, ids, [p EXCEPT !.nodes[n].status = status])
           /\ DOMAIN [p EXCEPT !.nodes[n].status = status].nodes = DOMAIN p.nodes
<1> DEFINE node == [p.nodes[n] EXCEPT !.status = status]
           ns   == [p.nodes EXCEPT ![n] = node]
<1>1. NodesStand(rank, ids, p.nodes) /\ Standing(rank, ids, n, p.nodes[n])
    BY DEF ProjectStands, NodesStand
<1>2. Standing(rank, ids, n, node)
    BY <1>1, StandingStatus
<1>3. [p EXCEPT !.nodes[n].status = status] = WithNodes(p, ns)
    BY DEF WithNodes
<1>4. DOMAIN ns = DOMAIN p.nodes
    OBVIOUS
<1>5. NodesStand(rank, ids, ns)
    <2> HIDE DEF node
    <2> QED BY <1>1, <1>2, ReplacedStands
<1> HIDE DEF ns
<1>6. ProjectStands(rank, ids, WithNodes(p, ns)) /\ WithNodes(p, ns).nodes = ns
    BY <1>5, WithNodesStands DEF WithNodes, ProjectStands
<1> QED BY <1>1, <1>2, <1>3, <1>4, <1>6

\* The projects are as they were.
LEMMA IdleInView ==
    ASSUME ViewInv, UNCHANGED <<projects, activeProject, selected, past, future, disk,
                                streamed, home>>, PageTyped'
    PROVE  ViewInv'
<1>1. NodesDrawn' = NodesDrawn
    BY DEF NodesDrawn
<1> QED BY <1>1 DEF ViewInv

\* STREAM_BRANCH_UPDATE
LEMMA UpdateInView ==
    ASSUME ViewInv, NEW r \in Requests, Known(r), Update(r), UNCHANGED home, PageTyped'
    PROVE  ViewInv'
<1> DEFINE p == r.project  n == r.node
           new == [projects[p] EXCEPT !.nodes[n].status = "streaming"]
           ps  == [projects EXCEPT ![p] = new]
<1>1. PICK rank \in Rank :
         AllStands(rank, NodesDrawn, projects, disk.projects, past, future)
    BY DEF ViewInv
<1>2. /\ p \in DOMAIN projects /\ n \in DOMAIN projects[p].nodes
      /\ projects' = ps /\ NodesDrawn' = NodesDrawn
      /\ UNCHANGED <<activeProject, selected, past, future, disk>>
    BY DEF Update, Known, NodesDrawn
<1>3. ProjectStands(rank, NodesDrawn, projects[p]) /\ "streaming" \in Status
    BY <1>1, <1>2 DEF AllStands, ProjectsStand, Status
<1>4. ProjectStands(rank, NodesDrawn, new) /\ DOMAIN new.nodes = DOMAIN projects[p].nodes
    BY <1>2, <1>3, AnsweredStands
<1> HIDE DEF new
<1>5. ProjectsStand(rank, NodesDrawn, ps)
    BY <1>1, <1>2, <1>4, UpdateStands DEF AllStands
<1>6. InView(ps, activeProject, selected)
    BY <1>2, <1>4, ActiveStands DEF InView
<1> HIDE DEF ps
<1>7. AllStands(rank, NodesDrawn, ps, disk.projects, past, future)
    BY <1>1, <1>5 DEF AllStands
<1>8. streamed' \subseteq Requests
    BY DEF Update, ViewInv
<1> QED BY <1>2, <1>6, <1>7, <1>8 DEF ViewInv

LEMMA TokenInView == ASSUME ViewInv, NEW r \in open, Token(r) PROVE ViewInv'
<1>1. r \in Requests /\ PageTyped'
    BY SamePage DEF ViewInv, PageTyped, Token
<1> QED BY <1>1, UpdateInView DEF Token, ghostVars

\* STREAM_BRANCH_FINISH and STREAM_BRANCH_FAIL of an answer that is there
LEMMA SettledInView ==
    ASSUME ViewInv, NEW r \in Requests, NEW status \in Status, Known(r),
           projects[r.project].nodes[r.node].parent \in DOMAIN projects[r.project].nodes,
           Settled(r.project, r.node, status), UNCHANGED home, PageTyped'
    PROVE  ViewInv'
<1> DEFINE p == r.project  n == r.node  ns == projects[p].nodes
           parent == ns[n].parent
           node   == [ns[n] EXCEPT !.status = status]
           before == WithoutChild(ns[parent], n)
           new    == [projects[p] EXCEPT !.nodes[n].status = status]
           e == Entry(p, n, {parent, n}, DrawnBelow(n, parent, node, before, ns[parent]),
                      NoChanges)
<1>1. PICK rank \in Rank :
         AllStands(rank, NodesDrawn, projects, disk.projects, past, future)
    BY DEF ViewInv
<1>2. NodesDrawn' = NodesDrawn
    BY DEF NodesDrawn
<1>3. /\ Persist([projects EXCEPT ![p] = new], activeProject, selected)
      /\ UNCHANGED <<past, future>> \/ PushHistory(e)
    BY DEF Settled, Answered, CreationEntry, DrawnBelow
<1>4. p \in DOMAIN projects /\ n \in DOMAIN ns /\ n \in NodeId
    BY DEF Known, Requests
<1>5. ProjectStands(rank, NodesDrawn, projects[p])
    BY <1>1, <1>4 DEF AllStands, ProjectsStand
<1>6. /\ Standing(rank, NodesDrawn, n, ns[n]) /\ Standing(rank, NodesDrawn, n, node)
      /\ ProjectStands(rank, NodesDrawn, new)
      /\ DOMAIN new.nodes = DOMAIN ns
    BY <1>4, <1>5, AnsweredStands
<1>7. Standing(rank, NodesDrawn, parent, ns[parent])
    BY <1>5 DEF ProjectStands, NodesStand
<1>8. Standing(rank, NodesDrawn, parent, before)
    BY <1>7, StandingWithout
<1>9. n \in NodesDrawn /\ parent \in NodesDrawn \cup {Root}
    BY <1>4, <1>6, EditsAssumption DEF Standing
<1> HIDE DEF node, before, new, parent
<1>10. EntryStands(rank, NodesDrawn, e)
    BY <1>6, <1>7, <1>8, <1>9, DrawnTyped, DrawnBelowStands, NodeEntryStands
<1> HIDE DEF e
<1>11. HistoryStands(rank, NodesDrawn, past') /\ HistoryStands(rank, NodesDrawn, future')
    BY <1>1, <1>3, <1>10, PushedStands DEF AllStands
<1>12. /\ ProjectsStand(rank, NodesDrawn, projects)
       /\ ProjectsStand(rank, NodesDrawn, disk.projects)
    BY <1>1 DEF AllStands
<1> QED BY <1>2, <1>3, <1>4, <1>6, <1>11, <1>12, ProjectInView

LEMMA SettleInView ==
    ASSUME ViewInv, NEW r \in open, NEW status \in Status, Settle(r, status) PROVE ViewInv'
<1> DEFINE kept == /\ Known(r)
                   /\ projects[r.project].nodes[r.node].parent
                        \in DOMAIN projects[r.project].nodes
<1>1. r \in Requests /\ PageTyped' /\ UNCHANGED home
    BY DEF ViewInv, PageTyped, Settle, ghostVars
<1>2. CASE kept
    BY <1>1, <1>2, SettledInView DEF Settle
<1>3. CASE ~kept
    <2>1. UNCHANGED <<projects, activeProject, selected, past, future, disk, streamed>>
        BY <1>3 DEF Settle, storeVars
    <2> QED BY <1>1, <2>1, IdleInView
<1> QED BY <1>2, <1>3

\* handleRetryAnswer
LEMMA RetryInView == ASSUME ViewInv, RetryAnswer PROVE ViewInv'
<1> DEFINE r == [project |-> activeProject, node |-> selected]
<1>1. r \in Requests /\ PageTyped' /\ UNCHANGED home /\ Known(r) /\ "failed" \in Status
    BY DEF RetryAnswer, ViewInv, PageTyped, ghostVars, Status
<1>2. r.project = activeProject /\ r.node = selected
    OBVIOUS
<1>3. \/ Update(r)
      \/ /\ Settled(r.project, r.node, "failed")
         /\ projects[r.project].nodes[r.node].parent \in DOMAIN projects[r.project].nodes
    BY DEF RetryAnswer, Nodes
<1> HIDE DEF r
<1> QED BY <1>1, <1>3, UpdateInView, SettledInView

\* The Nutrients and the transfers of a project change.
LEMMA NutrientsStand ==
    ASSUME NEW rank, NEW ids, NEW p, ProjectStands(rank, ids, p), NEW new,
           DOMAIN new = DOMAIN p, new.nodes = p.nodes,
           new.nutrients \subseteq NutrientId, new.active \subseteq new.nutrients,
           new.transfers \subseteq Transfer
    PROVE  ProjectStands(rank, ids, new)
BY DEF ProjectStands

\* A change of the active project besides its nodes.
LEMMA ActiveInView ==
    ASSUME ViewInv, NEW p \in DOMAIN projects, NEW new,
           Persist([projects EXCEPT ![p] = new], activeProject, selected),
           DOMAIN new = DOMAIN projects[p], new.nodes = projects[p].nodes,
           projects[p].active \subseteq projects[p].nutrients =>
               new.active \subseteq new.nutrients,
           projects[p].nutrients \subseteq NutrientId => new.nutrients \subseteq NutrientId,
           projects[p].transfers \subseteq Transfer => new.transfers \subseteq Transfer,
           PageTyped', UNCHANGED <<past, future>>, DOMAIN home \subseteq DOMAIN home'
    PROVE  ViewInv'
<1>1. PICK rank \in Rank :
         AllStands(rank, NodesDrawn, projects, disk.projects, past, future)
    BY DEF ViewInv
<1>2. Outgrows(rank, NodesDrawn', rank, NodesDrawn)
    BY DEF Outgrows, NodesDrawn
<1>3. AllStands(rank, NodesDrawn', projects, disk.projects, past, future)
    BY <1>1, <1>2, AllGrow
<1>4. ProjectStands(rank, NodesDrawn', projects[p])
    BY <1>3 DEF AllStands, ProjectsStand
<1>5. ProjectStands(rank, NodesDrawn', new)
    BY <1>4, NutrientsStand DEF ProjectStands
<1>6. HistoryStands(rank, NodesDrawn', past') /\ HistoryStands(rank, NodesDrawn', future')
    BY <1>3 DEF AllStands
<1> QED BY <1>3, <1>5, <1>6, ProjectInView DEF AllStands

LEMMA UploadBeginsInView == ASSUME ViewInv, UploadBegins PROVE ViewInv'
<1>1. PageTyped'
    BY ActiveStands DEF UploadBegins, AtWork, ViewInv, PageTyped
<1> QED BY <1>1, IdleInView DEF UploadBegins, storeVars, ghostVars

\* ADD_NUTRIENTS
LEMMA UploadEndsInView ==
    ASSUME ViewInv, NEW X \in SUBSET FreshNutrient, UploadEnds(X) PROVE ViewInv'
<1>1. PageTyped'
    BY DEF UploadEnds, ViewInv, PageTyped
<1>2. UNCHANGED <<past, future>>
    BY DEF UploadEnds
<1>3. CASE X # {} /\ upload \in DOMAIN projects
    <2> DEFINE p   == projects[upload]
               new == [p EXCEPT !.nutrients = @ \cup X, !.active = @ \cup (X \ Unreadable)]
    <2>1. Persist([projects EXCEPT ![upload] = new], activeProject, selected)
        BY <1>3 DEF UploadEnds, Added
    <2>2. DOMAIN home \subseteq DOMAIN home'
        BY <1>3 DEF UploadEnds, Override
    <2>3. DOMAIN p = {"nodes", "nutrients", "active", "transfers"}
        BY <1>3 DEF ViewInv, AllStands, ProjectsStand, ProjectStands
    <2>4. /\ DOMAIN new = DOMAIN p /\ new.nodes = p.nodes /\ new.transfers = p.transfers
          /\ p.active \subseteq p.nutrients => new.active \subseteq new.nutrients
          /\ p.nutrients \subseteq NutrientId => new.nutrients \subseteq NutrientId
        BY <2>3 DEF FreshNutrient
    <2> HIDE DEF new
    <2> QED BY <1>1, <1>2, <1>3, <2>1, <2>2, <2>4, ActiveInView
<1>4. CASE ~(X # {} /\ upload \in DOMAIN projects)
    BY <1>1, <1>2, <1>4, IdleInView DEF UploadEnds, storeVars
<1> QED BY <1>3, <1>4

LEMMA RemoveBeginsInView ==
    ASSUME ViewInv, NEW x \in NutrientId, RemoveBegins(x) PROVE ViewInv'
<1>1. PageTyped'
    BY DEF RemoveBegins, ViewInv, PageTyped
<1> QED BY <1>1, IdleInView DEF RemoveBegins, storeVars, ghostVars

\* REMOVE_NUTRIENT
LEMMA RemoveEndsInView ==
    ASSUME ViewInv, NEW x \in NutrientId, RemoveEnds(x) PROVE ViewInv'
<1>1. PageTyped' /\ UNCHANGED <<past, future, home>>
    BY DEF RemoveEnds, ViewInv, PageTyped, ghostVars
<1>2. CASE activeProject \in DOMAIN projects
    <2> DEFINE p   == projects[activeProject]
               new == [p EXCEPT !.nutrients = @ \ {x}, !.active = @ \ {x}]
    <2>1. Persist([projects EXCEPT ![activeProject] = new], activeProject, selected)
        BY <1>2 DEF RemoveEnds, PersistActive
    <2>2. DOMAIN p = {"nodes", "nutrients", "active", "transfers"}
        BY <1>2 DEF ViewInv, AllStands, ProjectsStand, ProjectStands
    <2>3. /\ DOMAIN new = DOMAIN p /\ new.nodes = p.nodes /\ new.transfers = p.transfers
          /\ p.active \subseteq p.nutrients => new.active \subseteq new.nutrients
          /\ p.nutrients \subseteq NutrientId => new.nutrients \subseteq NutrientId
        BY <2>2
    <2> HIDE DEF new
    <2> QED BY <1>1, <1>2, <2>1, <2>3, ActiveInView
<1>3. CASE activeProject \notin DOMAIN projects
    <2>1. Persist(projects, activeProject, selected)
        BY <1>3 DEF RemoveEnds
    <2>2. PICK rank \in Rank :
             AllStands(rank, NodesDrawn, projects, disk.projects, past, future)
        BY DEF ViewInv
    <2>3. NodesDrawn' = NodesDrawn /\ InView(projects, activeProject, selected)
        BY <1>1 DEF NodesDrawn, ViewInv
    <2> QED BY <1>1, <2>1, <2>2, <2>3, SavedInView DEF AllStands
<1> QED BY <1>2, <1>3

\* TOGGLE_NUTRIENT_ACTIVE
LEMMA ToggleInView ==
    ASSUME ViewInv, NEW x \in NutrientId, ToggleNutrient(x) PROVE ViewInv'
<1> DEFINE p   == projects[activeProject]
           new == [p EXCEPT !.active = SymDiff(@, {x})]
<1>1. /\ PageTyped' /\ UNCHANGED <<past, future, home>> /\ activeProject \in DOMAIN projects
      /\ x \in p.nutrients
      /\ Persist([projects EXCEPT ![activeProject] = new], activeProject, selected)
    BY SamePage DEF ToggleNutrient, PersistActive, ViewInv, ghostVars, AtWork
<1>2. DOMAIN p = {"nodes", "nutrients", "active", "transfers"}
    BY <1>1 DEF ViewInv, AllStands, ProjectsStand, ProjectStands
<1>3. /\ DOMAIN new = DOMAIN p /\ new.nodes = p.nodes /\ new.transfers = p.transfers
      /\ new.nutrients = p.nutrients
      /\ p.active \subseteq p.nutrients => new.active \subseteq new.nutrients
    BY <1>1, <1>2 DEF SymDiff
<1> HIDE DEF new
<1> QED BY <1>1, <1>3, ActiveInView

\* ADD_CONTEXT_TRANSFER
LEMMA AddTransferInView ==
    ASSUME ViewInv, NEW source \in AnyId, NEW type \in {"pin", "quote"},
           AddTransfer(source, type)
    PROVE  ViewInv'
<1> DEFINE p      == projects[activeProject]
           target == IF type = "pin" THEN Root ELSE ResolveBranchParent(Nodes, selected)
           t      == [source |-> source, target |-> target, type |-> type]
           new    == [p EXCEPT !.transfers = @ \cup {t}]
<1>1. /\ PageTyped' /\ UNCHANGED <<past, future, home>> /\ activeProject \in DOMAIN projects
      /\ target \in DOMAIN Nodes
      /\ Persist([projects EXCEPT ![activeProject] = new], activeProject, selected)
    BY SamePage DEF AddTransfer, PersistActive, ViewInv, ghostVars, AtWork
<1> HIDE DEF target
<1>2. /\ DOMAIN p = {"nodes", "nutrients", "active", "transfers"}
      /\ DOMAIN Nodes \subseteq AnyId
    BY <1>1 DEF ViewInv, AllStands, ProjectsStand, ProjectStands, NodesStand, NodeMap, Nodes
<1>3. t \in Transfer
    BY <1>1, <1>2 DEF Transfer
<1> HIDE DEF t
<1>4. /\ DOMAIN new = DOMAIN p /\ new.nodes = p.nodes /\ new.nutrients = p.nutrients
      /\ new.active = p.active
      /\ p.transfers \subseteq Transfer => new.transfers \subseteq Transfer
    BY <1>2, <1>3
<1> HIDE DEF new
<1> QED BY <1>1, <1>4, ActiveInView

\* REMOVE_CONTEXT_TRANSFER
LEMMA RemoveTransferInView ==
    ASSUME ViewInv, NEW t \in Transfer, RemoveTransfer(t) PROVE ViewInv'
<1> DEFINE p   == projects[activeProject]
           new == [p EXCEPT !.transfers = @ \ {t}]
<1>1. /\ PageTyped' /\ UNCHANGED <<past, future, home>> /\ activeProject \in DOMAIN projects
      /\ Persist([projects EXCEPT ![activeProject] = new], activeProject, selected)
    BY SamePage DEF RemoveTransfer, PersistActive, ViewInv, ghostVars, AtWork
<1>2. DOMAIN p = {"nodes", "nutrients", "active", "transfers"}
    BY <1>1 DEF ViewInv, AllStands, ProjectsStand, ProjectStands
<1>3. /\ DOMAIN new = DOMAIN p /\ new.nodes = p.nodes /\ new.nutrients = p.nutrients
      /\ new.active = p.active
      /\ p.transfers \subseteq Transfer => new.transfers \subseteq Transfer
    BY <1>2
<1> HIDE DEF new
<1> QED BY <1>1, <1>3, ActiveInView

-----------------------------------------------------------------------------
(* Rings, coming back, and the theorem.                                     *)

\* An undo or a redo.
LEMMA PatchedInView ==
    ASSUME ViewInv, NEW rank \in Rank, NEW ps, ProjectsStand(rank, NodesDrawn, ps), NEW e,
           PersistPatched(ps, e), UNCHANGED <<open, retryable, removals, home>>, Forgotten,
           ProjectsStand(rank, NodesDrawn, disk.projects),
           HistoryStands(rank, NodesDrawn, past'), HistoryStands(rank, NodesDrawn, future')
    PROVE  ViewInv'
<1>1. NodesDrawn' = NodesDrawn
    BY DEF NodesDrawn
<1>2. PageTyped'
    BY DEF ViewInv, PageTyped, Forgotten
<1>3. \A p \in DOMAIN ps : Root \in DOMAIN ps[p].nodes
    BY DEF ProjectsStand, ProjectStands, NodesStand
<1>4. ASSUME NEW a, NEW n, Persist(ps, a, n), InView(ps, a, n) PROVE ViewInv'
    BY <1>1, <1>2, <1>4, SavedInView
<1>5. CASE activeProject \in DOMAIN ps
    <2> DEFINE n == IF selected \in DOMAIN ps[activeProject].nodes THEN selected
                    ELSE IF e.primary \in DOMAIN ps[activeProject].nodes THEN e.primary
                    ELSE Root
    <2>1. Persist(ps, activeProject, n)
        BY <1>5 DEF PersistPatched
    <2>2. InView(ps, activeProject, n)
        BY <1>3, <1>5 DEF InView
    <2> HIDE DEF n
    <2> QED BY <1>4, <2>1, <2>2
<1>6. CASE DOMAIN ps = {}
    <2>1. Persist(ps, None, None) /\ InView(ps, None, None)
        BY <1>6 DEF PersistPatched, InView
    <2> QED BY <1>4, <2>1
<1>7. CASE activeProject \notin DOMAIN ps /\ DOMAIN ps # {}
    <2>1. PICK p : p \in DOMAIN ps /\ Persist(ps, p, Root)
        BY <1>7 DEF PersistPatched
    <2>2. InView(ps, p, Root)
        BY <1>3, <2>1 DEF InView
    <2> QED BY <1>4, <2>1, <2>2
<1> QED BY <1>5, <1>6, <1>7

LEMMA UndoInView == ASSUME ViewInv, NEW i \in DOMAIN past, UndoAt(i) PROVE ViewInv'
<1> DEFINE e  == past[i]
           ps == ApplyPatch(projects, e, "undo")
<1>1. PICK rank \in Rank :
         AllStands(rank, NodesDrawn, projects, disk.projects, past, future)
    BY DEF ViewInv
<1>2. /\ PersistPatched(ps, e) /\ past' = RemoveAt(past, i) /\ future' = <<e>> \o future
      /\ Forgotten /\ UNCHANGED <<open, retryable, removals, home>>
    BY DEF UndoAt, ghostVars
<1>3. HistoryStands(rank, NodesDrawn, past') /\ EntryStands(rank, NodesDrawn, e)
    BY <1>1, <1>2, RemoveStands DEF AllStands
<1> HIDE DEF e
<1>4. HistoryStands(rank, NodesDrawn, future')
    BY <1>1, <1>2, <1>3, PushStands DEF AllStands
<1>5. "undo" \in Direction
    BY DEF Direction
<1>6. ProjectsStand(rank, NodesDrawn, ps) /\ ProjectsStand(rank, NodesDrawn, disk.projects)
    BY <1>1, <1>3, <1>5, PatchStands DEF AllStands
<1> HIDE DEF ps
<1> QED BY <1>2, <1>3, <1>4, <1>6, PatchedInView

LEMMA RedoInView == ASSUME ViewInv, NEW i \in DOMAIN future, RedoAt(i) PROVE ViewInv'
<1> DEFINE e  == future[i]
           ps == ApplyPatch(projects, e, "redo")
<1>1. PICK rank \in Rank :
         AllStands(rank, NodesDrawn, projects, disk.projects, past, future)
    BY DEF ViewInv
<1>2. /\ PersistPatched(ps, e) /\ future' = RemoveAt(future, i)
      /\ past' = Capped(Append(past, e))
      /\ Forgotten /\ UNCHANGED <<open, retryable, removals, home>>
    BY DEF RedoAt, ghostVars
<1>3. HistoryStands(rank, NodesDrawn, future') /\ EntryStands(rank, NodesDrawn, e)
    BY <1>1, <1>2, RemoveStands DEF AllStands
<1> HIDE DEF e
<1>4. HistoryStands(rank, NodesDrawn, past')
    BY <1>1, <1>2, <1>3, PushStands DEF AllStands
<1>5. "redo" \in Direction
    BY DEF Direction
<1>6. ProjectsStand(rank, NodesDrawn, ps) /\ ProjectsStand(rank, NodesDrawn, disk.projects)
    BY <1>1, <1>3, <1>5, PatchStands DEF AllStands
<1> HIDE DEF ps
<1> QED BY <1>2, <1>3, <1>4, <1>6, PatchedInView

\* The Rings of the page and of a node undo and redo entries of the history.
LEMMA RingsInView ==
    ASSUME ViewInv, Undo \/ Redo \/ (\E n : UndoNode(n) \/ RedoNode(n)) PROVE ViewInv'
<1>1. CASE Undo
    <2>1. Len(past) \in DOMAIN past
        <3>1. PICK rank \in Rank :
                 AllStands(rank, NodesDrawn, projects, disk.projects, past, future)
            BY DEF ViewInv
        <3>2. PICK S : past \in Seq(S) /\ past # <<>>
            BY <1>1, <3>1 DEF AllStands, HistoryStands, Undo
        <3>3. Len(past) \in Nat /\ Len(past) # 0 /\ DOMAIN past = 1..Len(past)
            BY <3>2, EmptySeq
        <3> QED BY <3>3
    <2> QED BY <1>1, <2>1, UndoInView DEF Undo
<1>2. CASE Redo
    <2>1. 1 \in DOMAIN future
        <3>1. PICK rank \in Rank :
                 AllStands(rank, NodesDrawn, projects, disk.projects, past, future)
            BY DEF ViewInv
        <3>2. PICK S : future \in Seq(S) /\ future # <<>>
            BY <1>2, <3>1 DEF AllStands, HistoryStands, Redo
        <3>3. Len(future) \in Nat /\ Len(future) # 0 /\ DOMAIN future = 1..Len(future)
            BY <3>2, EmptySeq
        <3> QED BY <3>3
    <2> QED BY <1>2, <2>1, RedoInView DEF Redo
<1>3. ASSUME NEW n, UndoNode(n) PROVE ViewInv'
    <2>1. PICK i \in DOMAIN past : UndoAt(i)
        BY <1>3 DEF UndoNode, Reached
    <2> QED BY <2>1, UndoInView
<1>4. ASSUME NEW n, RedoNode(n) PROVE ViewInv'
    <2>1. PICK i \in DOMAIN future : RedoAt(i)
        BY <1>4 DEF RedoNode, Reached
    <2> QED BY <2>1, RedoInView
<1> QED BY <1>1, <1>2, <1>3, <1>4

\* HYDRATE
LEMMA ReloadInView == ASSUME ViewInv, Reload PROVE ViewInv'
<1> DEFINE ps == Normalized(disk.projects)
<1>1. PICK rank \in Rank :
         AllStands(rank, NodesDrawn, projects, disk.projects, past, future)
    BY DEF ViewInv
<1>2. /\ NodesDrawn' = NodesDrawn /\ disk' = disk /\ PageTyped'
      /\ streamed' \subseteq Requests
    BY DEF Reload, NodesDrawn, ghostVars, PageTyped
<1>3. /\ HistoryStands(rank, NodesDrawn, past') /\ HistoryStands(rank, NodesDrawn, future')
      /\ ProjectsStand(rank, NodesDrawn, disk.projects)
    BY <1>1, NothingStands DEF Reload, AllStands
<1>4. ProjectsStand(rank, NodesDrawn, ps)
    BY <1>3, NormalizedStands DEF ProjectsStand, Normalized
<1>5. PICK w \in Loaded(disk) :
         projects' = w.projects /\ activeProject' = w.active /\ selected' = w.selected
    BY DEF Reload
<1> HIDE DEF ps
<1>6. CASE DOMAIN ps = {}
    <2>1. w = EmptyWorkspace
        BY <1>5, <1>6, LoadedIs DEF ps
    <2>2. DOMAIN projects' = {} /\ activeProject' = None /\ selected' = None
        BY <1>5, <2>1 DEF EmptyWorkspace, Workspace
    <2>3. ProjectsStand(rank, NodesDrawn, projects')
        BY <2>2 DEF ProjectsStand
    <2>4. InView(projects', activeProject', selected')
        BY <2>2 DEF InView
    <2> QED BY <1>2, <1>3, <2>3, <2>4 DEF ViewInv, AllStands
<1>7. CASE DOMAIN ps # {}
    <2>1. PICK p \in DOMAIN ps :
             w = Workspace(ps, p, IF disk.selected \in DOMAIN ps[p].nodes
                                  THEN disk.selected ELSE Root)
        BY <1>5, <1>7, LoadedIs DEF ps
    <2>2. Root \in DOMAIN ps[p].nodes
        BY <1>4 DEF ProjectsStand, ProjectStands, NodesStand
    <2>3. projects' = ps /\ InView(projects', activeProject', selected')
        BY <1>5, <2>1, <2>2 DEF Workspace, InView
    <2> QED BY <1>2, <1>3, <1>4, <2>3 DEF ViewInv, AllStands
<1> QED BY <1>6, <1>7

LEMMA InitInView == ASSUME Init PROVE ViewInv
<1>1. PageTyped /\ streamed \subseteq Requests /\ InView(projects, activeProject, selected)
    BY DEF Init, PageTyped, InView, EmptyWorkspace, Workspace
<1>2. PICK rank : rank \in Rank
    <2>1. [x \in AnyId |-> 0] \in Rank
        BY DEF Rank
    <2> QED BY <2>1
<1>3. HistoryStands(rank, NodesDrawn, past) /\ HistoryStands(rank, NodesDrawn, future)
    BY NothingStands DEF Init
<1>4. ProjectsStand(rank, NodesDrawn, projects) /\ ProjectsStand(rank, NodesDrawn, disk.projects)
    BY DEF Init, EmptyWorkspace, Workspace, ProjectsStand
<1> QED BY <1>1, <1>2, <1>3, <1>4 DEF ViewInv, AllStands

LEMMA ViewStep == ASSUME ViewInv, [Next]_forestVars PROVE ViewInv'
<1>1. ASSUME NEW p \in ProjectId, Seed(p) \/ SwitchProject(p) \/ DeleteProject(p)
      PROVE  ViewInv'
    BY <1>1, SeedInView, SwitchInView, DeleteInView
<1>2. ASSUME NEW n \in AnyId, SelectNode(n) \/ Leaf(n) \/ Ask(n) PROVE ViewInv'
    BY <1>2, SelectInView, LeafInView, AskInView
<1>3. ASSUME NEW r \in open, Token(r) \/ \E status \in Status \ {"streaming"} : Settle(r, status)
      PROVE  ViewInv'
    BY <1>3, TokenInView, SettleInView
<1>4. ASSUME NEW x \in NutrientId, RemoveBegins(x) \/ RemoveEnds(x) \/ ToggleNutrient(x)
      PROVE  ViewInv'
    BY <1>4, RemoveBeginsInView, RemoveEndsInView, ToggleInView
<1>5. CASE UNCHANGED forestVars
    <2>1. UNCHANGED <<projects, activeProject, selected, past, future, disk, streamed,
                      home, pageVars>>
        BY <1>5 DEF forestVars, storeVars, ghostVars
    <2> QED BY <2>1, SamePage, IdleInView DEF ViewInv
<1>6. ASSUME Undo \/ Redo \/ \E n \in AnyId : UndoNode(n) \/ RedoNode(n) PROVE ViewInv'
    BY <1>6, RingsInView
<1> QED BY <1>1, <1>2, <1>3, <1>4, <1>5, <1>6, PruneInView, UploadBeginsInView,
           UploadEndsInView, AddTransferInView, RemoveTransferInView, ReloadInView,
           RetryInView DEF Next

THEOREM ViewInvariant == ForestSpec => []ViewInv
<1>1. Init => ViewInv
    BY InitInView
<1>2. ViewInv /\ [Next]_forestVars => ViewInv'
    BY ViewStep
<1> QED BY <1>1, <1>2, PTL DEF ForestSpec

\* Whatever was switched, deleted, pruned, undone or loaded, the page has a project in
\* view unless there is none, a node of it is selected, and every project has its root
\* (WorkspaceHolds), as the cases of treeReducer.ts and loadInitialState leave them.
THEOREM SomethingInView == ForestSpec => []WorkspaceHolds
<1>1. ViewInv => WorkspaceHolds
    <2> SUFFICES ASSUME ViewInv PROVE WorkspaceHolds
        OBVIOUS
    <2>1. PICK rank \in Rank : ProjectsStand(rank, NodesDrawn, projects)
        BY DEF ViewInv, AllStands
    <2>2. ASSUME NEW p \in DOMAIN projects
          PROVE  IsProject(projects[p]) /\ Root \in DOMAIN projects[p].nodes
        BY <2>1 DEF ProjectsStand, ProjectStands, NodesStand, Standing, IsProject, NodeMap
    <2>3. ForestTypeOK
        BY <2>1, <2>2 DEF ForestTypeOK, ViewInv, PageTyped, Requests, ProjectsStand
    <2> QED BY <2>2, <2>3 DEF ViewInv, InView, WorkspaceHolds, Nodes
<1> QED BY <1>1, ViewInvariant, PTL
=============================================================================
