------------------------------- MODULE Forest -------------------------------
(***************************************************************************)
(* The workspace: several projects, each with its tree and its Nutrients,  *)
(* one of them active, one history for all of them (treeReducer.ts), and   *)
(* the copy in the browser's storage (storage.ts).  The user switches,      *)
(* deletes and seeds projects while answers stream, files are converted     *)
(* and attachments are deleted, asks again for an answer that failed, and   *)
(* comes back by reloading the page.  The store may refuse what is written. *)
(*                                                                         *)
(* Trees are edited by questions, notes and prunes; the other edits of one *)
(* tree are in TreeReducer.                                                *)
(*                                                                         *)
(* ProjectId, NutrientId  ids that may be drawn, none twice.               *)
(* Unreadable   files whose conversion fails: they are listed, not used.   *)
(* None         also: no project.                                          *)
(* Sessions     bounds what happens in one behaviour: each behaviour keeps *)
(*              to one of these sets of gestures, to so many projects and   *)
(*              new nodes and so many entries of history, which stand for  *)
(*              MAX_HISTORY.                                               *)
(***************************************************************************)
EXTENDS TreeEdits

CONSTANTS ProjectId, NutrientId, Unreadable, Sessions

ForestGestures == {"ask", "parallel", "leaf", "prune", "select", "switch", "delete",
                   "files", "removal", "choice", "transfers", "rings", "nodeRings",
                   "retry", "full", "reload"}

ASSUME ForestAssumption ==
    /\ None \notin ProjectId
    /\ Unreadable \subseteq NutrientId
    /\ Sessions \subseteq [does: SUBSET ForestGestures, projects: Nat, ids: Nat,
                           entries: Nat \ {0}]

VARIABLES
    projects,       \* projects, by id
    activeProject,  \* activeProjectId, None without projects
    selected,       \* selectedNodeId in the active project
    past, future,   \* the history: past in order, future with the next redo first
    disk,           \* the saved workspace
    streamed,       \* answers whose text has changed on the page since it was saved
    unsaved,        \* ghost: the last attempt to save failed
    open,           \* requests for answers not over yet
    retryable,      \* answers whose request failed or was cancelled on this page
    upload,         \* the project whose files are being converted, or None
    removals,       \* Nutrients whose attachment is being deleted
    seeded,         \* ghost: the projects seeded so far
    home,           \* ghost: the project a node or a Nutrient was made for
    session         \* bound of this behaviour, one of Sessions

storeVars == <<disk, streamed, unsaved>>
pageVars  == <<open, retryable, upload, removals>>
ghostVars == <<seeded, home, session>>
forestVars == <<projects, activeProject, selected, past, future, storeVars, pageVars,
                ghostVars>>

Does(gesture) == gesture \in session.does
FreshNode == {n \in NodeId \ DOMAIN home :
                 Cardinality(DOMAIN home \cap NodeId) < session.ids}
FreshNutrient == NutrientId \ DOMAIN home

-----------------------------------------------------------------------------
(* The workspace.                                                           *)

Transfer == [source: AnyId, target: AnyId, type: {"pin", "quote"}]

IsProject(p) ==
    /\ DOMAIN p = {"nodes", "nutrients", "active", "transfers"}
    /\ DOMAIN p.nodes \subseteq AnyId
    /\ \A n \in DOMAIN p.nodes : p.nodes[n] \in Node
    /\ p.nutrients \subseteq NutrientId /\ p.active \subseteq p.nutrients
    /\ p.transfers \subseteq Transfer

\* createProject()
NewProject ==
    [nodes |-> [n \in {Root} |-> NewNode("root", None, "complete")],
     nutrients |-> {}, active |-> {}, transfers |-> {}]

WithNodes(project, ns) == [project EXCEPT !.nodes = ns]

NormalizeProject(project) ==
    WithNodes(project,
              [n \in DOMAIN project.nodes |-> NormalizeNode(project.nodes[n])])

\* The nodes of the active project; getActiveProject() may find none.
Nodes == projects[activeProject].nodes

Workspace(ps, active, node) ==
    [projects |-> ps, active |-> active, selected |-> node]

\* saveWorkspace(): a store that is full keeps what it has, and nobody is told.
Save(ws) ==
    \/ disk' = ws /\ streamed' = {} /\ unsaved' = FALSE
    \/ Does("full") /\ unsaved' = TRUE /\ UNCHANGED <<disk, streamed>>

\* A state as it comes out of a reducer case that persists it.
Persist(ps, active, node) ==
    /\ projects' = ps /\ activeProject' = active /\ selected' = node
    /\ Save(Workspace(ps, active, node))

\* The active project changed to p, nothing else.
PersistActive(p) ==
    Persist([projects EXCEPT ![activeProject] = p], activeProject, selected)

EmptyWorkspace == Workspace([p \in {} |-> NewProject], None, None)

\* What loadInitialState makes of a saved workspace.  Which project is the first
\* in the store is left open.
Loaded(ws) ==
    LET ps == [p \in DOMAIN ws.projects |-> NormalizeProject(ws.projects[p])] IN
    IF DOMAIN ps = {} THEN {EmptyWorkspace}
    ELSE {Workspace(ps, p, IF ws.selected \in DOMAIN ps[p].nodes
                           THEN ws.selected ELSE Root) :
            p \in IF ws.active \in DOMAIN ps THEN {ws.active} ELSE DOMAIN ps}

-----------------------------------------------------------------------------
(* The page.  Its first act is to walk from the selected node to the root   *)
(* (getContextPath); when a node of that path is missing the walk throws,   *)
(* React drops the page, and nothing is dispatched any more.                *)

Drawable(ps, active, node) ==
    active # None =>
        {node} \cup Ancestors(ps[active].nodes, node) \subseteq DOMAIN ps[active].nodes

PageIsUp == Drawable(projects, activeProject, selected)

\* A gesture in a project.
AtWork == PageIsUp /\ activeProject \in DOMAIN projects

-----------------------------------------------------------------------------
(* The history.                                                             *)

NoChanges == [n \in {} |-> Change(None, None)]

\* createHistoryEntry(): changes of nodes are changes in the project pid.
Entry(pid, primary, affected, nodeChanges, projectChanges) ==
    [project |-> pid, primary |-> primary, affected |-> affected,
     nodes |-> nodeChanges, projects |-> projectChanges]

Capped(entries) == IF Len(entries) > session.entries THEN Tail(entries) ELSE entries

PushHistory(e) == past' = Capped(Append(past, e)) /\ future' = <<>>

\* latestCreationHistoryForNode()
CreationRecorded(p, n) ==
    \E i \in DOMAIN past :
        /\ past[i].project = p /\ past[i].primary = n
        /\ n \in DOMAIN past[i].nodes /\ past[i].nodes[n].before = None

\* applyPatch() on the projects: whole projects come and go first.
PatchProjects(ps, e, direction) ==
    LET value(p) == IF direction = "undo" THEN e.projects[p].before
                                          ELSE e.projects[p].after
        gone     == {p \in DOMAIN e.projects : value(p) = None}
    IN [p \in (DOMAIN ps \cup DOMAIN e.projects) \ gone |->
            IF p \in DOMAIN e.projects THEN NormalizeProject(value(p)) ELSE ps[p]]

\* applyPatch()
ApplyPatch(ps, e, direction) ==
    LET patched == PatchProjects(ps, e, direction) IN
    IF e.project \in DOMAIN patched /\ DOMAIN e.nodes # {}
    THEN [patched EXCEPT ![e.project] =
             WithNodes(@, ApplyGroup(@.nodes, e.nodes, direction))]
    ELSE patched

\* Mutant: a selected node that went stays selected.
PersistPatchedOnly(ps, e) ==
    IF activeProject \in DOMAIN ps THEN Persist(ps, activeProject, selected)
    ELSE IF DOMAIN ps = {} THEN Persist(ps, None, None)
    ELSE \E p \in DOMAIN ps : Persist(ps, p, Root)

\* The projects become ps, and the selection is kept valid: another project when
\* the active one is gone, the entry's primary node or the root when the selected
\* node is.
PersistPatched(ps, e) ==
    IF activeProject \in DOMAIN ps
    THEN Persist(ps, activeProject,
                 IF selected \in DOMAIN ps[activeProject].nodes THEN selected
                 ELSE IF e.primary \in DOMAIN ps[activeProject].nodes THEN e.primary
                 ELSE Root)
    ELSE IF DOMAIN ps = {} THEN Persist(ps, None, None)
    ELSE \E p \in DOMAIN ps : Persist(ps, p, Root)

-----------------------------------------------------------------------------
(* Projects.                                                                *)

Init ==
    /\ projects = EmptyWorkspace.projects
    /\ activeProject = None /\ selected = None
    /\ past = <<>> /\ future = <<>>
    /\ disk = EmptyWorkspace /\ streamed = {} /\ unsaved = FALSE
    /\ open = {} /\ retryable = {} /\ upload = None /\ removals = {}
    /\ seeded = {} /\ home = [x \in {} |-> None]
    /\ session \in Sessions

\* SEED.  The entry is filed under the project that was active before.
Seed(p) ==
    /\ PageIsUp
    /\ p \in ProjectId \ seeded
    /\ Cardinality(seeded) < session.projects
    /\ Persist(Override(projects, [q \in {p} |-> NewProject]), p, Root)
    /\ PushHistory(Entry(activeProject, Root, {Root}, NoChanges,
                         [q \in {p} |-> Change(None, NewProject)]))
    /\ seeded' = seeded \cup {p}
    /\ UNCHANGED <<pageVars, home, session>>

\* SWITCH_PROJECT
SwitchProject(p) ==
    /\ AtWork /\ Does("switch")
    /\ p \in DOMAIN projects
    /\ Persist(projects, p, Root)
    /\ UNCHANGED <<past, future, pageVars, ghostVars>>

\* DELETE_PROJECT, confirmed; never the last one.
DeleteProject(p) ==
    LET remaining == [q \in DOMAIN projects \ {p} |-> projects[q]] IN
    /\ AtWork /\ Does("delete")
    /\ p \in DOMAIN projects /\ DOMAIN remaining # {}
    /\ \E next \in IF p = activeProject THEN DOMAIN remaining ELSE {activeProject} :
          Persist(remaining, next, Root)
    /\ PushHistory(Entry(activeProject, Root, DOMAIN projects[p].nodes, NoChanges,
                         [q \in {p} |-> Change(projects[p], None)]))
    /\ UNCHANGED <<pageVars, ghostVars>>

\* The search lists all nodes of the project, the scene and the path some.
Selectable(n) == n \in DOMAIN Nodes

\* SELECT_NODE and SUNLIGHT
SelectNode(n) ==
    /\ AtWork /\ Does("select")
    /\ Selectable(n)
    /\ Persist(projects, activeProject, n)
    /\ UNCHANGED <<past, future, pageVars, ghostVars>>

-----------------------------------------------------------------------------
(* Trees.                                                                   *)

\* LEAF at the selected node.
Leaf(n) ==
    LET parent == ResolveBranchParent(Nodes, selected)
        leaf   == NewNode("leaf", parent, "complete")
        after  == WithChild(Nodes[parent], n)
    IN
    /\ AtWork /\ Does("leaf")
    /\ n \in FreshNode
    /\ parent \in DOMAIN Nodes
    /\ Cardinality(LeafChildren(Nodes, parent)) < MaxLeaves
    /\ Persist([projects EXCEPT ![activeProject].nodes =
                   Override(@, [x \in {parent, n} |-> IF x = n THEN leaf ELSE after])],
               activeProject, n)
    /\ PushHistory(Entry(activeProject, n, {parent, n, selected},
                         [x \in {parent, n} |-> IF x = n THEN Change(None, leaf)
                                                ELSE Change(Nodes[parent], after)],
                         NoChanges))
    /\ home' = Override(home, [x \in {n} |-> activeProject])
    /\ UNCHANGED <<pageVars, seeded, session>>

\* requestPrune(): the dialog is for the selected node, and never for the root.
PruneOffered == selected # Root

\* PRUNE of the selected node and its subtree, confirmed in the dialog.
Prune ==
    LET n       == selected
        deleted == Subtree(Nodes, n) \cap DOMAIN Nodes
        parent  == {Nodes[n].parent} \cap DOMAIN Nodes
        after(m) == WithoutChild(Nodes[m], n)
    IN
    /\ AtWork /\ Does("prune")
    /\ PruneOffered
    /\ Persist([projects EXCEPT ![activeProject].nodes =
                   [m \in DOMAIN @ \ deleted |-> IF m \in parent THEN after(m) ELSE @[m]]],
               activeProject, Nodes[n].parent)
    /\ PushHistory(Entry(activeProject, Nodes[n].parent, parent \cup deleted,
                         [m \in parent \cup deleted |->
                             IF m \in deleted THEN Change(Nodes[m], None)
                             ELSE Change(Nodes[m], after(m))],
                         NoChanges))
    /\ UNCHANGED <<pageVars, ghostVars>>

\* The composer refuses while the selected node is being answered or files are
\* converted.
ComposerReady == upload = None /\ \A r \in open : r.node # selected

\* handleSendMessage up to STREAM_BRANCH_START: a question at the selected node.
Ask(n) ==
    LET parent == Anchor(Nodes, selected) IN
    /\ AtWork /\ Does("ask")
    /\ open # {} => Does("parallel")
    /\ n \in FreshNode
    /\ ComposerReady
    /\ parent \in DOMAIN Nodes /\ ReachesRoot(Nodes, parent)
    /\ Persist([projects EXCEPT ![activeProject].nodes =
                   Override(@, [x \in {parent, n} |->
                       IF x = n THEN NewNode("branch", parent, "streaming")
                       ELSE WithChild(@[parent], n)])],
               activeProject, n)
    /\ open' = open \cup {[project |-> activeProject, node |-> n]}
    /\ home' = Override(home, [x \in {n} |-> activeProject])
    /\ UNCHANGED <<past, future, retryable, upload, removals, seeded, session>>

Known(r) == /\ r.project \in DOMAIN projects
            /\ r.node \in DOMAIN projects[r.project].nodes

\* STREAM_BRANCH_UPDATE: new text for the answer r, which is not saved.
Update(r) ==
    /\ projects' = [projects EXCEPT ![r.project].nodes[r.node].status = "streaming"]
    /\ streamed' = streamed \cup {r}
    /\ UNCHANGED <<activeProject, selected, past, future, disk, unsaved>>

\* A token arrives.
Token(r) ==
    /\ PageIsUp
    /\ r \in open /\ Known(r)
    /\ Update(r)
    /\ UNCHANGED <<pageVars, ghostVars>>

Answered(p, n, status) == [projects[p].nodes[n] EXCEPT !.status = status]

\* The entry of a settled answer: parentBefore has no edge to it.
CreationEntry(p, n, after) ==
    LET ns     == projects[p].nodes
        parent == ns[n].parent
    IN
    Entry(p, n, {parent, n},
          [x \in {parent, n} |->
              IF x = n THEN Change(None, after)
              ELSE Change(WithoutChild(ns[parent], n), ns[parent])],
          NoChanges)

\* Mutant: an answer that has its entry is not saved again.
SettledUnsaved(p, n, status) ==
    LET after == Answered(p, n, status)
        ps    == [projects EXCEPT ![p].nodes[n] = after]
    IN
    IF CreationRecorded(p, n)
    THEN /\ projects' = ps
         /\ UNCHANGED <<activeProject, selected, past, future, storeVars>>
    ELSE /\ Persist(ps, activeProject, selected)
         /\ PushHistory(CreationEntry(p, n, after))

\* STREAM_BRANCH_FINISH and STREAM_BRANCH_FAIL with the node and its parent there.
Settled(p, n, status) ==
    LET after == Answered(p, n, status) IN
    /\ Persist([projects EXCEPT ![p].nodes[n] = after], activeProject, selected)
    /\ IF CreationRecorded(p, n)
       THEN UNCHANGED <<past, future>>
       ELSE PushHistory(CreationEntry(p, n, after))

\* The request of an answer ends, in whatever project the user is by then.
Settle(r, status) ==
    /\ PageIsUp
    /\ r \in open
    /\ open' = open \ {r}
    /\ retryable' = IF status = "complete" THEN retryable ELSE retryable \cup {r}
    /\ IF Known(r)
          /\ projects[r.project].nodes[r.node].parent \in DOMAIN projects[r.project].nodes
       THEN Settled(r.project, r.node, status)
       ELSE UNCHANGED <<projects, activeProject, selected, past, future, storeVars>>
    /\ UNCHANGED <<upload, removals, ghostVars>>

\* handleRetryAnswer at the selected answer: its text is emptied and it streams
\* again.  While a request for it is open, the new one is refused, and the answer
\* fails at once.
RetryAnswer ==
    LET r == [project |-> activeProject, node |-> selected] IN
    /\ AtWork /\ Does("retry")
    /\ r \in retryable /\ Known(r)
    /\ Nodes[selected].status \in {"failed", "stopped"}
    /\ IF r \in open /\ Nodes[selected].parent \in DOMAIN Nodes
       THEN Settled(activeProject, selected, "failed") ELSE Update(r)
    /\ open' = open \cup {r}
    /\ UNCHANGED <<retryable, upload, removals, ghostVars>>

-----------------------------------------------------------------------------
(* Nutrients.                                                               *)

\* handleFiles: the files are meant for the project that is active now.
UploadBegins ==
    /\ AtWork /\ Does("files")
    /\ upload = None
    /\ upload' = activeProject
    /\ UNCHANGED <<projects, activeProject, selected, past, future, storeVars, open,
                   retryable, removals, ghostVars>>

\* Mutant: the files go to the project that is active when they are converted.
AddedToActive(X) ==
    LET p == projects[activeProject] IN
    PersistActive([p EXCEPT !.nutrients = @ \cup X, !.active = @ \cup (X \ Unreadable)])

\* ADD_NUTRIENTS
Added(X) ==
    LET p == projects[upload] IN
    Persist([projects EXCEPT ![upload] =
                [p EXCEPT !.nutrients = @ \cup X, !.active = @ \cup (X \ Unreadable)]],
            activeProject, selected)

\* The files are converted: X are those of an acceptable size.
UploadEnds(X) ==
    /\ PageIsUp
    /\ upload # None
    /\ upload' = None
    /\ IF X # {} /\ upload \in DOMAIN projects
       THEN Added(X) /\ home' = Override(home, [x \in X |-> upload])
       ELSE UNCHANGED <<projects, activeProject, selected, storeVars, home>>
    /\ UNCHANGED <<past, future, open, retryable, removals, seeded, session>>

\* Remove: the attachment is deleted first, and the Nutrient when that is done,
\* from the project that is active by then.
RemoveBegins(x) ==
    /\ AtWork /\ Does("removal")
    /\ x \in projects[activeProject].nutrients \ removals
    /\ removals' = removals \cup {x}
    /\ UNCHANGED <<projects, activeProject, selected, past, future, storeVars, open,
                   retryable, upload, ghostVars>>

\* REMOVE_NUTRIENT
RemoveEnds(x) ==
    /\ PageIsUp
    /\ x \in removals
    /\ removals' = removals \ {x}
    /\ IF activeProject \in DOMAIN projects
       THEN PersistActive([projects[activeProject] EXCEPT !.nutrients = @ \ {x},
                                                          !.active = @ \ {x}])
       ELSE Persist(projects, activeProject, selected)
    /\ UNCHANGED <<past, future, open, retryable, upload, ghostVars>>

\* TOGGLE_NUTRIENT_ACTIVE; the button of an unreadable file is disabled.
ToggleNutrient(x) ==
    LET p == projects[activeProject] IN
    /\ AtWork /\ Does("choice")
    /\ x \in p.nutrients \ Unreadable
    /\ PersistActive([p EXCEPT !.active = SymDiff(@, {x})])
    /\ UNCHANGED <<past, future, pageVars, ghostVars>>

-----------------------------------------------------------------------------
(* Context transfers.  A merge differs from a quote only in the compiler.   *)

\* The selected node is pinned, or a node the user chose earlier, perhaps in
\* another project, is quoted at the selected one.
Offered(source, type) == type = "pin" => source = selected

\* ADD_CONTEXT_TRANSFER
AddTransfer(source, type) ==
    LET p == projects[activeProject]
        target == IF type = "pin" THEN Root ELSE ResolveBranchParent(Nodes, selected)
    IN
    /\ AtWork /\ Does("transfers")
    /\ Offered(source, type)
    /\ source \in DOMAIN Nodes /\ target \in DOMAIN Nodes
    /\ LET t == [source |-> source, target |-> target, type |-> type] IN
       /\ t \notin p.transfers
       /\ PersistActive([p EXCEPT !.transfers = @ \cup {t}])
    /\ UNCHANGED <<past, future, pageVars, ghostVars>>

\* The panel of a node lists the pins and what is quoted at it.
Listed(t) == t.type = "pin" \/ t.target = selected

\* REMOVE_CONTEXT_TRANSFER
RemoveTransfer(t) ==
    /\ AtWork /\ Does("transfers")
    /\ t \in projects[activeProject].transfers
    /\ Listed(t)
    /\ PersistActive([projects[activeProject] EXCEPT !.transfers = @ \ {t}])
    /\ UNCHANGED <<past, future, pageVars, ghostVars>>

-----------------------------------------------------------------------------
(* Rings, and coming back.                                                  *)

\* The page without a project offers a seed only, which clears the history: files
\* still being converted by then find no project.
Forgotten == upload' = IF DOMAIN projects' = {} THEN None ELSE upload

UndoAt(i) ==
    /\ PersistPatched(ApplyPatch(projects, past[i], "undo"), past[i])
    /\ past' = RemoveAt(past, i)
    /\ future' = <<past[i]>> \o future
    /\ Forgotten
    /\ UNCHANGED <<open, retryable, removals, ghostVars>>

RedoAt(i) ==
    /\ PersistPatched(ApplyPatch(projects, future[i], "redo"), future[i])
    /\ future' = RemoveAt(future, i)
    /\ past' = Capped(Append(past, future[i]))
    /\ Forgotten
    /\ UNCHANGED <<open, retryable, removals, ghostVars>>

Undo == AtWork /\ Does("rings") /\ past # <<>> /\ UndoAt(Len(past))
Redo == AtWork /\ Does("rings") /\ future # <<>> /\ RedoAt(1)

\* The entries the Rings of one node reach: those filed under the active project
\* that affect it.  The panel stays open for a node that has gone.
Reached(entries, n) == {i \in DOMAIN entries : /\ entries[i].project = activeProject
                                               /\ n \in entries[i].affected}

UndoNode(n) ==
    /\ AtWork /\ Does("nodeRings")
    /\ \E i \in Reached(past, n) :
          (\A j \in Reached(past, n) : j <= i) /\ UndoAt(i)

RedoNode(n) ==
    /\ AtWork /\ Does("nodeRings")
    /\ \E i \in Reached(future, n) :
          (\A j \in Reached(future, n) : j >= i) /\ RedoAt(i)

\* The page is loaded again (HYDRATE): what was under way is gone, and so are the
\* tasks the hook knew.
Reload ==
    /\ Does("reload")
    /\ \E w \in Loaded(disk) :
          /\ projects' = w.projects
          /\ activeProject' = w.active /\ selected' = w.selected
    /\ past' = <<>> /\ future' = <<>>
    /\ open' = {} /\ retryable' = {} /\ upload' = None /\ removals' = {}
    /\ streamed' = {} /\ unsaved' = FALSE
    /\ UNCHANGED <<disk, ghostVars>>

Next ==
    \/ \E p \in ProjectId : Seed(p) \/ SwitchProject(p) \/ DeleteProject(p)
    \/ \E n \in AnyId : SelectNode(n) \/ Leaf(n) \/ Ask(n)
    \/ Prune
    \/ \E r \in open : Token(r) \/ \E status \in Status \ {"streaming"} : Settle(r, status)
    \/ RetryAnswer
    \/ UploadBegins
    \/ \E X \in SUBSET FreshNutrient : UploadEnds(X)
    \/ \E x \in NutrientId : RemoveBegins(x) \/ RemoveEnds(x) \/ ToggleNutrient(x)
    \/ \E source \in AnyId, type \in {"pin", "quote"} : AddTransfer(source, type)
    \/ \E t \in Transfer : RemoveTransfer(t)
    \/ Undo \/ Redo
    \/ \E n \in AnyId : UndoNode(n) \/ RedoNode(n)
    \/ Reload

ForestSpec == Init /\ [][Next]_forestVars

-----------------------------------------------------------------------------
(* Properties.                                                              *)

ForestTypeOK ==
    /\ DOMAIN projects \subseteq ProjectId
    /\ \A p \in DOMAIN projects : IsProject(projects[p])
    /\ open \cup retryable \cup streamed \subseteq [project : ProjectId, node : NodeId]
    /\ upload \in ProjectId \cup {None}
    /\ removals \subseteq NutrientId

\* Whatever was switched, deleted, undone or loaded, the page has a project in view
\* unless there is none, and a node of it is selected; every project has its root.
WorkspaceHolds ==
    /\ ForestTypeOK
    /\ IF DOMAIN projects = {} THEN activeProject = None /\ selected = None
       ELSE /\ activeProject \in DOMAIN projects
            /\ selected \in DOMAIN Nodes
    /\ \A p \in DOMAIN projects : Root \in DOMAIN projects[p].nodes

\* Everything in the project p was made for it, by the record h.
AtHome(h, p, project) ==
    /\ \A n \in DOMAIN project.nodes \ {Root} : n \in DOMAIN h /\ h[n] = p
    /\ \A x \in project.nutrients \cup project.active : x \in DOMAIN h /\ h[x] = p
    /\ \A t \in project.transfers : \A n \in {t.source, t.target} \ {Root} :
          n \in DOMAIN h /\ h[n] = p

\* Projects are isolated: an answer, a note, a file or a transfer is found only in
\* the project it was made in, on the page and in the store, although all projects
\* share one history and answers and files arrive after the user has switched.
HomesKept ==
    /\ \A p \in DOMAIN projects : AtHome(home, p, projects[p])
    /\ \A p \in DOMAIN disk.projects : AtHome(home, p, disk.projects[p])

\* The projects with the answers of S streaming.
Reopened(ps, S) ==
    [p \in DOMAIN ps |-> WithNodes(ps[p],
        [n \in DOMAIN ps[p].nodes |->
            IF [project |-> p, node |-> n] \in S
            THEN [ps[p].nodes[n] EXCEPT !.status = "streaming"] ELSE ps[p].nodes[n]])]

\* Unless the last write failed, a reload brings back what is on the page, answers
\* under way stopped.  Only the text and the ending of an answer that streams on the
\* page may be older in the store, and no longer than that: when a retried answer is
\* settled the store has caught up.
StoreFollows ==
    ~unsaved =>
      /\ \A r \in streamed : /\ Known(r)
                            /\ projects[r.project].nodes[r.node].status = "streaming"
      /\ Loaded(Workspace(Reopened(disk.projects, streamed), disk.active, disk.selected))
           = Loaded(Workspace(projects, activeProject, selected))

\* The selection is kept valid, as the comment of applyPatch says: the page can
\* show the path from the root to the selected node.
SelectionValid == PageIsUp
=============================================================================
