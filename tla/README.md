# Tree Chat: formal models

TLA+ models, TLC checks and TLAPS proofs for Tree Chat. Tree Chat is a Next.js
client, in which a conversation is a tree that the user branches, grafts and
prunes, and a Python service, the *Runtime* (`runtime/app`), that queues,
executes, routes, cancels and retries the model calls of that tree and streams
their events back.

Everything here is translated from the source. `PROJECT.json` maps each
definition to the lines it stands for, lists the components, the runs, the
hazards and the theorems.

## 1. The system

| Part | State | Operations | Talks to |
|---|---|---|---|
| Task registry (`task_registry.py`) | records, request snapshots, retry links | create, create_retry, mark_enqueued, try_start, mark_routed, mark_first_token, try_complete / fail / cancel, transition | called by the API and by executions |
| Scheduler (`scheduler.py`) | heap, queued dictionary, slots, cleanup tasks, closing flag | enqueue, cancel_queued, dispatch loop, release of a slot, shutdown | starts handles, awaits the enqueue callback |
| Execution handles (`execution_registry.py`) | live asyncio tasks, cancel requests | start, request_cancel, wait_stopped, done callback | scheduler, API |
| API and execution (`main.py`) | one coroutine per execution, handlers in progress | create, retry, cancel, SSE stream, execute_task, reliable publication, lifespan | all of the above, router, event bus |
| Event bus (`event_bus.py`) | subscribers per session, a queue each | subscribe, unsubscribe, publish (no replay) | SSE streams |
| Router (`router.py`) | health trackers, leases, assigned counts, cursor | start, route (4 policies), release, refresh, monitor | workers over HTTP |
| Workers (`mock_worker`, `real_worker`) | permits, waiting / running counters, traces | chat, structure, health, reset | router; upstream model |
| Client event delivery (`taskEventDispatcher.ts`, `sessionEvents.ts`, `useAIChat.ts`) | pending requests by key and by task, connections, known tasks | register, bind, handleEvent, connect, stop, retry | Runtime over HTTP and SSE, the reducer |
| Tree workspace (`treeReducer.ts`, `TreeContext.tsx`, `storage.ts`) | projects, nodes, current selection, history (past / future) | seed, branch, stream, leaf, graft, prune, layers, undo / redo, projects, hydrate | components, browser storage |
| Context compiler (`contextCompiler.ts`, `contextPath.ts`, `nutrients.ts`, `semanticCard.ts`) | none | put the path, transfers, notes and chunks of texts together, each within its budget; cut texts into chunks | reducer state, Runtime client |
| Auxo (`auxo.ts`, `useAuxo.ts`, `app/api/auxo/route.ts`, `rateLimit.ts`) | rate-limit windows | plan, validate, repair, apply | Runtime, reducer |
| Nutrients, product actions, UI, landing page | — | import of texts, gating of UI actions, rendering | reducer |

### What is hard here

* **One asyncio loop, many suspensions.** An execution is created by the
  dispatch loop, begins at some later step, waits for the router, the worker and
  the publication of its outcome, and can be cancelled, time out or be shut down
  at each of these points. A task cancelled before its first step never runs its
  body. A cancellation that meets an expiring `asyncio.timeout` wins.
* **Three tables for one execution.** The record (registry), the handle (handle
  registry) and the slot (scheduler) are updated at different steps; so is the
  router's lease.
* **Lazy deletion.** A cancelled task leaves the dictionary of the queue but not
  the heap.
* **No replay.** The event bus forgets; the client has to be subscribed before
  it submits, and the browser reconnects silently.
* **Two channels to the page.** The response of a submission and the events of the
  task it created overtake each other; token events carry no task, a node's earlier
  task may still be ending, and the stop button awaits a submission and then a
  cancel while the user goes on.
* **Health is read before it is used.** Every route waits for a lock that is held
  while all workers are probed; what it then decides on may be older than the
  leases. A client that leaves never cancels a worker's handler.
* **A plan is made elsewhere.** Between the texts a plan was made from and the tree
  it is written into lie a browser request, up to two server tasks, a preview, and
  uploads that end at any moment; each side can abort or time out on its own.
* **Cutting a text.** A block is cut several times, beside headings that are repeated,
  with a fence or a table head written around each piece: all of it counts against the
  size of a chunk, and the room left must never be nothing.
* **Undo over a tree.** History entries hold snapshots of single nodes, taken at
  different times, with a cap of 50 entries, while answers are still streaming.
* **One history for many trees.** The history is shared by all projects and holds
  whole projects too. Answers, converted files and deleted attachments arrive after
  the user has switched, deleted or undone the project they belong to, and every
  step writes the store that the next load starts from.

### What makes each part correct

* Scheduler: slots neither leak nor are overfilled; no slot stays free while a
  task waits; arrival order and priority are respected; after shutdown nothing
  runs; shutdown returns.
* Registry: terminal records are final; retries form bounded disjoint chains.
* API and execution: every accepted task gets exactly one outcome, announced
  exactly once and last; a cancel is answered with a terminal task; records,
  handles, coroutines and leases agree; shutdown leaves nothing behind.
* Router: a lease for exactly the tasks in execution, whatever is cancelled; the
  capacity of a home worker respected under the bounded policy; a turn for everybody
  under round robin; a worker leaves and re-enters service only through its
  thresholds; every route is decided.
* Workers: permits, counters and requests agree; a permit is lost only with a
  response that never starts.
* Client: a call settles exactly once, with the event of a task of its own node; the
  tables of dispatcher and hook agree; streamed text has no gap; a stopped question
  is cancelled at the server.
* Auxo: a request loses no text and names exactly the numbered questions; a plan is
  accepted exactly if it is the ordered tree it should be; it is written only into
  the project it was made for; a server task whose name the route has learned is over,
  or its cancellation failed, before the route lets go of it; the limiter admits no more
  than it says.
* Tree: every node but the root is listed by exactly its parent, whatever the
  order of edits, streams, undo and redo; the tasks of a plan come and go as one.
* Workspace: nothing is found in a project it was not made for; a project and a node
  of it are in view whatever was undone; unless a write failed, the store lags behind
  the page only by the answers that stream on it.
* Context: no chunk of a text is longer than it may be, each shows the headings it
  stands under, and together they hold the whole text, once and in order; the path goes
  from the root to the node that is asked; notes and chunks are left out only for want
  of room or choice.

The hazards, each at its line, are in `PROJECT.json`.

## 2. Modules

```
TaskIds ── ExecutionRegistry ── Scheduler
   │                              (MCScheduler)
   └────── TaskRegistry
Scheduler + TaskRegistry ── Runtime ── implements TaskLifecycle, SchedSpec
                           (MCRuntime)    and RegistrySpec (RuntimeProofs)
WorkerGateway ── Router ── implements ServiceStatus
                  (MCRouter)               (RouterProofs)
EventDelivery  (MCEventDelivery)          (DeliveryProofs)
AuxoPlanning + RateLimiter ── AuxoSession
                              (MCAuxoSession)  (AuxoProofs)
NutrientChunks ── ContextCompiler
                  (MCContextCompiler)     (ContextProofs)
TreeEdits ──┬── TreeReducer
            │   (MCTreeReducer)           (TreeProofs)
            └── Forest  (MCForest)        (ForestProofs)
```

The proofs about a component are in the module in parentheses; `RuntimeProofs` holds
those of the scheduler and the registry too, `RouterProofs` those of a worker's
gateway. `TreeEditsProofs` has the lemmas about the operators of `TreeEdits`.

**`ExecutionRegistry`** — `_handles` and `_cancel_requested`, with the stage of
each asyncio task (`none`, `created`, `running`, `done`) and the set
`interrupted` of handles whose next step raises CancelledError.

**`Scheduler`** — the heap, the queued dictionary, the slots and the cleanup
tasks. The dispatch loop is one operator, `Dispatch`: it takes the *set* of the
smallest queued entries that fits (`IsNextBatch`) and leaves in the heap what the
pops would leave (`HeapAfter`), stale entries included. `enqueue` is two actions
around its await, `shutdown` three (lock, handles stopped, cleanup tasks over).
A task is enqueued at most once (`mark_enqueued` refuses a second time), so its
queue item is named by the task. `Suspending` are the tasks whose callback may
suspend between the halves of `enqueue`: none in the Runtime, whose callback does not;
any set of them elsewhere, since the scheduler's interface allows it.

**`TaskRegistry`** — one action per method that changes a record; a refused call
changes nothing and is not an action. Timestamps are kept as "set or not".

**`TaskLifecycle`** — the abstract promise: the status of each task and the
stream of its events. An outcome is decided, then announced once, last.

**`Runtime`** — the handlers of `main.py`, `execute_task` cut at its suspension
points, the shielded publication and the lifespan. It composes the actions of
`Scheduler` and `TaskRegistry`; every action of `Runtime` is a registry action, a
scheduler action, or both at once, plus what `main.py` itself does. Of the router
it keeps the lease table, of the workers the ways a request can end.

**`TreeEdits`** — what the two modules of the reducer share: nodes, the walks along
their edges, and how the history puts snapshots of nodes back.
`MergeTargetChildren` merges a recorded list of children into the current one;
`ApplyGroup` is the loop of `applyPatch` over the nodes of an entry.

**`TreeReducer`** — the tree of one project and its history (Rings). The reducer
is sequential: each dispatched action of `treeReducer.ts` is one action, with its
entry in the history. What makes it hard are the asynchronous callers in
`app/page.tsx`, which the module keeps too: the requests whose answers stream
(`open`), the extractions of semantic cards (`structuring`), each with the parent
it was started under, and the composer's and the context compiler's refusals.
`ApplyPatch` follows `applyPatch` group by group. The Rings panel of a node opens on
a card that is drawn (`Drawn`) and stays open when the card goes (`focus`), which is
how node-level undo and redo reach nodes that are not there. `ApplyAuxoPlan` writes
the tasks of a plan and the entry that node Rings stop at; `LayerMove` only leaves an
entry; `Reload` keeps what was last saved and forgets the rest. Two ghosts only serve the
properties: `origin`, the ancestors an answer was written under, and `orderly`,
which stays TRUE while the history is used in order and while no answer is being
written; some promises only hold then, and the module says which.

**`Forest`** — all projects, the one in view, the selected node, the history they
share, and the saved copy (`disk`), which every persisted case of the reducer tries to
write in the same step (`Persist`); a store that is full swallows the write (`Save`). The
text of an answer that streams is never saved (`Update`): `streamed` has the answers
whose text on the page is newer than the store's. A retry (`RetryAnswer`) begins with
such an update of an answer that is settled and saved as failed. Trees are edited by
questions, retries, notes and prunes
only; the other edits of one tree are `TreeReducer`'s. The page keeps what outlives
a switch: answers (`open`), those whose task the hook can retry (`retryable`), files being converted for the project that was active
when they were chosen (`upload`), and attachments being deleted, whose Nutrient is
removed from the project that is active *then* (`removals`). `Reload` is
`loadInitialState` on `disk`. The page draws the path of the selected node
first (`getContextPath`, which throws when a node of it is missing): without it
nothing is dispatched any more (`PageIsUp`). The ghost `home` records the project
each node and Nutrient was made for, the ghost `unsaved` that the last write failed.

**`WorkerGateway`** — the permits, the line of waiters and the two counters of each
worker, for the real gateway, which takes the permit in its handler, and for the
mock, which takes it in the generator of the response. A request walks through
`Stage`; a disconnected client only shows when the server next touches the
response.

**`Router`** — `HttpTaskRouter`. A route is: queue for the FIFO health lock, probe
all workers (`ProbeAnswers`), decide (`RouteGranted`, `RouteRefused`), and
one disjunct of `Selects` per policy. Cancellation reaches a route in the line and in
the probes (`RouteCancelled`) and the execution behind it (`CallEnds`, which releases
the lease). The monitor is a further user of the lock. `Router` runs its tasks through `WorkerGateway`, whose
counters are what the next probe reports: the loop from a decision back to the
load it is based on is closed.

**`ServiceStatus`** — the abstract promise about health: who is in service, from the
streaks of probe results alone. `Debounced` is the refinement; the Router's counters
and its recovering state are what implements it.

**`EventDelivery`** — the page's side of a task: hook, dispatcher, multiplexer and
connection. `page` is one record, because JavaScript runs to completion: what
follows an event or a response is one step, written as operators on that record
that call each other as the source does (`Handle`, `Bind`, `Settle`, ...). The
server side is the least it can be: a task exists, runs, emits tokens and ends,
and is taken from `TaskLifecycle`'s promise (an outcome once, last).

**`AuxoPlanning`** — pure operators: what `auxo.ts` reads out of the root task and
the Nutrients, what makes a request and when a plan is accepted. A text is a
sequence of symbols, and a symbol stands for how the line is read that it begins:
that is all the regular expressions tell apart. Against them stand reference
definitions that say what is wanted without saying how (`RequestsAreExact`,
`PlansJudgedExactly`).

**`RateLimiter`** — the fixed window in front of the route.

**`AuxoSession`** — the dialog, the hook's request, the route with its attempts and
the server task of each, and the reducer. A submission that fails or is given up may
leave a task that lives and has no name (`PostFails`, `Aborts`). `shown` is the project as last rendered,
`project` the reducer's: an upload that ends changes the second before the first.

**`NutrientChunks`** — `chunkMarkdown` as a machine: a step reads a line or a block,
packs a block, or splits off a piece. A text is a sequence of lines, each with what the
code asks of it (fence, heading, head of a table, blank, pipes), and a piece is an
interval of positions, trimmed of white space (`Trims`), with what is written
around it in its size. The text itself is never needed.

**`ContextCompiler`** — the loops of `compileConversationContext` and of
`selectRelevantNutrientChunks`, one iteration a step: up the path, through the transfers,
the notes and the nutrients, each of which is cut by `NutrientChunks`. How well a
chunk matches a question is any score (`Score`); what is done with it is the code's.

### Why the steps are atomic as they are

The locks of the scheduler, the event bus and the router's lease table protect
sections without an await. An `asyncio.Lock` that nobody holds is acquired
without suspending, and none of these is ever held across a suspension: so none
ever suspends, and a handler that only takes such locks runs to its end in one
step of the loop. That covers create, retry, publish and release. `Runtime`
splits a submission into two or three actions for readability and lets nothing
come between them (`submitting`). The health lock of the router is the exception: it
is held across the probes, and `Router` models its line. The suspensions that remain are: from the
creation of a handle to its first step; the router's health refresh; the worker's
answer; the shielded publication; the wait for a handle; and the waits of
`shutdown`. The unwinding of a broken or cancelled stream may suspend too; the
model takes it as part of the step that leaves, since the record, the lease and
the coroutine change only at its end.

`_on_done` and `_schedule_cleanup` are two done callbacks of one handle, called
back to back (`DoneCallbacks`); those who wait for the handle wake up later.

## 3. Runs

| Run | Question | Bounds |
|---|---|---|
| `scheduler` | slots, work conservation, order, quiescence; shutdown returns | 4 tasks, 2 slots, priorities 0 and 2; one task whose callback suspends; every order of enqueue, cancel, end and shutdown; fairness |
| `runtime` | agreement of the tables, cancel answers, retry chains, refinement; no task is forgotten, every task ends, every cancel is answered | 2 tasks (the second may be a retry of the first) and a third for retries, 1 slot, 2 concurrent cancels, clock steps, a shutdown at any moment or never; fairness |
| `runtime_stop` | what a test says of the shutdown (**violated**) | 2 tasks, 1 slot |
| `tree` | the tree stays a tree; cards fit their path; the history replays, follows edits without an entry, leaves other edges alone and the tasks of a plan together | up to 3 new nodes, history of up to 3 entries, 1 note per node; fourteen kinds of sessions |
| `tree_retry` | no undo brings an unfinished answer back (**violated**) | 2 new nodes, history of 3 |
| `forest` | projects stay apart; a project and a node are in view; the store follows | 2 projects, 2 new nodes, 2 files (one unreadable), history of up to 3 entries; ten kinds of sessions |
| `forest_page` | the selection stays valid (**violated**) | 1 project, 2 new nodes |
| `routing` | permits and leases under cancellation, thresholds, fairness of the round robin, every route is decided | 2 tasks, 2 workers with one permit each, thresholds of 2; a build per policy |
| `delivery` | tables of dispatcher and hook, exactly one settlement, stops, whole streams, every call ends | three plans of use: up to 3 calls, 1 stop, 1 lost connection, 1 token per task |
| `delivery_stop` | an aborted retry has no task running (**violated**) | the same |
| `planning` | exact requests and judgements, no named task abandoned, plans fit their input, every generation returns, the limiter | seven worlds, see below |
| `context` | chunks fit, show their headings and lose nothing; path, notes and chunks of a context | some 2,500 texts of up to four lines, four sizes of chunks; trees with three notes and three transfers; two texts to choose from |

Why these bounds are enough: a batch of two needs two slots and at least two
waiting tasks; order needs two tasks of equal and one of better priority; a stale
heap entry behind a live one needs a cancel with a waiting task left; a callback that
suspends needs tasks that overtake it. Longer chains of retries, first come first served
and other sizes are left to the theorems. In the service, one task running and one waiting is where
cancel, dispatch and release meet; a retry needs the first to be over. Two cancel
requests cover a duplicate cancel and one of each kind. A second retry of one task, and
a retry past the limit of two attempts, need a third task. `MCRuntime` has it under a
bound, `ThirdTaskIsAlone`: it comes as a retry, when nothing else is under way, and is
neither cancelled nor shut down (128,112 distinct states; without the bound they are some
seven million). Both refusals of `create_retry` are met there.

Bounds that exist only for TLC: `MaxSeq` (sequence numbers drawn by callbacks that
raise; 0 means no bound), `MaxDeltas` (token events per task) and `ThirdTaskIsAlone`. The code has no
such limits; the theorems hold for every value of them, or, where they speak of a
specification without the bound, for `MaxSeq = 0`.

In the tree (174,167 distinct states), `entries` of a session and `MaxLeaves` stand
for the 50 entries and the 3 notes
of the code: with two entries the cap drops entries that later ones refer to.
Three nodes make a graft that moves a node with a child, the smallest subtree in
which only the root of the move could be handled. All gestures on three nodes
are too many states, so a behaviour keeps to one session of `Sessions`: a set of
gestures, a number of new nodes and a length of the history, chosen at the start. The sessions combine
what touches the same data: notes with node Rings and prunes; grafts with undos,
with prunes, with late cards and with layer moves; failures with retries, notes and
reloads; plans with notes, prunes and grafts. A plan with two tasks, a note below and
three entries is where a node-level undo could reach through the plan's entry.

In `forest` (190,461) two projects are what it takes to be in the wrong one, and two
entries for an undo to reach across a switch. Again a behaviour keeps to one session:
node Rings with switches while two answers stream or notes are added and a
project is deleted; deletions with answers and reloads, with files, with transfers;
prunes and chosen nodes with reloads; files with removals; retries with undos, with
reloads and with the retry of an answer whose first request is still open; retries,
deletions and undos with writes that fail. A question and a
note below it are the two nodes that the page's path needs to break.

In `routing` (268,908 distinct states) two tasks are routed again and again: a
finished task may be sent once more, so leases, permits and turns are used without
end. Two tasks and workers with one permit are enough for a full home worker, a line
at a semaphore, a route behind another in the health lock and a client that leaves
while it waits. Each policy comes with one setting of `refresh_health_on_every_route`
and with one flaky worker (`MCSetting`). The streaks of probes are kept up to the
larger threshold, which is all anything depends on.

In `delivery` (456,753) the three plans are: a question with a retry and a card, a stop and a
lost connection; two retries with a stop; and two nodes that share the stream. A third call on
one node is what it takes for a late event of one task to meet the request of the
next but one. `MaxDeltas` bounds the tokens of a task: one is
enough to be lost or to reach the wrong call.

In `planning` (228,785) the data and the interleavings are separate questions, so a
behaviour is of one world: `roots` compiles some 4,000 root texts, `nutrients` the
texts of knowledge files, `plans` judges some 3,000 replies; `session` has one
generation with every interruption, upload and edit; `again` a second generation
while the first still runs at the route; `refused` inputs over a limit and a
generation too many; `limits` three clients and a clock. The limits of the code
(40 nodes, depth 4, 8,000 characters and so on) are scaled to what a handful of
symbols can reach; that they are all reached is part of `RequestsAreExact` and
`PlansJudgedExactly`, whose mutants move single boundaries.

In `context` (161,063) a behaviour compiles one of the 9,460 questions of `MCQuestions`.
The 2,530 texts are all of
up to three lines over eleven (short and long words, headings of two levels, a fence with
and without info, rows and the separator of a table, a blank line), and those of four that
begin with a heading, a fence or a table: what is cut, the heading above it and what
follows. With chunks of 2 characters not even a fence fits, with 12 a heading leaves
little room, with 20 and 26 two blocks share a chunk. Three notes below two nodes of the path
with a budget for two make a note that fits after one that did not; two chunks
each of two texts are more than the budget and the number of chunks allow.

Deadlock is checked in the runs of the scheduler, of the tree and of the context (`Over` is
where a compilation has ended). It is off for the service, which stops
when all its tasks are over and the application has shut down; and for the page's
runs and the router's, which stop when the user has nothing left to do and the
requests are over. It is off for the workspace too: a page that cannot draw its path
stops, and a session without reloads ends there (`forest_page`).

### Fairness

Weak fairness only, and only for what asyncio schedules: the first step of a
handle, done callbacks, cleanup tasks, publications, waiters whose wait is over. Nobody
has to shut the application down (the fairness of the scheduler's turns leaves out the
step that begins it), and `EveryTaskEnds` speaks of the behaviours in which nobody does.
An execution ends because `asyncio.timeout` (main.py:391) bounds all its waits.
Nothing is assumed of clients: they need not submit, cancel or retry. Under
strict priority a background task can starve when interactive ones never stop
arriving; that every task ends (`EveryTaskEnds`) is checked for the finitely many
arrivals of the instance, which is all the code promises.

In `Router`, a probe answers (the HTTP client's timeout bounds it), the holder of the
lock goes on and an admitted request ends. In `EventDelivery`, the browser opens a
connection or reports its failure, the stream delivers, submissions and cancels are
answered, tasks end (that is `EveryTaskEnds` of the service). `EveryCallEnds` excepts a
call during which an open connection was lost: events of the gap are not replayed. In
`AuxoSession`, the route's handler goes on, a route times out at the latest when
its timer fires, a cancel is answered and the browser hands over a response. Nothing is
assumed of the user.

### Findings

`runtime_stop`: `shutdown()` treats a task whose handle exists but has not begun
as running. It cancels the handle; asyncio ends the coroutine without entering
`execute_task`; so nobody cancels the record, and the lifespan cancels only the
tasks that were still queued. The record stays `queued` for ever, without a
terminal event. `tests/test_scheduler.py:344-364` states that tasks accepted
before the shutdown end up cancelled. The test does not see it because its first
task has begun and its second is queued. The cancel handler (main.py:309-317)
treats the same situation correctly, by deciding the record before it cancels the
handle: `NoneForgotten`, and the part `DispatchedIsStartable` of
`ExecutionAgreement`.

`tree_retry`: a retried answer settles through `settleStreamedBranch`, which finds
the creation entry of its node and only saves (treeReducer.ts:473-475). No snapshot
in the history follows. An answer fails, the user adds a note below it, retries it
with success and undoes the note: the entry of the note holds its parent as it
was, so the failed answer is back and the new one gone. The comment at
treeReducer.ts:496-500 and the design document (Rings restore state correctly) say
otherwise; the two edits that do rewrite snapshots are checked by
`SnapshotsFollow`.

`delivery_stop`: useAIChat.ts:201 says of the abort after a cancel's response that
SSE normally settles the observer first. When it has, the node offers a retry at
once; if the user takes it before the response of the cancel is there,
`controllerStore.abort(nodeId)` aborts the controller the node has *now*, that of the
retry. The page shows the answer as stopped; the task of the retry was submitted
without a signal, runs, and is observed by nobody. The same happens when the response
comes first and the old task's late `cancelled` event binds to the retry by its key
(taskEventDispatcher.ts:64-69).

`forest_page`: after an undo, `applyPatch` checks that the selected node still exists
(treeReducer.ts:639), not that its ancestors do. A question is asked, a note is added below
it while it streams, which selects the note, and the answer ends: its creation
entry is now the newest of the history. One Undo takes the answer away and leaves the
selected note below nothing. `getContextPath`, called while the page is rendered
(app/app/page.tsx:109-112), throws; nothing catches it, and as the selection is
already saved, the page fails again after a reload. The comment of `applyPatch`
(treeReducer.ts:593-595) says that the selection is kept valid.

### Observations without a run

* SEED and DELETE_PROJECT file their entries under the project that was active before
  and name `root` among the nodes affected, an id all projects share. So the Rings of one
  project's root undo the creation, or the deletion, of *another* project.
* The entry of a SEED holds the new, empty project: undone and redone, the project comes
  back without the Nutrients and transfers it had, and its unfinished answers are lost.
  Removed Nutrients and transfers are in no history at all.
* The node chosen for a quote survives a switch (InspectorSidebar.tsx:52). The
  reducer refuses a node of the other project, but every project's root is `root`:
  the quoted root becomes that of the project the user is in.
* The comment of `persist` (treeReducer.ts:341-349) says that storage can never lag behind
  a committed transition. A retry begins with STREAM_BRANCH_UPDATE for a settled answer
  (app/app/page.tsx:256-261), which empties its text, clears its error and makes it
  streaming, and is not persisted; a reload before the retry is over brings the failed answer
  back, with its old text, where one during the first attempt leaves a stopped answer.
  Writes that fail are swallowed besides (storage.ts:69-71). `StoreFollows` says what
  holds.
* The dialog before a project is deleted says that this cannot be undone
  (ForestSidebar.tsx:155); Undo restores the project.

* A graft makes the cards of the moved subtree stale, so that nothing learned on the
  old path reaches a request on the new one (README.md:51). The Rings panel of one
  node can undo that graft while answers written later below the moved node stay: their
  cards remain valid on a path they were not written under. `CardsFitTheirPath` holds
  while the history is used in order, and says so.
* treeReducer.ts:956-959 says that, with node Rings stopped at the entry of a plan, a
  partial undo can never orphan task nodes. A partial *redo* can: a plan gives task A,
  an answer B is asked below the root, A is grafted below B, and the graft and B are
  undone, in order. Redo on A's own Rings takes the graft and not B's
  creation: A hangs below a B that the entry brings back and the root does not list.
  `PlansStandWhole` is therefore stated for sessions without grafts and prunes.
* A closed EventSource stays recorded as connected; a call after that waits for an
  event that cannot come. A third call on a node can be answered by the lost task of
  the second.
* The permit of a real worker is lost when its client leaves between the
  admission and the start of the response: `PermitsAccounted` counts such permits
  in `lost`, and they never come back.
* A submission of `runRuntimeTask` that is aborted, or whose response is lost, unreadable
  or an error sent after the record was written, leaves the task it created running
  (nextProxy.ts:82-95, 114-119: `latestTask` is still null), and the route answers an error
  over it; so does a cancel that is lost. `NoTaskAbandoned` speaks of tasks whose
  name is known: from there to the end of the task, or to its cancellation, nothing the
  browser, a timer or a poll does makes the route let go of it.
* A Nutrient with a chunk of white space only is refused although it fits every budget.
* The server bounds the whole body, `compileAuxoInput` the request alone: a request
  at the limit is compiled and then refused by the route.
* The limiter's fixed window lets twice the limit through around its end, and a full
  table forgets exhausted clients. `LimitHolds` states what is left of the
  promise: while the table holds all clients, at most twice the limit in any window.
* `handleConfirmAuxo` compiles the input again to see whether it drifted; if it no
  longer compiles, the exception is not caught and the preview stays without a
  message.
* A plan node named `root` is allowed by the pattern of plan identifiers and makes
  `assertPlanIsPreorder` recurse until the stack is full. The plan is refused all the
  same; the model gives no node that name.
* The manifest of a context documents `failed`, `incomplete`, `stale`, `missing` and
  `duplicate` as reasons of an exclusion (contextCompiler.ts:66-75); only `leaf` and
  `budget` are ever recorded.
* A heading that does not fit beside its subheading is shown by no chunk below that
  subheading: `ChunksDescribeThemselves` says which headings a chunk shows.

## 4. Proofs

TLAPS proves these for every value of the constants that satisfies the module's named
assumption (`SchedulerAssumption`, `RegistryAssumption`, `RouterAssumption`,
`WorkerAssumption`, `DeliveryAssumption`, `LimiterAssumption`, `TreeAssumption`, ...): any set of
tasks, calls, clients, workers or nodes, any text, any limit, any policy. `NoneAssumption`
says that "no snapshot" is not the record of a node. No theorem adds an assumption
of its own but `ServiceUsesScheduler`, which leaves out TLC's bound.

Two properties are proved and in no run: `QueueAgreement` (of the heap and the
dictionary) and `UsesSchedulerAsSpecified` (the service implements `SchedSpec`).

**The scheduler** (in `RuntimeProofs`)**.** None of the properties is inductive alone. The invariant
`SchedInv` adds to the checked ones:
* `SlotBound`: the queue and the slots are finite and the slots at most
  `MaxConcurrency`. `ConcurrencyBound` (theorem `ConcurrencyBounded`) follows with
  `SlotAccounting`, because every unfinished handle holds a slot. It and the theorem
  `TypeCorrect` are proved for every instance and therefore in no run.
* `Provenance`: what has been entered carries a sequence number, so it cannot be
  entered a second time and dispatched twice, which would break `SlotAccounting`;
  the queue is empty once shutdown has begun, and nothing was handed back before.
* `DrainProgress`: how far shutdown is: while it waits for handles, every handle
  is among the awaited ones, then none is left, then every pending cleanup is
  awaited. `QuiescentAfterShutdown` follows.

The step proof has one lemma per group of actions. The three actions that run the
dispatch loop are first brought to a common shape (`DispatchShape`), for which
`DispatchKeepsInv` is proved once. `ClosedToNewWork` (nothing starts once `shutdown` has
the lock) is an action property, follows from the invariant and the actions, and is in no
run. `NoQueueJumping` needs a second invariant, `OrderInv`: every number is below the
counter, and a task that is being entered by a callback that does not suspend holds
the latest. It speaks of the tasks outside `Suspending`; one whose callback suspends can
be overtaken.

**The registry** (in `RuntimeProofs`)**.** Every method but the two that create records writes one
record in place, in a bounded way (`Updates`); `UpdatesKeepInv` treats them all
at once and `CreationKeepsInv` the others.
`TerminalStaysFinal` and `RecordsCoherent` are proved only. `RegistryInitInv` and the
step lemma carry the results over to the service.

**The service** (`RuntimeProofs`)**.** It moves scheduler and registry only along their own
next-state relations (`ServiceUsesScheduler`, `ServiceUsesRegistry`), so `SchedInv`
and `RegistryInv` hold in it and come for free. `ExecutionAgreement` relates records,
coroutines, handles and leases, and is not inductive: whether a coroutine may decide
an outcome depends on how its handle was cancelled, and whether an outcome is still
to be announced on a publication that outlives the coroutine. `ServiceInv` adds that:
what a cancelled handle looks like at each stage, that a number in the queue belongs
to a queued record, that a publication is scheduled only for an outcome, and that a
stream is not closed before its publication has run. With it,
`CancelsAnswerTerminal` is a consequence, and the refinement of `TaskLifecycle` is a
step simulation, one lemma per group of actions: each maps to one abstract step
or to a stutter. `NoTaskForgotten` holds until somebody shuts the application down (a
shutdown is not taken back, `ClosingStays`): its step proof follows an accepted record from
the submission to the queue, from there to a fresh handle, and to the execution. A
submission that fails leaves a queued record too, but one that was never accepted. During
a shutdown the statement is false, which is the finding of `runtime_stop`.

**`RouterProofs`.** `WorkerInv` counts: the permits of a worker, those
held, those granted to a waiter that has not resumed, and those lost add up to its
concurrency, and the counters it reports are the sizes of the sets of requests they
stand for. Counting needs finite sets, so the invariant says that only finitely many
requests have begun. A waiter's grant is kept apart from its place in the line, since a
cancellation between the two must pass the permit on. `RouterInv` adds
who is in the line for the health lock and holds it, that the leases are exactly the
executions under way and are what the workers' loads count (`LeasesAccounted`), and for the two properties about time a distance that only
shrinks: how many turns away from the cursor a passed-over worker is, and the streak of
equal probes that a tracker's counters stand for. The latter is the refinement mapping
to `ServiceStatus`. `PoliciesKept` joins the account of the leases and the two promises of policies, each of
which has its own theorem (`LeasesAlwaysAccounted`, `BoundedPolicyIsBounded`,
`RoundRobinIsFair`).

**`DeliveryProofs`.** What happens to the page is a chain of operators on one record,
so most lemmas are about one operator and any record that satisfies `PageInv`:
`SettleKeeps`, `BindKeeps`, `ObservedKeeps`, `HandleKeeps`, `AbortKeeps`,
`RegisterKeeps` follow the calls in the source. `PageInv` strengthens `TablesAgree` by
what a call has at each stage of its life and by `CallsInTurn`: the chats of a node
follow each other. `DeliveryInv` ties the page to the network: nothing of a
call exists before it is sent, the last event of a task in flight says what became of it,
and a stop is about a chat of its own node. `StoppedSendsAreCancelled` then rests on
`OnlyTask`: as long as a question is on, no other task of its key exists,
so whatever event or answer aborts it speaks of its own task. For a retry that is false,
which is the finding of `delivery_stop`. The proofs use that every question is asked
on a node of its own, which `startBranch` sees to (`DeliveryAssumption`).

`StreamsAreWhole` (while no connection was lost, an answer on the page is all its task
published) rests on `TextInv`, which accounts for every token: those in the text
of a call and those in flight are together what its task has published; while the call is
not yet bound to its task, the task's first event is still in flight, ahead of all
its tokens, so none of them can arrive unheard; and after its last event nothing of a
task is in flight, so an answer has its whole text. Nothing is sent before the
stream is open. The tokens in flight are counted as a set of places in the stream:
sending adds a place (`Appended`), delivering shifts all places by one (`Delivered`, a
bijection), and every change of the page is one of a few that keep the account (`Hearing`,
`QuietKeeps`).

**`AuxoProofs`.** `LimiterInv`: while the table was never emptied, the window of each
client accounts for its requests of the last window, and those before it lie in one
window more; hence twice the limit. `RouteInv` says for each generation what the
route, its attempt and the server task can be at the same time; a step of one
generation leaves the others alone, so it is kept run by run (`OthersStand`). An answer over a
task that lives says that the task never had a name or that its cancellation failed.
`NoTaskAbandoned` is an action property: the steps by which the route lets go of a
named task are the poll that sees its end and the end of a cancellation.

**`ContextProofs`.** `ChunksFit` bounds chunks that are built in pieces, so
`ChunksInv` says what there is while a block is being split: the headings repeated
around it leave room for at least one character (`HeadRoom`, `RoomFits`), a table is split
by rows only if its head and bars leave room for a row, and the rows still to come lie in the block.
Each block read lies in the text (`BlockLies`). There is one lemma per way to split
(lines, rows, a row too long, words) and one for what a flush keeps (`FlushKeeps`). With it
the bound holds for every text, every size of chunk from one character on, and any
nesting of headings. The compiler's own steps leave the chunking alone.

**`TreeEditsProofs` and `TreeProofs`.** The reducer computes with loops over lists of
children, patches and entries. The library's induction cannot be instantiated, but an
induction over one particular set of numbers can be written out: `SetInduction`
proves that a set that has 0 and the successor of each of its members has every number,
from the well-ordering in the library, `RecursionExists` that a function given by its first
value and a step exists, and `ListInduction` is the form used for lists. With them
the lemmas say what a walk, a merge of children, a pruning and a replayed
entry give. The invariant `TreeInv` speaks of the *looks* of a node: what it is apart
from its children and its status. There is a set of looks seen so far, any two of one
node agree (`Agree`), and the tree and every snapshot in both directions of the history
show looks seen before, list no child twice and only nodes that were drawn. So
it holds whatever is undone in whatever order, by the Rings of the project or of a node,
which mix snapshots of different ages. `SnapshotsAreKept` then says that a snapshot of a
leaf follows the card of its node, `UnrelatedEdgesKept` (an action property) that undoing
or redoing an entry, in any order, leaves alone every edge the entry does not speak of, which
is the promise of `mergeTargetChildren`.

`PlansAreWhole` (`PlansStandWhole`) rests on `PlanInv`, an invariant of the sessions
without grafts and prunes. There every node has one parent for good (`Frame`), which the
tree and every snapshot agree with (`Placed`). Every entry of the history is the batch
of a plan (`Batch`) or a change that leaves the tasks where they are (`Plain`, `Mild`),
and one that speaks of a task at all concerns only tasks and nodes right below them
(`Near`). Either the tasks stand, every batch left to undo comes before all that speaks
of them, and none is left to redo (`Planned`); or they are gone, nothing to undo speaks of
them, and the only batch to redo comes before everything that does (`Withdrawn`). Node
Rings keep the second: the panel is never on a node near tasks that are away, because
such a node is not drawn (`DrawnAway`) and the Undo that takes a batch away shows the
whole history, so no panel stays open on one. Tasks that cannot come back, once the history is cut, are
forgotten (`Forgotten`), so that another plan can be applied.

**`ForestProofs`.** `HomesKept` is not inductive: the history holds snapshots of nodes
and of whole projects, and an undo puts them back. `WorkspaceInv` says of each
entry what `HomesKept` says of the projects (`EntryKept`): its nodes were made for the
project it is filed under, and a whole project in it has only what was made for
that project. It holds for both directions of the history and for the store. The record
`home` only grows, so what is kept stays kept (`KeptGrows`, `HistoryGrows`). The id of a
node or a file is never drawn twice; this is all the proofs assume of the user.

`StoreFollowsPage` (`StoreFollows`) compares two loads: that of the store, with the answers
of `streamed` made streaming again, and that of the page. A write that succeeds makes
them the same (`PersistFollows`), one that fails ends the promise until the next
succeeds. An update changes only nodes that streaming would hide anyhow
(`StreamedProjects`, `LoadedAlike`): here it matters that the answers of `streamed` are still
on the page and streaming, which the property says itself. A reload need not save
because restoring is idempotent (`RestoredProjects`); and there is an active project unless there
is none at all (`ActiveInv`), without which a load would choose another.

`SomethingInView` (`WorkspaceHolds`: there is a project in view unless there
is none at all, what is selected is one of its nodes, and every project has its root) needs `ViewInv` for the pruning: when a node in the
middle is taken away, the parent that is selected instead must not itself be pruned.
`ViewInv` says that one rank rises along every edge of every project, of the store and
of every snapshot in the history. Such a rank exists because no edit of
`Forest` moves a node: a new node gets a rank above its parent's, and all later
snapshots of it hang it below the same parent. With grafts (`TreeReducer`) there is none.

What is only model-checked:
* Liveness (`ShutdownFinishes`, `EveryTaskEnds`,
  `CancelsAreAnswered`, `RouteAnswers`, `EveryCallEnds`, `EveryGenerationReturns`) and
  everything else that needs fairness or ENABLED: the prover does not handle it.
* Of the tree: that it is one (`WellFormedTree`: the two halves of every edge agree
  and every node hangs below the root, while the history is used in order),
  `CardsFitTheirPath` and `HistoryReplays`. That replaying an entry
  meets the tree it was recorded in is a statement about the whole history: each entry's
  snapshots against the tree that all entries before it give. `TreeInv` and `PlanInv`
  have what does not depend on the order.
* `RequestsAreExact`, `PlansJudgedExactly`, `PlansFitTheirInput`: what the parsers and
  the validation of plans compute is recursion over texts and lists.
* `NothingLost` and `ChunksDescribeThemselves` read the pieces of all chunks in order,
  `ContextAccounted` sums and sorts lists. Each would take an induction over lists like
  those of `TreeEditsProofs`, about an operator several times as large.

## 5. Not modelled

* Texts, prompts, token counts, timings, HTTP headers and JSON. Control characters
  and the lengths of names in Auxo's validation; collisions of its fingerprint; the
  wording of its errors (499, 502, 504 are one failure).
* `record_provider_telemetry`, `set_result`, `set_response_latency`: fields no
  other code decides on.
* Threads: the registry's lock makes its methods atomic, and the service calls
  them from one loop.
* The parsing of upstream streams in the provider gateway and the workers; the mock's
  failure injection; the workers' traces, the 409 of a task received twice (the
  Runtime sends each task once), the prefix reset and the admin endpoints, which
  operators use on idle workers.
* `InProcessTaskRouter` (tests only) and the telemetry of routing decisions.
* The heartbeat of the event stream and several subscribers of one session; the
  unmounting of the page, where `closeAll` leaves an unopened connection's promise
  unsettled; answers the page cannot read. `EventDelivery` keeps the streamed text;
  that the tree shows it rather than the task's final `result` is `page.tsx`'s choice.
* The legacy routes under `app/api`, which only forward.
* The conversion of documents to Markdown (`nutrients.ts`, `nutrientMarkdown.ts`):
  formatting. How a chunk is scored against a question (`Score` takes any
  score), and the wording of the context's sections.
* Of the tree: BRANCH and SET_NODE_OFFSET, which nothing dispatches; the names of
  projects and planes; the layer in view. In `Forest`, grafts, cards and plans, and
  the files in IndexedDB. `ApplyAuxoPlan`
  writes one task or two; the check of its input is in `AuxoSession`. The limit of notes per node is checked
  by the code only where a note is added; a graft or a redo can exceed it, and no
  property speaks of it.
* Stored data of older schemas and damaged storage; layout and the landing page.

## 6. Plan

1. Done: scheduler, handles, registry, service, with proofs of the first three; the
   tree of one project with its history; router and workers; the page's event
   delivery; Auxo from the texts to the tree, with its route and limiter.
2. Done: proofs about the service and its refinements, the router and the workers, the
   page's event delivery, the limiter and the Auxo route.
3. Done: the context compiler with the chunking of texts, and the proof that no chunk
   is too long.
4. Done: several projects with their transfers, files and selection, and the proofs
   that they stay apart and that the store follows.
5. Done: the proofs about the operators of the tree and about its history in any order,
   about the tasks of plans, about the view of a workspace, and about the text of streamed
   answers.
6. Open: proofs for the tree while its history is used in order (an invariant that relates
   each entry to the tree before and after it); the page's crash repaired, as a variant to
   check.
