---------------------------- MODULE AuxoSession ----------------------------
(***************************************************************************)
(* A planning session: the dialog and its handlers, the request of the     *)
(* hook, the route that runs up to MaxAttempts server tasks for it, and    *)
(* the reducer that writes the plan into the tree.  The page decides on    *)
(* the state it last rendered (shown); the reducer works on the latest     *)
(* one (project).  Between them a Nutrient may arrive.                     *)
(*                                                                         *)
(* The dialog is modal: while it is open the user can only generate,       *)
(* confirm, discard or cancel.  The dispatches of a click are rendered     *)
(* before the next event, those of a finished upload later.                *)
(***************************************************************************)
EXTENDS AuxoPlanning, RateLimiter

CONSTANTS Page,        \* the client whose page this is
          Run,         \* uses of handleGenerateAuxo, numbered
          MaxAttempts,
          Envelope,    \* what surrounds a request in the body that is sent
          Worlds       \* [names of the worlds -> what may happen in each]

ASSUME SessionAssumption ==
  /\ Page \in Client /\ Run \subseteq Nat /\ {MaxAttempts, Envelope} \subseteq Nat \ {0}
  /\ \A w \in DOMAIN Worlds :
       /\ DOMAIN Worlds[w].texts \subseteq Nutrient
       /\ {Worlds[w].edits, Worlds[w].runs, Worlds[w].clock} \subseteq Nat
       /\ Worlds[w].faults \in BOOLEAN

VARIABLES world,   \* name of the world: texts, replies and the bounds of the environment
          project, \* the reducer's project
          shown,   \* the project as last rendered
          page,    \* the dialog
          call,    \* the hook's request of each run
          route,   \* the route's handling of it
          task,    \* the server task of the current attempt
          edits    \* bound: edits the user has made while the dialog was closed

sessionVars == <<world, project, shown, page, call, route, task, edits>>
vars == <<sessionVars, limiterVars>>

W == Worlds[world]
Closed == [open |-> FALSE, preview |-> None, error |-> FALSE]
InFlight == {r \in Run : call[r].stage = "waiting"}
RootEmpty(p) == ~p.children /\ p.generated = None

Init ==
  /\ LimiterInit
  /\ world \in DOMAIN Worlds
  /\ \E root \in W.roots, start \in W.start :
       project = [root |-> root, nutrients |-> start, active |-> SetToSeq(DOMAIN start),
                  children |-> FALSE, generated |-> None]
  /\ shown = project
  /\ page = Closed
  /\ call = [r \in Run |-> [stage |-> "idle", bundle |-> None]]
  /\ route = [r \in Run |-> [stage |-> "none", attempt |-> 0, answer |-> "none", plan |-> <<>>]]
  /\ task = [r \in Run |-> [state |-> "none", reply |-> None]]
  /\ edits = 0

-----------------------------------------------------------------------------
(* The reducer.                                                            *)

\* The nodes written for a plan: what was asked, verbatim where a unit is
\* claimed, and the children in the order of the plan.
GeneratedNodes(plan) ==
  [id \in IdsOf(plan) \cup {RootId} |->
     [prompt |-> IF id = RootId THEN None
                 ELSE LET n == Named(plan, id) IN IF n.source # None THEN n.source.text ELSE n.title,
      source |-> IF id = RootId THEN None ELSE Named(plan, id).source,
      children |-> [k \in DOMAIN ChildrenIn(plan, id) |-> ChildrenIn(plan, id)[k].planId]]]

Fits(reply, current) ==
  current # None /\ ValidateAuxoPlan(reply, current.request) = "accepted"
Written(p, reply, current) ==
  [p EXCEPT !.generated = GeneratedNodes(AcceptedPlan(reply, current.request))]

\* Mutant: the reducer trusts the page's check of the fingerprint.
ApplyAuxoPlanUnchecked(p, plan, bundle) ==
  LET apply(current, reply) ==
        IF RootEmpty(p) /\ Fits(reply, current) THEN Written(p, reply, current) ELSE p
  IN  apply(CompileAuxoInput(p), [readable |-> TRUE, nodes |-> plan])

\* Zero writes unless the plan fits the input as it is now.
ApplyAuxoPlan(p, plan, bundle) ==
  LET apply(current, reply) ==
        IF /\ RootEmpty(p) /\ Fits(reply, current)
           /\ current.fingerprint = bundle.fingerprint /\ current.refs = bundle.refs
        THEN Written(p, reply, current) ELSE p
  IN  apply(CompileAuxoInput(p), [readable |-> TRUE, nodes |-> plan])

-----------------------------------------------------------------------------
(* The page and its hook.                                                  *)

AuxoRootDrift(p, bundle) ==
  LET drifted(current) == current = None \/ current.fingerprint # bundle.fingerprint
  IN  ~RootEmpty(p) \/ drifted(CompileAuxoInput(p))

OpenAuxo ==
  /\ ~page.open /\ RootEmpty(shown)
  /\ page' = [Closed EXCEPT !.open = TRUE]
  /\ UNCHANGED <<world, project, shown, call, route, task, edits, limiterVars>>

\* The button reads "confirm" while a preview is shown.
MayGenerate == page.open /\ page.preview = None /\ InFlight = {}

GenerateRefused ==
  /\ MayGenerate /\ ~page.error
  /\ ~RootEmpty(shown) \/ CompileAuxoInput(shown) = None
  /\ page' = [page EXCEPT !.error = TRUE]
  /\ UNCHANGED <<world, project, shown, call, route, task, edits, limiterVars>>

Generate(r) ==
  /\ MayGenerate /\ r <= W.runs
  /\ \A q \in Run : call[q].stage = "idle" <=> q >= r
  /\ RootEmpty(shown)
  /\ \E bundle \in {CompileAuxoInput(shown)} \ {None} :
       call' = [call EXCEPT ![r] = [stage |-> "waiting", bundle |-> bundle]]
  /\ page' = [page EXCEPT !.error = FALSE]
  /\ route' = [route EXCEPT ![r].stage = "arriving"]
  /\ UNCHANGED <<world, project, shown, task, edits, limiterVars>>

\* Closing the dialog aborts the request; its promise settles in the same step.
CancelAuxo ==
  /\ page.open
  /\ page' = Closed
  /\ call' = [r \in Run |-> IF r \in InFlight THEN [call[r] EXCEPT !.stage = "over"] ELSE call[r]]
  /\ UNCHANGED <<world, project, shown, route, task, edits, limiterVars>>

ClientTimesOut(r) ==
  /\ W.faults /\ r \in InFlight
  /\ call' = [call EXCEPT ![r].stage = "over"]
  /\ page' = [page EXCEPT !.error = TRUE]
  /\ UNCHANGED <<world, project, shown, route, task, edits, limiterVars>>

\* The plan is validated again and the project looked at again.
ResponseArrives(r) ==
  /\ r \in InFlight /\ route[r].stage = "answered"
  /\ call' = [call EXCEPT ![r] = [stage |-> "over", bundle |-> None]]
  /\ route' = [route EXCEPT ![r].plan = <<>>]  \* the response is read
  /\ LET bundle == call[r].bundle
         plan == route[r].plan
         shows == /\ route[r].answer = "plan"
                  /\ ValidateAuxoPlan([readable |-> TRUE, nodes |-> plan], bundle.request) = "accepted"
                  /\ ~AuxoRootDrift(shown, bundle)
     IN  page' = IF shows THEN [page EXCEPT !.preview = [plan |-> plan, bundle |-> bundle]]
                 ELSE [page EXCEPT !.error = TRUE]
  /\ UNCHANGED <<world, project, shown, task, edits, limiterVars>>

DiscardAuxoPreview ==
  /\ page.preview # None
  /\ page' = [Closed EXCEPT !.open = TRUE]
  /\ UNCHANGED <<world, project, shown, call, route, task, edits, limiterVars>>

\* An input that no longer compiles makes the handler throw: nothing changes.
ConfirmDrifted ==
  /\ page.preview # None
  /\ AuxoRootDrift(shown, page.preview.bundle)
  /\ RootEmpty(shown) => CompileAuxoInput(shown) # None
  /\ page' = [page EXCEPT !.preview = None, !.error = TRUE]
  /\ UNCHANGED <<world, project, shown, call, route, task, edits, limiterVars>>

ConfirmAuxoPlan ==
  /\ page.preview # None
  /\ ~AuxoRootDrift(shown, page.preview.bundle)
  /\ project' = ApplyAuxoPlan(project, page.preview.plan, page.preview.bundle)
  /\ shown' = project'
  /\ page' = Closed
  /\ UNCHANGED <<world, call, route, task, edits, limiterVars>>

Render ==
  /\ shown # project
  /\ shown' = project
  /\ UNCHANGED <<world, project, page, call, route, task, edits, limiterVars>>

\* What the user does to the project while the dialog is closed.
Edit(p) ==
  /\ ~page.open /\ edits < W.edits
  /\ edits' = edits + 1
  /\ project' = p /\ shown' = p
  /\ UNCHANGED <<world, page, call, route, task, limiterVars>>

AskAtRoot == ~project.children /\ Edit([project EXCEPT !.children = TRUE])
UndoAtRoot == ~RootEmpty(project) /\ Edit([project EXCEPT !.children = FALSE, !.generated = None])
ToggleNutrient(n) ==
  /\ n \in DOMAIN project.nutrients /\ project.nutrients[n].ready
  /\ Edit([project EXCEPT !.active = IF Contains(@, n) THEN Remove(@, n) ELSE Append(@, n)])
RemoveNutrient(n) ==
  /\ n \in DOMAIN project.nutrients
  /\ Edit([project EXCEPT !.active = Remove(@, n),
                          !.nutrients = Restrict(@, DOMAIN @ \ {n})])

\* The conversion of a file ends: the dispatch is rendered later.
NutrientArrives(n) ==
  /\ n \in DOMAIN W.texts /\ n \notin DOMAIN project.nutrients
  /\ \E ready \in BOOLEAN :
       project' = [project EXCEPT
         !.nutrients = [m \in DOMAIN @ \cup {n} |->
                          IF m = n THEN [ready |-> ready, text |-> W.texts[n]] ELSE @[m]],
         !.active = IF ready THEN Append(@, n) ELSE @]
  /\ UNCHANGED <<world, shown, page, call, route, task, edits, limiterVars>>

-----------------------------------------------------------------------------
(* The route.                                                              *)

Answers(r, answer) == route' = [route EXCEPT ![r].stage = "answered", ![r].answer = answer]

PostsTask(r) ==
  /\ route' = [route EXCEPT ![r].stage = "posting", ![r].attempt = @ + 1]
  /\ task' = [task EXCEPT ![r] = [state |-> "sent", reply |-> None]]

\* The route bounds the whole body, compileAuxoInput only the request in it.
Acceptable(request) ==
  BodySize(request) + Envelope <= MaxBody /\ ValidateAuxoRequest(request)

RouteReceives(r) ==
  /\ route[r].stage = "arriving"
  /\ \/ Refuse(Page) /\ Answers(r, "error") /\ UNCHANGED task
     \/ /\ Admit(Page)
        /\ IF Acceptable(call[r].bundle.request) THEN PostsTask(r)
           ELSE Answers(r, "error") /\ UNCHANGED task
  /\ UNCHANGED <<world, project, shown, page, call, edits>>

\* runRuntimeTask: the answer to the submission, and a poll that sees the end.
PostReturns(r) ==
  /\ route[r].stage = "posting" /\ task[r].state \notin {"sent", "refused"}
  /\ route' = [route EXCEPT ![r].stage = "polling"]
  /\ UNCHANGED <<world, project, shown, page, call, task, edits, limiterVars>>

\* The submission is refused, or its response is lost, unreadable or an error
\* although the Runtime has taken the task: latestTask is still null, and
\* nothing is cancelled.
PostFails(r) ==
  /\ W.faults /\ route[r].stage = "posting"
  /\ Answers(r, "unnamed")
  /\ UNCHANGED <<world, project, shown, page, call, task, edits, limiterVars>>

PollSeesEnd(r) ==
  /\ route[r].stage = "polling" /\ task[r].state \in {"completed", "failed"}
  /\ LET request == call[r].bundle.request
         read == [task EXCEPT ![r].reply = None]  \* nobody looks at it again
     IN  \E verdict \in {IF task[r].state = "failed" THEN "invalid"
                         ELSE ValidateAuxoPlan(task[r].reply, request)} :
         \/ /\ verdict = "accepted"
            /\ route' = [route EXCEPT ![r].stage = "answered", ![r].answer = "plan",
                                      ![r].plan = AcceptedPlan(task[r].reply, request)]
            /\ task' = read
         \/ /\ verdict = "too large" /\ route[r].attempt < MaxAttempts
            /\ PostsTask(r)
         \/ /\ verdict = "invalid" \/ (verdict = "too large" /\ route[r].attempt = MaxAttempts)
            /\ Answers(r, "error") /\ task' = read
  /\ UNCHANGED <<world, project, shown, page, call, edits, limiterVars>>

\* Mutant: a failed poll is reported at once.
PollFailsUncancelled(r) ==
  /\ W.faults /\ route[r].stage = "polling"
  /\ Answers(r, "error")
  /\ UNCHANGED <<world, project, shown, page, call, task, edits, limiterVars>>

PollFails(r) ==
  /\ W.faults /\ route[r].stage = "polling"
  /\ route' = [route EXCEPT ![r].stage = "cancelling"]
  /\ UNCHANGED <<world, project, shown, page, call, task, edits, limiterVars>>

\* Mutant: the submission does not listen to the signal.
AbortsPollingOnly(r) ==
  /\ route[r].stage = "polling"
  /\ route' = [route EXCEPT ![r].stage = "cancelling"]
  /\ UNCHANGED <<world, project, shown, page, call, task, edits, limiterVars>>

\* The signal is raised.  A submission under way is given up like one that
\* fails: nobody knows whether it arrives.
Aborts(r) ==
  /\ \/ route[r].stage = "posting" /\ Answers(r, "unnamed")
     \/ route[r].stage = "polling" /\ route' = [route EXCEPT ![r].stage = "cancelling"]
  /\ UNCHANGED <<world, project, shown, page, call, task, edits, limiterVars>>

ClientGone(r) == call[r].stage = "over" /\ Aborts(r)
RouteTimesOut(r) == Aborts(r)

CancelEnds(r) ==
  /\ route[r].stage = "cancelling"
  /\ \/ /\ task' = [task EXCEPT ![r].state = IF @ = "live" THEN "cancelled" ELSE @]
        /\ Answers(r, "error")
     \/ W.faults /\ Answers(r, "uncancelled") /\ UNCHANGED task
  /\ UNCHANGED <<world, project, shown, page, call, edits, limiterVars>>

(* The Runtime behind it.                                                  *)

RuntimeAccepts(r) ==
  /\ task[r].state = "sent"
  /\ \E state \in {"live"} \cup (IF W.faults THEN {"refused"} ELSE {}) :
       task' = [task EXCEPT ![r].state = state]
  /\ UNCHANGED <<world, project, shown, page, call, route, edits, limiterVars>>

TaskEnds(r) ==
  /\ task[r].state = "live"
  /\ \/ \E reply \in W.replies : task' = [task EXCEPT ![r] = [state |-> "completed", reply |-> reply]]
     \/ task' = [task EXCEPT ![r].state = "failed"]
  /\ UNCHANGED <<world, project, shown, page, call, route, edits, limiterVars>>

(* Other clients of the route, and time.                                   *)

OtherRequest(c) ==
  /\ c \in W.others
  /\ Admit(c) \/ Refuse(c)
  /\ UNCHANGED sessionVars

TimePasses == now < W.clock /\ Tick /\ UNCHANGED sessionVars

-----------------------------------------------------------------------------

PageNext ==
  \/ OpenAuxo \/ GenerateRefused \/ CancelAuxo \/ DiscardAuxoPreview
  \/ ConfirmDrifted \/ ConfirmAuxoPlan \/ Render \/ AskAtRoot \/ UndoAtRoot
  \/ \E n \in Nutrient : ToggleNutrient(n) \/ RemoveNutrient(n) \/ NutrientArrives(n)
RunNext(r) ==
  \/ Generate(r) \/ ClientTimesOut(r) \/ ResponseArrives(r)
  \/ RouteReceives(r) \/ PostReturns(r) \/ PostFails(r) \/ PollSeesEnd(r) \/ PollFails(r)
  \/ ClientGone(r) \/ RouteTimesOut(r) \/ CancelEnds(r)
  \/ RuntimeAccepts(r) \/ TaskEnds(r)
Next == PageNext \/ (\E r \in Run : RunNext(r)) \/ (\E c \in Client : OtherRequest(c)) \/ TimePasses

\* The route takes up what arrives, its timers fire and its answers reach the
\* page.  Nothing is asked of the Runtime, of the user or of the page's timer.
Handles(r) ==
  /\ route[r].stage = "arriving"
  /\ \/ route' = [route EXCEPT ![r].stage = "posting", ![r].attempt = 1]
     \/ Answers(r, "error")
Resolves(r) ==
  /\ r \in InFlight /\ route[r].stage = "answered"
  /\ call' = [call EXCEPT ![r] = [stage |-> "over", bundle |-> None]]

Fairness == \A r \in Run :
  /\ WF_route(Handles(r)) /\ WF_vars(RouteTimesOut(r))
  /\ WF_vars(CancelEnds(r)) /\ WF_call(Resolves(r))

AuxoSpec == Init /\ [][Next]_vars /\ Fairness

-----------------------------------------------------------------------------
(* Reference definitions: the same questions answered another way.         *)

\* A text read from the top.  key: in an answer key; free: no numbered
\* question since the last boundary, so that "(1)" begins a unit.
QuestionStarts(t) ==
  LET after(st, s, answer, boundary, kind) ==
        [key |-> answer \/ (st.key /\ ~boundary),
         free |-> kind # "primary" /\ (boundary \/ st.free),
         starts |-> IF kind = "primary" \/ (kind = "parenthetical" /\ st.free)
                    THEN st.starts \cup {s} ELSE st.starts]
      boundary(l) == l.heading \/ IsGenericSectionLine(l) \/ IsAnswerSectionLine(l)
      keyed(st, l) == IsAnswerSectionLine(l) \/ (st.key /\ ~boundary(l))
      step(st, x) == after(st, x.at, IsAnswerSectionLine(x.look), boundary(x.look),
                           IF keyed(st, x.look) THEN "none" ELSE DetectTaskMarker(x.look))
  IN  FoldLeft(step, [key |-> FALSE, free |-> TRUE, starts |-> {}],
               SortSeq(SetToSeq(SplitSourceLines(t)), LAMBDA a, b : a.at < b.at)).starts

FitsBudgets(q) ==
  /\ Len(q.rootTask) \in 1..MaxRootChars
  /\ Len(q.units) <= MaxNodes /\ \A k \in DOMAIN q.units : Len(q.units[k].text) <= MaxUnitChars
  /\ Len(q.chunks) <= MaxChunks /\ TotalChars(q.chunks) <= MaxNutrientChars
  /\ \A k \in DOMAIN q.chunks : Solid(q.chunks[k].text) # {}
  /\ BodySize(q) <= MaxBody

\* The nodes in order, each with the path of those that are still open.
SoundPlan(nodes, units) ==
  LET at(k) == CHOOSE n \in ToSet(nodes) : n.order = k
      path[k \in 0..Len(nodes)] ==
        IF k = 0 THEN <<RootId>>
        ELSE IF ~Contains(path[k-1], at(k).parent) THEN <<>>
        ELSE SubSeq(path[k-1], 1, CHOOSE i \in DOMAIN path[k-1] : path[k-1][i] = at(k).parent)
             \o <<at(k).planId>>
      titles == {<<n.parent, TitleKey[n.title]>> : n \in ToSet(nodes)}
      derived == {k \in DOMAIN nodes : nodes[k].role = "task" /\ nodes[k].unit = None}
  IN  /\ Len(nodes) \in 1..MaxNodes
      /\ {n.order : n \in ToSet(nodes)} = 1..Len(nodes) /\ Cardinality(IdsOf(nodes)) = Len(nodes)
      /\ \A k \in 1..Len(nodes) :
           /\ Len(path[k]) \in 2..(MaxDepth + 1)
           /\ at(k).role = IF k < Len(nodes) /\ at(k+1).parent = at(k).planId THEN "task-group" ELSE "task"
           /\ at(k).role = "task-group" => at(k).unit = None
      /\ SelectSeq([k \in 1..Len(nodes) |-> at(k).unit], LAMBDA u : u # None)
           = [k \in DOMAIN units |-> units[k].unitId]
      /\ Cardinality(titles) = Len(nodes)
      /\ Cardinality({TitleKey[nodes[k].title] : k \in derived}) = Cardinality(derived)

\* The written tree, read depth first.
QuotedInOrder(tree) ==
  LET walk[id \in DOMAIN tree] ==
        (IF tree[id].source # None THEN <<tree[id].prompt>> ELSE <<>>) \o
        FlattenSeq([k \in DOMAIN tree[id].children |-> walk[tree[id].children[k]]])
  IN  walk[RootId]

-----------------------------------------------------------------------------
(* Properties.                                                             *)

\* What is sent for the project on the screen: every Nutrient arrives whole
\* although it is cut into chunks, every question outside fences and answer
\* keys begins a unit and nothing else does, and a unit loses nothing but
\* blank ends.  An input is refused for a budget or a blank chunk only, never
\* because compileAuxoInput broke a rule of validateAuxoRequest.
RequestsAreExact ==
  LET begin(u, doc) == Max({s \in LineStarts(doc) : s <= u.offset})
      end(u) == u.offset + Len(u.text)
      cut(doc, units, questions, sections) ==
        /\ {begin(u, doc) : u \in units} = questions
        /\ \A u \in units : \E stop \in
             {Min({x \in questions \cup sections \cup {Len(doc)} : x > begin(u, doc)})} :
               end(u) <= stop /\ \A i \in (end(u) + 1)..stop : doc[i] = LF \/ Look[doc[i]].filler
      exact(q, source, doc) ==
        /\ SourceDocument(q, source) = doc
        /\ cut(doc, {u \in ToSet(q.units) : u.source = source},
               QuestionStarts(doc), SectionBoundaries(SplitSourceLines(doc)))
      judged(q, compiled) ==
        /\ compiled <=> FitsBudgets(q)
        /\ compiled => \A n \in ToSet(shown.active) \cup {RootId} : \E doc \in
             {NormalizeSourceDocument(IF n = RootId THEN shown.root ELSE shown.nutrients[n].text)} :
               exact(q, n, doc)
  IN  page.open /\ InFlight = {} /\ RootEmpty(shown) /\ NutrientsReady(shown) =>
        judged(RequestOf(shown), CompileAuxoInput(shown) # None)

\* A reply is accepted exactly if its nodes, in their order, are the depth-first
\* walk of a tree whose leaves are the tasks, and its claims are the units in
\* the order of the source.
PlansJudgedExactly ==
  \A r \in Run : route[r].stage = "polling" /\ task[r].state = "completed" =>
    LET request == call[r].bundle.request
        reply == task[r].reply
    IN  ValidateAuxoPlan(reply, request) = "accepted"
          <=> reply.readable /\ SoundPlan(reply.nodes, request.units)

\* What is written into a tree was planned for exactly the input the project
\* has at that moment, on a root without children, and its tasks quote every
\* question of that input once and in order: no upload that ends between the
\* preview and the click, and no stale rendering, slips a plan in.
PlansFitTheirInput ==
  [][project.generated = None /\ project'.generated # None =>
       /\ ~project.children /\ page.preview # None
       /\ RequestOf(project) = page.preview.bundle.request
       /\ \E units \in {page.preview.bundle.request.units} :
            QuotedInOrder(project'.generated) = [k \in DOMAIN units |-> units[k].text]]_vars

\* The route knows the name of its task: latestTask is set and not yet over.
TaskNamed(r) == route[r].stage \in {"polling", "cancelling"}

\* A task whose name the route has learned is over when the route lets go of
\* it, to answer or to post the next attempt, however it was interrupted: it
\* ended by itself or was cancelled, unless the cancellation itself failed.
NoTaskAbandoned ==
  [][\A r \in Run : TaskNamed(r) /\ ~TaskNamed(r)' =>
       \/ task[r].state # "live" \/ task'[r].state = "cancelled"
       \/ route'[r].answer = "uncancelled"]_vars

\* As long as the table of clients does not overflow, no client is let through
\* more than twice the limit in any stretch of one window.
LimitHolds ==
  Cardinality({a.client : a \in admitted}) <= MaxEntries =>
    \A c \in Client, t \in 0..now :
      Cardinality({a \in admitted : a.client = c /\ a.at \in t..(t + WindowMs - 1)}) <= 2 * Limit

\* The dialog gets its answer by the timers of the route alone, even if the
\* Runtime never answers.
EveryGenerationReturns ==
  (\E r \in Run : call[r].stage = "waiting") ~> (\A r \in Run : call[r].stage # "waiting")
=============================================================================
