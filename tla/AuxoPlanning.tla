---------------------------- MODULE AuxoPlanning ----------------------------
(***************************************************************************)
(* The pure part of Auxo: what is read out of the root task and the        *)
(* Nutrients, what makes a request and when a plan is accepted.  A text is *)
(* a sequence of symbols; Look says how a line is read whose first visible *)
(* symbol it is, which is all the regular expressions of the code tell     *)
(* apart.  Offsets count from zero, as in the code.                        *)
(***************************************************************************)
EXTENDS Integers, SequencesExt

CONSTANTS LF, CR,     \* the two symbols that end lines
          Look,       \* [visible and space symbols -> how a line they begin is read]
          Nutrient,   \* names of knowledge files
          TitleKey,   \* [titles -> what is left when case and spacing are normalised]
          RootId,     \* "root" as the parent of a plan node
          None,
          MaxNodes, MaxDepth, MaxRootChars, MaxNutrientChars, MaxChunks,
          MaxUnitChars, MaxBody, TargetChunk

NoFence == [char |-> "", length |-> 0]
PlainLine == [marker |-> "none", label |-> "other", heading |-> FALSE, numeral |-> FALSE,
              fence |-> NoFence, space |-> FALSE, filler |-> FALSE]

ASSUME PlanningAssumption ==
  /\ LF # CR /\ {LF, CR} \cap DOMAIN Look = {}
  /\ \A s \in DOMAIN Look :
       /\ Look[s].marker \in {"none", "primary", "parenthetical"}
       /\ Look[s].label \in {"other", "section", "bare", "answer"}
       /\ Look[s].space => Look[s].filler
  /\ {MaxNodes, MaxDepth, MaxRootChars, MaxNutrientChars, MaxChunks, MaxUnitChars,
      MaxBody, TargetChunk} \subseteq Nat \ {0}

-----------------------------------------------------------------------------
(* Texts and lines.                                                        *)

IsSpace(s) == s \in {LF, CR} \/ Look[s].space
Solid(t) == {i \in DOMAIN t : ~IsSpace(t[i])}
Slice(t, from, to) == SubSeq(t, from + 1, to)
Sorted(S) == [k \in 1..Cardinality(S) |-> CHOOSE x \in S : Cardinality({y \in S : y < x}) = k - 1]
Sum(s) == FoldLeft(LAMBDA a, b : a + b, 0, s)

\* Outer white space goes; lead is how much of it was in front.
Strip(t) == IF Solid(t) = {} THEN [lead |-> Len(t), text |-> <<>>]
            ELSE [lead |-> Min(Solid(t)) - 1, text |-> SubSeq(t, Min(Solid(t)), Max(Solid(t)))]

LineEnds(t) ==
  FlattenSeq([i \in DOMAIN t |-> CASE t[i] = CR -> <<LF>>
                                   [] t[i] = LF /\ i > 1 /\ t[i-1] = CR -> <<>>
                                   [] OTHER -> <<t[i]>>])
NormalizeSourceDocument(t) == Strip(LineEnds(t)).text

LineStarts(t) == {s \in 0..(Len(t) - 1) : s = 0 \/ t[s] = LF}
EndOfLine(t, s) == Min({e \in s..Len(t) : e = Len(t) \/ t[e + 1] = LF})
LineAt(t, s) == Slice(t, s, EndOfLine(t, s))
LookOf(line) == IF Solid(line) = {} THEN PlainLine ELSE Look[line[Min(Solid(line))]]
ContentFree(line) == \A x \in ToSet(line) : Look[x].filler

\* A fence is closed by a marker of its own character at least as long.
FenceBehind(open, mark) ==
  IF open = NoFence THEN mark
  ELSE IF mark.char = open.char /\ mark.length >= open.length THEN NoFence ELSE open

ReadLine(read, s, l) ==
  [open |-> FenceBehind(read.open, l.fence),
   lines |-> IF read.open = NoFence /\ l.fence = NoFence
             THEN read.lines \cup {[at |-> s, look |-> l]} ELSE read.lines]

\* The lines outside code fences: where they begin and how they are read.
SplitSourceLines(t) ==
  FoldLeft(LAMBDA read, s : ReadLine(read, s, LookOf(LineAt(t, s))),
           [open |-> NoFence, lines |-> {}], Sorted(LineStarts(t))).lines

-----------------------------------------------------------------------------
(* Source units: the numbered questions of a text.                         *)

IsGenericSectionLabel(l) == l.label = "section" \/ (l.label = "bare" /\ (l.heading \/ l.numeral))
IsGenericSectionLine(l) == l.marker # "none" /\ IsGenericSectionLabel(l)
IsAnswerSectionLine(l) == l.label = "answer"
DetectTaskMarker(l) == IF IsGenericSectionLabel(l) THEN "none" ELSE l.marker

SectionBoundaries(lines) ==
  {x.at : x \in {y \in lines : \/ y.look.heading
                               \/ IsGenericSectionLine(y.look) \/ IsAnswerSectionLine(y.look)}}

\* An answer key lasts to the next boundary that is not one of its own.
InAnswerKey(s, lines) ==
  \E z \in lines :
    /\ IsAnswerSectionLine(z.look) /\ z.at <= s
    /\ \A b \in lines : z.at < b.at /\ b.at <= s /\ b.at \in SectionBoundaries(lines) =>
                          IsAnswerSectionLine(b.look)

Marked(lines, kind) ==
  {x.at : x \in {y \in lines : DetectTaskMarker(y.look) = kind /\ ~InAnswerKey(y.at, lines)}}

\* Mutant: any earlier boundary lets "(1)" begin a unit.
UnitStartsAfterAnyBoundary(lines) ==
  Marked(lines, "primary") \cup
    {s \in Marked(lines, "parenthetical") :
       (\E q \in Marked(lines, "primary") : q < s) => \E b \in SectionBoundaries(lines) : b < s}

\* "(1)" begins a unit where no numbered question precedes it, or none since
\* the last boundary.
UnitStarts(lines) ==
  Marked(lines, "primary") \cup
    {s \in Marked(lines, "parenthetical") :
       \A q \in Marked(lines, "primary") :
         q < s => \E b \in SectionBoundaries(lines) : q < b /\ b < s}

\* Blank lines and empty table rows at the end are dropped, then white space.
TrimSourceSpan(t, from, to) ==
  LET keep == {s \in LineStarts(t) : from <= s /\ s < to /\ (s = from \/ ~ContentFree(LineAt(t, s)))}
      trimmed(span) == [offset |-> from + span.lead, text |-> span.text]
  IN  trimmed(Strip(Slice(t, from, EndOfLine(t, Max(keep)))))

\* A unit ends where the next one or the next section begins.
ExtractAuxoSourceUnits(t, source) ==
  LET cut(begins, stops) ==
        [k \in DOMAIN begins |->
           [source |-> source] @@ TrimSourceSpan(t, begins[k], Min({x \in stops : x > begins[k]}))]
      units(lines) ==
        cut(Sorted(UnitStarts(lines)),
            UnitStarts(lines) \cup SectionBoundaries(lines) \cup {Len(t)})
  IN  units(SplitSourceLines(t))

-----------------------------------------------------------------------------
(* The request.                                                            *)

\* Lossless slices, cut behind a line end where one lies beyond 60 % of the target.
ChunkAuxoNutrientText(t, n) ==
  LET hard(o) == Min({Len(t), o + TargetChunk})
      ends(o) == {i \in 0..(hard(o) - 1) : t[i + 1] = LF /\ i > o + (TargetChunk * 6) \div 10}
      cut(o) == IF hard(o) < Len(t) /\ ends(o) # {} THEN Max(ends(o)) + 1 ELSE hard(o)
      from[o \in 0..Len(t)] ==
        IF o = Len(t) THEN <<>> ELSE <<[offset |-> o, text |-> Slice(t, o, cut(o))]>> \o from[cut(o)]
      named(slices) == [k \in DOMAIN slices |-> [nutrient |-> n, chunkId |-> k] @@ slices[k]]
  IN  named(from[0])

SourceDocument(r, source) ==
  IF source = RootId THEN r.rootTask
  ELSE FlattenSeq([k \in DOMAIN r.chunks |-> IF r.chunks[k].nutrient = source
                                             THEN r.chunks[k].text ELSE <<>>])
TotalChars(chunks) == Sum([k \in DOMAIN chunks |-> Len(chunks[k].text)])

ValidChunks(chunks) ==
  /\ Len(chunks) <= MaxChunks /\ TotalChars(chunks) <= MaxNutrientChars
  /\ \A k \in DOMAIN chunks :
       LET mine == SelectSeq(SubSeq(chunks, 1, k - 1), LAMBDA c : c.nutrient = chunks[k].nutrient)
       IN  /\ Solid(chunks[k].text) # {}
           /\ chunks[k].offset = TotalChars(mine)
           /\ \A i \in DOMAIN mine : mine[i].chunkId # chunks[k].chunkId

ValidUnits(r) ==
  /\ Len(r.units) <= MaxNodes
  /\ \A k \in DOMAIN r.units :
       LET u == r.units[k]
       IN  /\ u.order = k
           /\ u.text = Strip(u.text).text /\ u.text # <<>> /\ Len(u.text) <= MaxUnitChars
           /\ u.source = RootId \/ \E i \in DOMAIN r.chunks : r.chunks[i].nutrient = u.source
           /\ Slice(SourceDocument(r, u.source), u.offset, u.offset + Len(u.text)) = u.text
           /\ \A j \in 1..(k - 1) :
                /\ r.units[j].unitId # u.unitId
                /\ r.units[j].source = u.source =>
                     u.offset >= r.units[j].offset + Len(r.units[j].text)

ValidateAuxoRequest(r) ==
  /\ r.rootTask # <<>> /\ r.rootTask = Strip(r.rootTask).text /\ Len(r.rootTask) <= MaxRootChars
  /\ ValidChunks(r.chunks)
  /\ ValidUnits(r)

BodySize(r) == Len(r.rootTask) + TotalChars(r.chunks) + TotalChars(r.units)

\* A project is [root, nutrients, active]: the text of the root, the Nutrients
\* that are there and, in order, the enabled ones.  The order of a unit counts
\* on from the root through the Nutrients.
RequestOf(p) ==
  LET doc(n) == NormalizeSourceDocument(p.nutrients[n].text)
      counted(found) == [k \in DOMAIN found |-> [unitId |-> k, order |-> k] @@ found[k]]
      request(root, docs) ==
        [rootTask |-> root,
         chunks |-> FlattenSeq([i \in DOMAIN docs |-> ChunkAuxoNutrientText(docs[i], p.active[i])]),
         units |-> counted(ExtractAuxoSourceUnits(root, RootId) \o
                           FlattenSeq([i \in DOMAIN docs |-> ExtractAuxoSourceUnits(docs[i], p.active[i])]))]
  IN  request(NormalizeSourceDocument(p.root), [i \in DOMAIN p.active |-> doc(p.active[i])])

NutrientsReady(p) ==
  \A i \in DOMAIN p.active :
    /\ \A j \in 1..(i - 1) : p.active[j] # p.active[i]
    /\ p.active[i] \in DOMAIN p.nutrients
    /\ p.nutrients[p.active[i]].ready /\ Solid(p.nutrients[p.active[i]].text) # {}

\* None when the input is refused; the fingerprint is a hash of all of the
\* request and stands here for it (two requests are never taken for one).
CompileAuxoInput(p) ==
  LET bundle(r) == IF ValidateAuxoRequest(r) /\ BodySize(r) <= MaxBody
                   THEN [request |-> r, fingerprint |-> r, refs |-> p.active] ELSE None
  IN  IF NutrientsReady(p) THEN bundle(RequestOf(p)) ELSE None

-----------------------------------------------------------------------------
(* Plans.  A reply is the text a model returns: whether it can be read as  *)
(* a JSON object with exactly the agreed fields, and the nodes it lists.   *)

ByOrder(nodes) == SortSeq(nodes, LAMBDA a, b : a.order < b.order)
IdsOf(nodes) == {nodes[k].planId : k \in DOMAIN nodes}
Named(nodes, id) == CHOOSE n \in ToSet(nodes) : n.planId = id
ChildrenIn(nodes, id) == SelectSeq(ByOrder(nodes), LAMBDA n : n.parent = id)
IsTask(n) == n.role = "task"

NormalizablePlanNode(n, units) ==
  /\ n.role \in {"task", "task-group"}
  /\ n.unit # None => IsTask(n) /\ \E k \in DOMAIN units : units[k].unitId = n.unit

\* The source of a node is always rebuilt from the request.
NormalizePlanNode(n, units) ==
  [source |-> IF n.unit = None THEN None
              ELSE CHOOSE u \in ToSet(units) : u.unitId = n.unit] @@ n

Numbered(nodes) ==
  /\ \A i, j \in DOMAIN nodes : nodes[i].planId = nodes[j].planId => i = j
  /\ \A i, j \in DOMAIN nodes : nodes[i].order = nodes[j].order => i = j
  /\ \A i \in DOMAIN nodes : nodes[i].order \in 1..Len(nodes)

ParentsComeFirst(nodes) ==
  \A n \in ToSet(nodes) : n.parent # RootId =>
    n.parent \in IdsOf(nodes) /\ Named(nodes, n.parent).order < n.order

ResolveDepth(nodes) ==
  LET depth[id \in IdsOf(nodes)] ==
        IF Named(nodes, id).parent = RootId THEN 1 ELSE 1 + depth[Named(nodes, id).parent]
  IN  depth

TasksAreLeaves(nodes) == \A n \in ToSet(nodes) : IsTask(n) <=> ChildrenIn(nodes, n.planId) = <<>>

Preorder(nodes) ==
  LET walk[id \in IdsOf(nodes) \cup {RootId}] ==
        LET visit(children) == FlattenSeq([k \in DOMAIN children |->
                                 <<children[k].planId>> \o walk[children[k].planId]])
        IN  visit(ChildrenIn(nodes, id))
  IN  walk[RootId]
PlanIsPreorder(nodes) ==
  Preorder(nodes) = [k \in DOMAIN nodes |-> ByOrder(nodes)[k].planId]

TaskKey(n) == IF n.unit # None THEN <<"source", n.unit>> ELSE <<"derived", TitleKey[n.title]>>
NoDuplicateTasks(nodes) ==
  \A i, j \in DOMAIN nodes : i # j =>
    /\ ~(nodes[i].parent = nodes[j].parent /\ TitleKey[nodes[i].title] = TitleKey[nodes[j].title])
    /\ ~(IsTask(nodes[i]) /\ IsTask(nodes[j]) /\ TaskKey(nodes[i]) = TaskKey(nodes[j]))

AuxoPlanNodes(nodes) ==
  /\ Numbered(nodes)
  /\ ParentsComeFirst(nodes)
  /\ \A id \in IdsOf(nodes) : ResolveDepth(nodes)[id] <= MaxDepth
  /\ TasksAreLeaves(nodes)
  /\ PlanIsPreorder(nodes)
  /\ NoDuplicateTasks(nodes)
  /\ \E n \in ToSet(nodes) : IsTask(n)

\* Mutant: the order of the claims is not compared.
SourceUnitCoverageUnordered(nodes, units) ==
  {n.unit : n \in ToSet(nodes)} \ {None} = {units[k].unitId : k \in DOMAIN units}

SourceUnitCoverage(nodes, units) ==
  LET named(claims) == [k \in DOMAIN claims |-> claims[k].unit]
  IN  named(SelectSeq(ByOrder(nodes), LAMBDA n : IsTask(n) /\ n.unit # None))
        = [k \in DOMAIN units |-> units[k].unitId]

\* "too large" is the one verdict the route answers with a second attempt.
ValidateAuxoPlan(reply, r) ==
  IF ~ValidateAuxoRequest(r) \/ ~reply.readable \/ reply.nodes = <<>> THEN "invalid"
  ELSE IF Len(reply.nodes) > MaxNodes THEN "too large"
  ELSE IF /\ \A n \in ToSet(reply.nodes) : NormalizablePlanNode(n, r.units)
          /\ AuxoPlanNodes(reply.nodes)
          /\ SourceUnitCoverage(reply.nodes, r.units)
       THEN "accepted" ELSE "invalid"

AcceptedPlan(reply, r) ==
  [k \in DOMAIN reply.nodes |-> NormalizePlanNode(ByOrder(reply.nodes)[k], r.units)]
=============================================================================
