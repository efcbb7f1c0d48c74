-------------------------- MODULE ContextCompiler --------------------------
(***************************************************************************)
(* How the context of a question is put together (contextCompiler.ts, with *)
(* the choice of nutrient chunks of nutrients.ts): the path from the root  *)
(* to the node the question is asked under, what was transferred from      *)
(* other branches, the notes on the path the user chose, and the chunks of *)
(* the active nutrients that match best, each within its budget.            *)
(*                                                                         *)
(* The loops of the code are followed one iteration at a time.  Of a text  *)
(* the model keeps its size, or only whether there is one; how well a      *)
(* chunk matches the question is any score.                                 *)
(*                                                                         *)
(* Questions    what may be compiled: a project, the node selected in it,  *)
(*              the size of chunks (DEFAULT_CHUNK_SIZE of the code) and the *)
(*              best score a chunk may have.                               *)
(* LeafBudget, NutrientBudget, MaxChunks   MAX_INCLUDED_LEAF_TEXT,          *)
(*              DEFAULT_NUTRIENT_BUDGET, DEFAULT_MAX_RELEVANT_CHUNKS.       *)
(***************************************************************************)
EXTENDS NutrientChunks, SequencesExt

CONSTANTS Questions, Root, None, LeafBudget, NutrientBudget, MaxChunks

ASSUME QuestionsAssumption ==
    \A q \in Questions :
        /\ q.chunkSize \in Nat \ {0}
        /\ \A i \in DOMAIN q.project.nutrients : IsText(q.project.nutrients[i].text)

VARIABLES
    question,    \* [project, selected, chunkSize, best], one of Questions
    phase,       \* the loop under way
    todo,        \* what that loop still has to look at
    path,        \* the nodes of the path, root first once it is complete
    pinned, crossed,   \* transfers with a section, by index
    notes, excluded,   \* notes included, and those left out with the reason
    leafRoom,    \* characters left for notes
    found,       \* the chunks of all nutrients: [nutrient, index, size]
    chosen,      \* the chunks that go into the context
    nutrientRoom, \* characters left for them
    scores       \* ghost: how well the chunks match

pathVars == <<path, pinned, crossed>>
leafVars == <<notes, excluded, leafRoom>>
selectVars == <<found, chosen, nutrientRoom, scores>>
compileVars == <<question, phase, todo, pathVars, leafVars, selectVars>>

nodes == question.project.nodes
nutrients == question.project.nutrients

\* resolveAnchorNode: the node the question is asked under.
AnchorNode ==
    LET n == question.selected
        p == nodes[n].parent
    IN IF nodes[n].kind # "leaf" THEN n
       ELSE IF p \in DOMAIN nodes /\ nodes[p].kind # "leaf" THEN p ELSE Root

CompilerInit ==
    /\ ChunkInit
    /\ question \in Questions
    /\ phase = "start" /\ todo = <<>> /\ path = <<>>
    /\ pinned = <<>> /\ crossed = <<>>
    /\ notes = <<>> /\ excluded = <<>> /\ leafRoom = LeafBudget
    /\ found = <<>> /\ chosen = <<>> /\ nutrientRoom = NutrientBudget
    /\ scores = <<>>

Enter(loop, list) == phase' = loop /\ todo' = list

-----------------------------------------------------------------------------
(* The path.                                                                *)

Begun ==
    /\ phase = "start"
    /\ IF Root \in DOMAIN nodes /\ question.selected \in DOMAIN nodes
       THEN Enter("path", <<AnchorNode>>)
       ELSE Enter("refused", <<>>)
    /\ UNCHANGED <<question, pathVars, leafVars, selectVars, chunkVars>>

\* getContextPath, towards the root.
Climb ==
    LET n == Head(todo) IN
    /\ phase = "path"
    /\ IF n \in ToSet(path) \/ n \notin DOMAIN nodes
       THEN Enter("refused", <<>>) /\ UNCHANGED path
       ELSE /\ path' = <<n>> \o path
            /\ IF nodes[n].parent # None THEN Enter("path", <<nodes[n].parent>>)
               ELSE IF n = Root
               THEN Enter("transfers", [i \in DOMAIN question.project.transfers |-> i])
               ELSE Enter("refused", <<>>)
    /\ UNCHANGED <<question, pinned, crossed, leafVars, selectVars, chunkVars>>

-----------------------------------------------------------------------------
(* collectApplicableTransfers.                                              *)

Speaks(n) == nodes[n].asks \/ (nodes[n].answers /\ nodes[n].kind # "root")

TakeTransfer ==
    LET i == Head(todo)
        t == question.project.transfers[i]
        usable == t.source \in DOMAIN nodes /\ Speaks(t.source)
    IN
    /\ phase = "transfers" /\ todo # <<>>
    /\ todo' = Tail(todo)
    /\ pinned' = IF t.pin /\ usable THEN Append(pinned, i) ELSE pinned
    /\ crossed' = IF ~t.pin /\ t.target = AnchorNode /\ usable
                  THEN Append(crossed, i) ELSE crossed
    /\ UNCHANGED <<question, phase, path, leafVars, selectVars, chunkVars>>

EndTransfers ==
    /\ phase = "transfers" /\ todo = <<>>
    /\ Enter("leaves", FlattenSeq([i \in DOMAIN path |-> nodes[path[i]].children]))
    /\ UNCHANGED <<question, pathVars, leafVars, selectVars, chunkVars>>

-----------------------------------------------------------------------------
(* collectIncludedLeaves.                                                   *)

IsNote(c) == c \in DOMAIN nodes /\ nodes[c].kind = "leaf"
Seen(c) == c \in ToSet(notes) \/ \E e \in ToSet(excluded) : e.node = c

\* Mutant: the first note that does not fit ends the loop.
RestAfterNone(c) == IF nodes[c].size > leafRoom THEN <<>> ELSE Tail(todo)

\* A note that does not fit is left out and the next ones are tried.
RestAfter(c) == Tail(todo)

LeaveOut(c, reason) ==
    excluded' = Append(excluded, [node |-> c, reason |-> reason])
        /\ UNCHANGED <<notes, leafRoom>>

TakeLeaf ==
    LET c == Head(todo) IN
    /\ phase = "leaves" /\ todo # <<>>
    /\ IF ~IsNote(c) \/ Seen(c)
       THEN todo' = Tail(todo) /\ UNCHANGED leafVars
       ELSE IF ~nodes[c].included
       THEN todo' = Tail(todo) /\ LeaveOut(c, "leaf")
       ELSE IF nodes[c].size = 0
       THEN todo' = Tail(todo) /\ UNCHANGED leafVars
       ELSE IF nodes[c].size > leafRoom
       THEN todo' = RestAfter(c) /\ LeaveOut(c, "budget")
       ELSE /\ todo' = Tail(todo)
            /\ notes' = Append(notes, c)
            /\ leafRoom' = leafRoom - nodes[c].size
            /\ UNCHANGED excluded
    /\ UNCHANGED <<question, phase, pathVars, selectVars, chunkVars>>

\* The nutrients of the plan the nearest task on the path was generated from,
\* or those the user has active; only ready ones with a text have chunks.
Wanted ==
    LET tasks == {i \in DOMAIN path : nodes[path[i]].task} IN
    IF tasks = {} THEN question.project.active
    ELSE UNION {nodes[path[i]].refs : i \in {j \in tasks : \A k \in tasks : k <= j}}

EndLeaves ==
    /\ phase = "leaves" /\ todo = <<>>
    /\ Enter("chunks", SelectSeq([i \in DOMAIN nutrients |-> i],
                LAMBDA i : i \in Wanted /\ nutrients[i].ready))
    /\ UNCHANGED <<question, pathVars, leafVars, selectVars, chunkVars>>

-----------------------------------------------------------------------------
(* selectRelevantNutrientChunks.                                            *)

ChunkNext ==
    /\ phase = "chunks" /\ todo # <<>>
    /\ lines = <<>>
    /\ \E i \in DOMAIN nutrients :
          i = Head(todo) /\ ChunkNutrientText(nutrients[i].text, question.chunkSize)
    /\ UNCHANGED compileVars

Chunking ==
    /\ phase = "chunks"
    /\ ChunkStep
    /\ UNCHANGED compileVars

\* The chunks of a nutrient join those of the nutrients before it.
Chunked ==
    /\ phase = "chunks" /\ lines # <<>> /\ PackingDone
    /\ found' = found \o [i \in DOMAIN chunks |->
                   [nutrient |-> Head(todo), index |-> i, size |-> chunks[i].size]]
    /\ lines' = <<>> /\ reading' = 1 /\ blocks' = <<>> /\ at' = 1
    /\ headings' = <<>> /\ chunks' = <<>>
    /\ UNCHANGED <<limit, current, hasBody, rest>>
    /\ todo' = Tail(todo)
    /\ UNCHANGED <<question, phase, pathVars, leafVars, chosen, nutrientRoom, scores>>

\* The chunks that match, best first; if none does, the first of each nutrient.
Candidates(score) ==
    LET matching == {i \in DOMAIN found : score[i] > 0}
        better(i, j) == score[i] > score[j] \/ (score[i] = score[j] /\ i < j)
    IN IF matching # {} THEN SetToSortSeq(matching, better)
       ELSE SelectSeq([i \in DOMAIN found |-> i], LAMBDA i : found[i].index = 1)

Score ==
    /\ phase = "chunks" /\ todo = <<>>
    /\ \E score \in [DOMAIN found -> 0..question.best] :
          /\ Enter("select", Candidates(score))
          /\ scores' = score
    /\ UNCHANGED <<question, pathVars, leafVars, found, chosen, nutrientRoom, chunkVars>>

Estimate(i) == found[i].size + nutrients[found[i].nutrient].overhead

SelectChunk ==
    LET i == Head(todo)
        fits == Estimate(i) <= nutrientRoom
    IN
    /\ phase = "select" /\ todo # <<>> /\ Len(chosen) < MaxChunks
    /\ todo' = Tail(todo)
    /\ chosen' = IF fits THEN Append(chosen, i) ELSE chosen
    /\ nutrientRoom' = IF fits THEN nutrientRoom - Estimate(i) ELSE nutrientRoom
    /\ UNCHANGED <<question, phase, pathVars, leafVars, found, scores, chunkVars>>

Compiled ==
    /\ phase = "select"
    /\ todo = <<>> \/ Len(chosen) >= MaxChunks
    /\ Enter("compiled", <<>>)
    /\ UNCHANGED <<question, pathVars, leafVars, selectVars, chunkVars>>

Over == phase \in {"compiled", "refused"} /\ UNCHANGED <<chunkVars, compileVars>>

CompilerNext ==
    \/ Begun \/ Climb
    \/ TakeTransfer \/ EndTransfers \/ TakeLeaf \/ EndLeaves
    \/ ChunkNext \/ Chunking \/ Chunked
    \/ Score \/ SelectChunk \/ Compiled
    \/ Over

CompilerSpec == CompilerInit /\ [][CompilerNext]_<<chunkVars, compileVars>>

-----------------------------------------------------------------------------
(* Properties.                                                              *)

Total(list, size(_)) == FoldLeft(LAMBDA sum, x : sum + size(x), 0, list)

\* A list chosen greedily from candidates within a budget: what was left out
\* does not fit beside what was chosen before it.
GreedyWithin(chosenOnes, candidates, size(_), budget) ==
    /\ Total(chosenOnes, size) <= budget
    /\ \A i \in DOMAIN candidates : candidates[i] \notin ToSet(chosenOnes) =>
          size(candidates[i]) + Total(SelectSeq(SubSeq(candidates, 1, i),
              LAMBDA c : c \in ToSet(chosenOnes)), size) > budget

\* The notes on the path the user chose are all in the context unless the budget
\* keeps them out, a note the user did not choose never is, and the manifest
\* accounts for each exactly once ("a candidate section that exceeds the
\* remaining budget is skipped and later candidates may still be included",
\* contextCompiler.ts:76-78).
NotesAccounted ==
    LET noteSize(c) == nodes[c].size
        onPath == SelectSeq(FlattenSeq([i \in DOMAIN path |-> nodes[path[i]].children]), IsNote)
        left(reason) == {e.node : e \in {x \in ToSet(excluded) : x.reason = reason}}
        texts == SelectSeq(onPath, LAMBDA c : nodes[c].included /\ nodes[c].size > 0)
    IN /\ GreedyWithin(notes, texts, noteSize, LeafBudget)
       /\ left("leaf") = {c \in ToSet(onPath) : ~nodes[c].included}
       /\ ToSet(texts) = ToSet(notes) \cup left("budget")
       /\ Len(notes) + Len(excluded) = Cardinality(ToSet(notes) \cup {e.node : e \in ToSet(excluded)})

\* The chunks are the best ones that fit: only of the nutrients the question may
\* use, only matching ones when one matches, best first, none left out that
\* fits beside the better ones.
BestChunksChosen ==
    LET allowed == {i \in DOMAIN found : found[i].nutrient \in Wanted
                                         /\ nutrients[found[i].nutrient].ready}
    IN /\ IsInjective(chosen) /\ ToSet(chosen) \subseteq allowed
       /\ Len(chosen) <= MaxChunks
       /\ \A i, j \in DOMAIN chosen : i < j => scores[chosen[i]] >= scores[chosen[j]]
       /\ Total(chosen, Estimate) <= NutrientBudget
       /\ \A i \in allowed \ ToSet(chosen) :
             \/ scores[i] = 0 /\ (found[i].index > 1 \/ \E j \in allowed : scores[j] > 0)
             \/ Len(chosen) = MaxChunks
             \/ Estimate(i) + Total(SelectSeq(chosen, LAMBDA c : scores[c] >= scores[i]),
                                    Estimate) > NutrientBudget

\* A context that was compiled follows the path from the root to the node the
\* question is asked under, and spends its budgets as promised.
ContextAccounted ==
    phase = "compiled" =>
        /\ path[1] = Root /\ path[Len(path)] = AnchorNode
        /\ \A i \in 2..Len(path) : nodes[path[i]].parent = path[i - 1]
        /\ NotesAccounted
        /\ BestChunksChosen
=============================================================================
