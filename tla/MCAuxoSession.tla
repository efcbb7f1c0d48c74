--------------------------- MODULE MCAuxoSession ---------------------------
(***************************************************************************)
(* Instance of AuxoSession for TLC.  The worlds ask one question each:     *)
(* many root texts, many Nutrient texts, many replies, one generation with *)
(* every interruption, a second one while the first still runs at the      *)
(* route, one too many, and the limiter.                                   *)
(***************************************************************************)
EXTENDS AuxoSession

CONSTANTS n1, n2

MCLook ==
  LET plain == PlainLine
      primary == [plain EXCEPT !.marker = "primary"]
  IN  [x |-> plain,                                             \* text
       q |-> primary,                                           \* 1. a question
       e |-> [plain EXCEPT !.marker = "parenthetical"],         \* a parenthetical question
       h |-> [plain EXCEPT !.heading = TRUE],                   \* # a heading
       Q |-> [primary EXCEPT !.heading = TRUE],                 \* # 1. a question
       E |-> [plain EXCEPT !.marker = "parenthetical", !.heading = TRUE],
       s |-> [primary EXCEPT !.label = "section", !.numeral = TRUE],
       b |-> [primary EXCEPT !.label = "bare"],                 \* 2. essay: a question
       B |-> [primary EXCEPT !.label = "bare", !.numeral = TRUE],
       a |-> [plain EXCEPT !.label = "answer"],                 \* an answer key
       f |-> [plain EXCEPT !.fence = [char |-> "tick", length |-> 3]],
       g |-> [plain EXCEPT !.fence = [char |-> "tick", length |-> 4]],
       r |-> [plain EXCEPT !.filler = TRUE],                    \* an empty table row
       w |-> [plain EXCEPT !.filler = TRUE, !.space = TRUE]]

Joined(lines) == FlattenSeq([i \in DOMAIN lines |-> IF i = 1 THEN <<lines[i]>> ELSE <<LF, lines[i]>>])
Lines(symbols, n) == UNION {[1..k -> symbols] : k \in 1..n}
RootTexts ==
  {Joined(l) : l \in Lines({"q", "e", "s", "a", "B", "x", "f"}, 4) \cup
                     [1..5 -> {"q", "e", "h", "a"}] \cup
                     Lines({"b", "Q", "e", "r"}, 4) \cup Lines({"f", "g", "q"}, 4) \cup Lines({"q", "e", "E"}, 4)}
  \cup {<<"w", "q", LF, "w">>, <<LF, "w">>, Joined([i \in 1..6 |-> "x"])}

Ready(text) == [ready |-> TRUE, text |-> text]
NutrientTexts == Lines({"x", "q", LF, CR}, 5) \cup {<<"x", LF, LF, LF, LF, LF, "x">>}
Nutrients == {n1 :> Ready(t) : t \in NutrientTexts} \cup
             {n1 :> Ready(<<"x", LF, "q">>) @@ n2 :> Ready(t) : t \in Lines({"q", "x", LF}, 4)}

PlanNode(id, parent, role, title, order, unit) ==
  [planId |-> id, parent |-> parent, role |-> role, title |-> title, order |-> order, unit |-> unit]
Reply(nodes) == [readable |-> TRUE, nodes |-> nodes]
Role == {"task", "task-group"}

\* Two nodes in every shape; names, parents, units and positions that do not
\* exist; three nodes in many shapes.
Pairs ==
  {Reply(<<PlanNode("p", p1, r1, "t", o1, u1), PlanNode("o", p2, r2, t2, o2, u2)>>) :
     p1 \in {RootId, "o"}, p2 \in {RootId, "p"}, r1, r2 \in Role, t2 \in {"T", "v"},
     o1 \in 0..2, o2 \in 1..2, u1 \in {None, 1, 2}, u2 \in {None, 1, 2}}
Odd ==
  {Reply(<<PlanNode("p", p1, "task", "t", 1, 1), PlanNode(id, RootId, "task", "v", o2, u2)>>) :
     id \in {"p", "o"}, p1 \in {RootId, "z"}, o2 \in 2..3, u2 \in 2..3}
Triples ==
  {Reply(<<PlanNode("p", ps[1], rs[1], "t", os[1], us[1]), PlanNode("o", ps[2], rs[2], "v", os[2], us[2]),
           PlanNode("m", ps[3], rs[3], "u", os[3], us[3])>>) :
     ps \in {RootId, "o"} \X {RootId, "p", "m"} \X {RootId, "p", "o"}, rs \in [1..3 -> Role],
     os \in {<<1, 2, 3>>, <<2, 1, 3>>, <<2, 3, 1>>, <<3, 2, 1>>},
     us \in {<<1, 2, None>>, <<None, 1, 2>>, <<1, None, 2>>, <<2, 1, None>>, <<None, None, None>>}}
Replies == Pairs \cup Odd \cup Triples \cup {Reply(<<>>), [readable |-> FALSE, nodes |-> <<>>]}

MCTitleKey == [t |-> "t", T |-> "t", u |-> "u", v |-> "v"]

Quiet == [roots |-> {<<"q">>}, start |-> {<<>>}, texts |-> <<>>, replies |-> {},
          edits |-> 0, runs |-> 0, faults |-> FALSE, others |-> {}, clock |-> 0]

One(parent) == <<PlanNode("p", RootId, "task-group", "t", 1, None), PlanNode("o", parent, "task", "v", 2, 1)>>
Four == [k \in 1..4 |-> PlanNode("p", RootId, "task", "t", k, None)]

Session ==
  [Quiet EXCEPT !.start = {n1 :> Ready(<<"x">>)}, !.texts = n2 :> <<"x">>, !.faults = TRUE,
                !.replies = {Reply(One("p")), Reply(One(RootId)), Reply(Four)}]

MCWorlds ==
  [roots |-> [Quiet EXCEPT !.roots = RootTexts],
   nutrients |-> [Quiet EXCEPT !.start = Nutrients],
   plans |-> [Quiet EXCEPT !.roots = {<<"q", LF, "q">>}, !.replies = Replies, !.runs = 1],
   session |-> [Session EXCEPT !.runs = 1, !.edits = 2],
   again |-> [Session EXCEPT !.runs = 2, !.start = {<<>>}, !.texts = <<>>],
   refused |-> [Quiet EXCEPT !.runs = 3, !.roots = {<<"q">>, [i \in 1..9 |-> "x"]},
                             !.start = {<<>>, n1 :> Ready([i \in 1..7 |-> "x"])}],
   limits |-> [Quiet EXCEPT !.others = Client \ {Page}, !.clock = 4]]
=============================================================================
