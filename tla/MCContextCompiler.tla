------------------------- MODULE MCContextCompiler -------------------------
(***************************************************************************)
(* Instance of ContextCompiler for TLC: texts of up to four lines, in      *)
(* chunks of several sizes, below a root alone; a tree with notes and       *)
(* transfers; and questions that choose among the chunks of two texts.      *)
(***************************************************************************)
EXTENDS ContextCompiler

Blank == [class |-> "blank", pipe |-> FALSE, mark |-> "none", run |-> 0, bare |-> FALSE,
          level |-> 0, begin |-> 1, size |-> 0, gaps |-> {}, cells |-> {}, columns |-> 0]
Words(size, gaps) == [Blank EXCEPT !.class = "plain", !.size = size, !.gaps = gaps]
Title(level, size) ==
    [Blank EXCEPT !.class = "heading", !.level = level, !.size = size, !.gaps = {level + 1}]
FenceLine(run, info) ==
    [Blank EXCEPT !.class = "fence", !.mark = "tick", !.run = run,
                  !.bare = (info = 0), !.size = run + info]
\* "|text" and "|---"
Row(size) == [Blank EXCEPT !.class = "plain", !.pipe = TRUE, !.size = size + 1,
                           !.cells = 2..(size + 1), !.columns = 1]
Separator == [Blank EXCEPT !.class = "separator", !.pipe = TRUE, !.size = 4,
                           !.cells = 2..4, !.columns = 1]

Alphabet == {Blank, Words(5, {3}), Words(12, {4, 8}), Words(11, {}), Title(1, 4),
             Title(2, 9), FenceLine(3, 0), FenceLine(3, 2), Row(2), Row(12), Separator}

\* All of up to three lines, and of four lines those that begin with a heading,
\* a fence or a table.
Texts == {t \in UNION {[1..n -> Alphabet] : n \in 1..3} :
             t[1].class # "blank" /\ t[Len(t)].class # "blank"}
LongTexts == {<<first, second, third, last>> :
                 first \in {Title(1, 4), Title(2, 9), Row(2), FenceLine(3, 0)},
                 second \in {Title(2, 9), Separator, Words(5, {3})},
                 third \in Alphabet, last \in Alphabet \ {Blank}}

CONSTANTS Mid, Stray, NoteX, NoteY, NoteZ

Node(kind, parent, children) ==
    [kind |-> kind, parent |-> parent, children |-> children, included |-> FALSE,
     size |-> 0, asks |-> TRUE, answers |-> TRUE, task |-> FALSE, refs |-> {}]
Note(parent, size, included) ==
    [Node("leaf", parent, <<>>) EXCEPT !.size = size, !.included = included]

\* The lines of a text one after the other.
Laid(text) ==
    LET begin[i \in DOMAIN text] ==
            IF i = 1 THEN 1 ELSE begin[i - 1] + text[i - 1].size + 1
    IN [i \in DOMAIN text |-> [text[i] EXCEPT !.begin = begin[i]]]

Nutrient(text, ready) == [text |-> Laid(text), ready |-> ready, overhead |-> 3]
Question(nodeMap, transfers, texts, active, at0, size) ==
    [project |-> [nodes |-> nodeMap, transfers |-> transfers, nutrients |-> texts,
                  active |-> active], selected |-> at0, chunkSize |-> size,
     best |-> IF Len(texts) > 1 THEN 2 ELSE 0]

RootOnly == [n \in {Root} |-> Node("root", None, <<>>)]

TextQuestions ==
    {Question(RootOnly, <<>>, <<Nutrient(t, TRUE)>>, {1}, Root, size) :
        t \in Texts \cup LongTexts, size \in {12, 20, 26}}
      \cup {Question(RootOnly, <<>>, <<Nutrient(t, TRUE)>>, {1}, Root, 2) :
        t \in {text \in Texts : Len(text) <= 2}}

\* A note below the root, two below Mid; Stray hangs from a node that is gone.
Tree(sizes, included) ==
    [n \in {Root, Mid, Stray, NoteX, NoteY, NoteZ} |->
        IF n = Root THEN Node("root", None, <<Mid, NoteX, Stray>>)
        ELSE IF n = Mid THEN Node("branch", Root, <<NoteY, NoteZ>>)
        ELSE IF n = Stray THEN Node("branch", None, <<>>)
        ELSE Note(IF n = NoteX THEN Root ELSE Mid, sizes[n], n \in included)]

TreeQuestions ==
    {Question(Tree(sizes, included), transfers, <<>>, {}, at0, 12) :
        sizes \in [{NoteX, NoteY, NoteZ} -> {0, 2, 3}], included \in SUBSET {NoteX, NoteY, NoteZ},
        transfers \in {<<>>, <<[source |-> NoteX, target |-> NoteX, pin |-> TRUE],
                               [source |-> Stray, target |-> Mid, pin |-> FALSE],
                               [source |-> None, target |-> Mid, pin |-> FALSE]>>},
        at0 \in {Root, Mid, Stray, NoteY}}

\* Two texts of two chunks each, and one that is not ready; Mid may be a task
\* planned from the first and from one that is gone.
ChunkQuestions ==
    {Question([n \in {Root, Mid} |->
                  IF n = Root THEN Node("root", None, <<Mid>>)
                  ELSE [Node("branch", Root, <<>>) EXCEPT !.task = planned, !.refs = {1, 4}]],
              <<>>, <<Nutrient(<<Words(first, {}), Blank, Words(12, {4, 8})>>, TRUE),
                      Nutrient(<<Words(11, {}), Blank, Words(second, {})>>, TRUE),
                      Nutrient(<<Words(5, {})>>, FALSE)>>,
              active, at0, 12) :
        planned \in BOOLEAN, at0 \in {Root, Mid}, active \in {{1, 2, 3}, {2}},
        first \in {5, 12}, second \in {5, 12}}

MCQuestions == TextQuestions \cup TreeQuestions \cup ChunkQuestions
=============================================================================
