--------------------------- MODULE NutrientChunks ---------------------------
(***************************************************************************)
(* How the text of a nutrient is cut into chunks (nutrients.ts): the       *)
(* Markdown is read into blocks, and the blocks are packed into chunks of   *)
(* at most limit characters, each below the headings it stands under.      *)
(*                                                                         *)
(* A text is a sequence of lines; a position is that of a character in the *)
(* whole text, one newline between lines.  A line keeps what the code asks *)
(* of it: whether it opens a fence (class, mark, run), would close one     *)
(* (mark, run, bare), is a heading (level), separates the head of a table, *)
(* has a pipe; where it begins, its size, the columns that are white space, *)
(* and as a row of a table the columns that are text of a cell and the     *)
(* number of cells.                                                        *)
(* Texts are normalised and trimmed (normalizeMarkdown): they neither begin*)
(* nor end with a blank line and no line ends with a space.                *)
(*                                                                         *)
(* A piece of a block are its characters from..to, size long once a fence, *)
(* the head of its table or the bars of its row are written around them.   *)
(* A chunk is the headings it shows (the last one cut if it is alone and   *)
(* too long), then pieces; size is its length.                             *)
(***************************************************************************)
EXTENDS Integers, FiniteSets, SequencesExt

VARIABLES
    lines, limit, \* the text and the size a chunk may have
    reading,      \* the next line to read
    blocks,       \* the blocks read so far
    at,           \* the next block to pack
    headings,     \* the open headings, outermost first: blocks
    current, hasBody, \* the chunk being filled
    chunks,       \* the chunks so far
    rest          \* what remains of a block that is being split

chunkVars == <<lines, limit, reading, blocks, at, headings, current, hasBody,
               chunks, rest>>

Line == [class: {"blank", "fence", "heading", "separator", "plain"},
         pipe: BOOLEAN, mark: {"none", "tick", "tilde"}, run: Nat, bare: BOOLEAN,
         level: 0..6, begin: Nat, size: Nat, gaps: SUBSET Nat, cells: SUBSET Nat,
         columns: Nat]

\* A text: its lines one after the other.
IsText(t) ==
    /\ t \in Seq(Line)
    /\ \A i \in DOMAIN t :
          /\ t[i].cells \subseteq 1..t[i].size
          /\ t[i].begin = IF i = 1 THEN 1 ELSE t[i - 1].begin + t[i - 1].size + 1

-----------------------------------------------------------------------------
(* Positions.                                                               *)

Begin(i) == lines[i].begin
End(i) == lines[i].begin + lines[i].size - 1

White == {Begin(i) - 1 : i \in 2..Len(lines)}
           \cup UNION {{Begin(i) + c - 1 : c \in lines[i].gaps} : i \in DOMAIN lines}

\* from..to without the white space around it: one pair, none if all is white.
Trims(from, to) ==
    LET dark == (from..to) \ White IN
    {p \in dark \X dark : \A c \in dark : p[1] <= c /\ c <= p[2]}

-----------------------------------------------------------------------------
(* Blocks.                                                                  *)

ReadingDone == reading > Len(lines)

IsFenceClosing(line, opening) ==
    line.mark = opening.mark /\ line.run >= opening.run /\ line.bare

TableAt(i) == /\ i < Len(lines)
              /\ lines[i].pipe /\ lines[i + 1].class = "separator"

KindAt(i) ==
    IF lines[i].class \in {"fence", "heading"} THEN lines[i].class
    ELSE IF TableAt(i) THEN "table" ELSE "text"

Block == [kind: {"fence", "heading", "table", "text"}, first: Nat, last: Nat,
          from: Int, to: Int, level: Nat]

\* Whether line j still belongs to the block that begins at line i, all the
\* lines between belonging to it.
Belongs(i, j) ==
    LET kind == KindAt(i) IN
    \/ kind = "fence" /\ (j = i + 1 \/ ~IsFenceClosing(lines[j - 1], lines[i]))
    \/ kind = "table" /\ (j = i + 1 \/ (lines[j].class # "blank" /\ lines[j].pipe))
    \/ /\ kind = "text"
       /\ lines[j].class \notin {"blank", "fence", "heading"}
       /\ ~TableAt(j)

BlockEnds(i, j) ==
    /\ \A k \in (i + 1)..j : Belongs(i, k)
    /\ j < Len(lines) => ~Belongs(i, j + 1)

\* One iteration of the loop of parseMarkdownBlocks.
ReadBlank ==
    /\ ~ReadingDone
    /\ lines[reading].class = "blank"
    /\ reading' = reading + 1
    /\ UNCHANGED <<lines, limit, blocks, at, headings, current, hasBody, chunks, rest>>

ReadBlock ==
    /\ ~ReadingDone
    /\ lines[reading].class # "blank"
    /\ \E last \in reading..Len(lines) :
          /\ BlockEnds(reading, last)
          /\ \E p \in Trims(Begin(reading), End(last)) :
                blocks' = Append(blocks,
                    [kind |-> KindAt(reading), first |-> reading, last |-> last,
                     from |-> p[1], to |-> p[2], level |-> lines[reading].level])
          /\ reading' = last + 1
    /\ UNCHANGED <<lines, limit, at, headings, current, hasBody, chunks, rest>>

-----------------------------------------------------------------------------
(* Headings and chunks.                                                     *)

Empty == [heads |-> <<>>, body |-> <<>>, size |-> 0]
SizeOf(b) == blocks[b].to - blocks[b].from + 1

JoinMarkdown(left, piece) ==
    [heads |-> left.heads, body |-> Append(left.body, piece),
     size |-> IF left.size = 0 THEN piece.size ELSE left.size + 2 + piece.size]

\* Length of the headings hs[i], ... joined.
Joined(hs) ==
    LET from[i \in Nat] == IF i >= Len(hs) THEN SizeOf(hs[i])
                           ELSE SizeOf(hs[i]) + 2 + from[i + 1]
    IN from

HeadRoom == IF limit > 3 THEN limit - 3 ELSE 0

\* As many of the headings hs as fit, the deepest first; if none fits, as much
\* of the deepest as does.  (One value.)
FitHeadingContext(hs) ==
    LET size == Joined(hs)
        fits(i) == size[i] \in 1..HeadRoom
        deepest == blocks[hs[Len(hs)]]
    IN IF HeadRoom = 0 \/ hs = <<>> THEN {Empty}
       ELSE IF ~fits(Len(hs))
       THEN {[heads |-> <<hs[Len(hs)]>>, body |-> <<>>, size |-> p[2] - p[1] + 1] :
                p \in Trims(deepest.from, deepest.from + HeadRoom - 1)}
       ELSE {[heads |-> SubSeq(hs, i, Len(hs)), body |-> <<>>, size |-> size[i]] :
                i \in {j \in DOMAIN hs : /\ \A k \in j..Len(hs) : fits(k)
                                         /\ j = 1 \/ ~fits(j - 1)}}

FlushCurrent ==
    chunks' = IF current.size > 0 THEN Append(chunks, current) ELSE chunks

-----------------------------------------------------------------------------
(* Packing: the loop of chunkMarkdown.                                      *)

Nothing == [how |-> "nothing", from |-> 0, to |-> 0, row |-> 0]
PackingDone == ReadingDone /\ at > Len(blocks) /\ rest = Nothing /\ current.size = 0
NextBlock == ReadingDone /\ at <= Len(blocks) /\ rest = Nothing

\* Mutant: a heading of the same level stays open.
ClosesDeeper(b, h) == blocks[h].level > blocks[b].level

\* Heading b closes the open heading h.
Closes(b, h) == blocks[h].level >= blocks[b].level

\* A heading closes those of its level and below.
PackHeading ==
    /\ NextBlock
    /\ blocks[at].kind = "heading"
    /\ IF \/ hasBody
          \/ /\ headings # <<>>
             /\ Closes(at, headings[Len(headings)])
       THEN FlushCurrent ELSE UNCHANGED chunks
    /\ \E k \in 0..Len(headings) :
          /\ k > 0 => ~Closes(at, headings[k])
          /\ \A j \in (k + 1)..Len(headings) : Closes(at, headings[j])
          /\ headings' = Append(SubSeq(headings, 1, k), at)
          /\ current' \in FitHeadingContext(headings')
    /\ hasBody' = FALSE
    /\ at' = at + 1
    /\ UNCHANGED <<lines, limit, reading, blocks, rest>>

Whole(b) == [block |-> b, from |-> blocks[b].from, to |-> blocks[b].to, size |-> SizeOf(b)]

\* Mutant: the two newlines between the parts are not counted.
FitsUnjoined(piece) == current.size + piece.size <= limit

Fits(piece) == JoinMarkdown(current, piece).size <= limit

PackWhole ==
    /\ NextBlock
    /\ blocks[at].kind # "heading"
    /\ Fits(Whole(at))
    /\ current' = JoinMarkdown(current, Whole(at))
    /\ hasBody' = TRUE
    /\ at' = at + 1
    /\ UNCHANGED <<lines, limit, reading, blocks, headings, chunks, rest>>

\* What a piece may measure below the headings context.
Available(context) ==
    LET room == limit - context.size - (IF context.size > 0 THEN 2 ELSE 0) IN
    IF room > 1 THEN room ELSE 1

-----------------------------------------------------------------------------
(* Splitting a block.  splitMarkdownBlock splits once more what is still too *)
(* long; no piece is.                                                       *)

Plain(b) == [Nothing EXCEPT !.how = "plain", !.from = blocks[b].from, !.to = blocks[b].to]

\* Mutant: the last line is taken for the closing one.
FenceBodyUnread(b) ==
    [from |-> End(b.first) + 2,
     to |-> IF b.last > b.first THEN Begin(b.last) - 2 ELSE b.to]

\* splitFencedBlock: the body, and what is written around a piece of it.
FenceBody(b) ==
    LET closed == /\ b.last > b.first
                  /\ IsFenceClosing(lines[b.last], lines[b.first])
    IN [from |-> End(b.first) + 2, to |-> IF closed THEN Begin(b.last) - 2 ELSE b.to]

Wrapper(b, available) ==
    LET own == (End(b.first) - b.from + 1) + lines[b.first].run + 2
        body == FenceBody(b)
        needs == IF body.from <= body.to THEN 1 ELSE 0
    IN IF own + needs <= available THEN own
       ELSE IF 8 + needs <= available THEN 8 ELSE 0

\* splitTableBlock: the head is repeated above the rows of every piece.
TableHead(b) == End(b.first + 1) - b.from + 1
Rows(b) == (b.first + 2)..b.last
Oversize(b, r, available) == TableHead(b) + 1 + lines[r].size > available
CellRoom(b, r, available) == available - TableHead(b) - 1 - (3 * lines[r].columns + 1)
TableSplits(b, available) ==
    /\ TableHead(b) <= available
    /\ Rows(b) # {} => available - TableHead(b) - 1 > 0
    /\ \A r \in Rows(b) : Oversize(b, r, available) =>
          lines[r].columns > 0 /\ CellRoom(b, r, available) > 0

\* The rows of a table from row r on, all cells of it.
RowsFrom(r) == [how |-> "rows", from |-> 0, to |-> 0, row |-> r]

Splitting(i, available) ==
    LET b == blocks[i] IN
    IF b.kind = "fence" /\ Wrapper(b, available) > 0
    THEN [Nothing EXCEPT !.how = "code", !.from = FenceBody(b).from, !.to = FenceBody(b).to]
    ELSE IF b.kind = "table" /\ TableSplits(b, available)
    THEN RowsFrom(b.first + 2)
    ELSE Plain(i)

BeginSplit ==
    /\ NextBlock
    /\ blocks[at].kind # "heading"
    /\ ~Fits(Whole(at))
    /\ IF hasBody THEN FlushCurrent ELSE UNCHANGED chunks
    /\ hasBody' = FALSE
    /\ \E context \in FitHeadingContext(headings) :
          /\ current' = context
          /\ rest' = Splitting(at, Available(context))
    /\ UNCHANGED <<lines, limit, reading, blocks, at, headings>>

\* The next piece of the block, below the headings; the last one stays current.
\* current is the heading context while a block is split.
Emit(from, to, size, remaining) ==
    LET text == JoinMarkdown(current, [block |-> at, from |-> from, to |-> to, size |-> size])
    IN /\ rest' = remaining
       /\ IF remaining = Nothing
          THEN /\ current' = text
               /\ hasBody' = TRUE
               /\ at' = at + 1
               /\ UNCHANGED chunks
          ELSE /\ chunks' = Append(chunks, text)
               /\ UNCHANGED <<current, hasBody, at>>
       /\ UNCHANGED <<lines, limit, reading, blocks, headings>>

\* splitPlainText cuts at the last white space, unless it comes early.
CutAfter(from, available) ==
    LET breaks == {p \in 1..available : from + p \in White} IN
    {end \in 1..available :
        IF \E p \in breaks : p >= (6 * available) \div 10
        THEN end \in breaks /\ \A p \in breaks : p <= end
        ELSE end = available}

SplitPlainText ==
    LET room == Available(current) IN
    /\ rest.how = "plain"
    /\ IF rest.to - rest.from + 1 <= room
       THEN Emit(rest.from, rest.to, rest.to - rest.from + 1, Nothing)
       ELSE \E end \in CutAfter(rest.from, room) :
            \E p \in Trims(rest.from, rest.from + end - 1),
               q \in Trims(rest.from + end, rest.to) :
               Emit(p[1], p[2], p[2] - p[1] + 1,
                    [rest EXCEPT !.from = q[1], !.to = q[2]])

SplitCodeBody ==
    LET wrapper == Wrapper(blocks[at], Available(current))
        room    == Available(current) - wrapper
    IN
    /\ rest.how = "code"
    /\ IF rest.to - rest.from + 1 <= room
       THEN Emit(rest.from, rest.to, rest.to - rest.from + 1 + wrapper, Nothing)
       ELSE Emit(rest.from, rest.from + room - 1, room + wrapper,
                 [rest EXCEPT !.from = @ + room])

\* Rows from..to below the head.
RowsSize(b, from, to) == TableHead(b) + 1 + End(to) - Begin(from) + 1

AfterRow(b, r) ==
    IF r = b.last THEN Nothing ELSE RowsFrom(r + 1)

\* As many rows as fit, up to one that does not fit by itself.
SplitRows ==
    LET b == blocks[at]
        room == Available(current)
        fits(s) == RowsSize(b, rest.row, s) <= room
    IN
    /\ rest.how = "rows"
    /\ \E s \in Rows(b) :
          /\ rest.row <= s
          /\ \A r \in rest.row..s : ~Oversize(b, r, room) /\ fits(r)
          /\ s < b.last => Oversize(b, s + 1, room) \/ ~fits(s + 1)
          /\ Emit(Begin(rest.row), End(s), RowsSize(b, rest.row, s), AfterRow(b, s))

\* A table of a head alone.
SplitHead ==
    LET b == blocks[at] IN
    /\ rest.how = "rows"
    /\ Rows(b) = {}
    /\ Emit(b.from, End(b.first + 1), TableHead(b), Nothing)

\* splitTableRow: the text of the cells, in order, as much as fits each time.
SplitTableRow ==
    LET b    == blocks[at]
        r    == rest.row
        room == CellRoom(b, r, Available(current))
        left == {c \in lines[r].cells : c >= rest.from}
        bars == TableHead(b) + 1 + 3 * lines[r].columns + 1
    IN
    /\ rest.how = "rows"
    /\ r \in Rows(b) /\ Oversize(b, r, Available(current))
    /\ \/ /\ left = {}
          /\ Emit(Begin(r), Begin(r) - 1, bars, AfterRow(b, r))
       \/ \E from, to \in left :
          LET taken == {c \in left : c <= to} IN
          /\ \A c \in left : from <= c
          /\ Cardinality(taken) <= room
          /\ taken = left \/ Cardinality(taken) = room
          /\ Emit(Begin(r) + from - 1, Begin(r) + to - 1, bars + Cardinality(taken),
                  IF taken = left THEN AfterRow(b, r) ELSE [rest EXCEPT !.from = to + 1])

LastFlush ==
    /\ ReadingDone /\ at > Len(blocks) /\ rest = Nothing
    /\ current.size > 0
    /\ FlushCurrent
    /\ current' = Empty /\ hasBody' = FALSE
    /\ UNCHANGED <<lines, limit, reading, blocks, at, headings, rest>>

-----------------------------------------------------------------------------
(* chunkNutrientText begins with a text; texts that are not ready have no   *)
(* chunks.                                                                  *)

ChunkInit ==
    /\ lines = <<>> /\ limit = 1 /\ reading = 1 /\ blocks = <<>> /\ at = 1
    /\ headings = <<>> /\ current = Empty /\ hasBody = FALSE /\ chunks = <<>>
    /\ rest = Nothing

ChunkNutrientText(text, size) ==
    /\ PackingDone
    /\ lines' = text /\ limit' = size
    /\ reading' = 1 /\ blocks' = <<>> /\ at' = 1 /\ headings' = <<>>
    /\ current' = Empty /\ hasBody' = FALSE /\ chunks' = <<>>
    /\ rest' = Nothing

ChunkStep ==
    \/ ReadBlank \/ ReadBlock
    \/ PackHeading \/ PackWhole \/ BeginSplit
    \/ SplitPlainText \/ SplitCodeBody \/ SplitRows \/ SplitHead \/ SplitTableRow
    \/ LastFlush

-----------------------------------------------------------------------------
(* Properties.                                                              *)

Piece == [block: Nat, from: Int, to: Int, size: Int]
Chunk == [heads: Seq(Nat), body: Seq(Piece), size: Int]
Rest == [how: {"nothing", "plain", "code", "rows"}, from: Int, to: Int, row: Nat]

\* Every variable has its type.
ChunkTypeOK ==
    /\ IsText(lines) /\ limit \in Nat \ {0}
    /\ reading \in Nat \ {0} /\ at \in Nat \ {0}
    /\ blocks \in Seq(Block)
    /\ headings \in Seq(DOMAIN blocks)
    /\ current \in Chunk /\ chunks \in Seq(Chunk)
    /\ hasBody \in BOOLEAN
    /\ rest \in Rest

\* No chunk is longer than the limit, whatever had to be split and repeated
\* (docs: chunks of at most chunkSize characters), so that the budget of a
\* question can be spent on whole chunks.
ChunksFit ==
    /\ ChunkTypeOK
    /\ current.size <= limit
    /\ \A i \in DOMAIN chunks : chunks[i].size <= limit

\* The headings a block stands under, from the blocks alone.
PathTo(b) ==
    SetToSortSeq({h \in 1..(b - 1) :
        /\ blocks[h].kind = "heading"
        /\ \A k \in (h + 1)..(b - 1) :
              blocks[k].kind = "heading" => blocks[k].level > blocks[h].level}, <)

\* "Chunks stay self-describing" (nutrients.ts:107-113): a chunk shows the
\* headings above what it holds, as many as fit, and never holds blocks of two
\* sections.  And its size is the length of what it holds.
ChunksDescribeThemselves ==
    \A c \in ToSet(chunks) \cup {current} : \A i \in DOMAIN c.body :
        \E context \in FitHeadingContext(PathTo(c.body[i].block)) :
            /\ c.heads = context.heads
            /\ c.size + 2 = FoldLeft(LAMBDA sum, p : sum + p.size + 2, 0, c.body)
                              + context.size + (IF context.size > 0 THEN 2 ELSE 0)

\* What of a block has to be in some piece: the code in a fence, the cells of
\* the rows of a table, every other text.
Content(b) ==
    LET block == blocks[b] IN
    IF block.kind = "fence"
    THEN UNION {(Begin(k)..End(k)) \ White : k \in
            {j \in (block.first + 1)..block.last :
                j = block.last => ~IsFenceClosing(lines[j], lines[block.first])}}
    ELSE IF block.kind = "table"
    THEN UNION {{Begin(r) + c - 1 : c \in lines[r].cells} : r \in Rows(block)}
    ELSE (block.from..block.to) \ White

\* "Body blocks are never reordered or rewritten" (nutrients.ts:112): read and
\* packed, every line that is not blank is in one block, and every character
\* of a body is in one piece, in the order of the text.
NothingLost ==
    PackingDone =>
        LET pieces == FlattenSeq([i \in DOMAIN chunks |-> chunks[i].body]) IN
        /\ \A i \in DOMAIN lines : lines[i].class # "blank" =>
              Cardinality({b \in DOMAIN blocks : i \in blocks[b].first..blocks[b].last}) = 1
        /\ \A b \in DOMAIN blocks : blocks[b].kind # "heading" =>
              Content(b) \subseteq UNION {pieces[i].from..pieces[i].to : i \in DOMAIN pieces}
        /\ \A i \in 1..(Len(pieces) - 1) : pieces[i].to < pieces[i + 1].from
=============================================================================
