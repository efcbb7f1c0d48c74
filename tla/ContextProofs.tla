--------------------------- MODULE ContextProofs ---------------------------
(***************************************************************************)
(* Proof that no chunk of a nutrient is longer than its limit.             *)
(***************************************************************************)
EXTENDS ContextCompiler, SequenceTheorems, FiniteSetTheorems, TLAPS

-----------------------------------------------------------------------------
(* The invariant.                                                           *)

\* A block lies in the text, and a table has at least its head and separator.
BlockLies(b) ==
    /\ b.first \in DOMAIN lines /\ b.last \in DOMAIN lines
    /\ b.kind = "table" => b.first < b.last

\* While a block is split, current is the heading context: there is room left
\* for a piece.  A table that is split by rows can be.
SplitInv ==
    rest.how # "nothing" =>
        /\ at \in DOMAIN blocks
        /\ current.size \in 0..HeadRoom
        /\ rest.how = "rows" =>
              /\ blocks[at].kind = "table"
              /\ TableSplits(blocks[at], Available(current))
              /\ rest.row > blocks[at].first

ChunksInv ==
    /\ ChunksFit
    /\ \A b \in DOMAIN blocks : BlockLies(blocks[b])
    /\ SplitInv

-----------------------------------------------------------------------------
(* Sizes.                                                                   *)

\* The context leaves room for at least one character, and a piece that takes
\* the room makes a chunk of at most the limit.
LEMMA RoomFits ==
    ASSUME limit \in Nat \ {0}, NEW context \in Chunk,
           context.size \in 0..HeadRoom
    PROVE  /\ Available(context) \in Nat \ {0}
           /\ \A piece \in Piece : piece.size <= Available(context) =>
                 /\ JoinMarkdown(context, piece) \in Chunk
                 /\ JoinMarkdown(context, piece).size <= limit
<1>1. context.size \in Int /\ HeadRoom \in Int
  BY DEF HeadRoom, Chunk
<1>2. Available(context) \in Nat \ {0}
  BY <1>1 DEF Available, HeadRoom
<1>3. ASSUME NEW piece \in Piece, piece.size <= Available(context)
      PROVE  /\ JoinMarkdown(context, piece) \in Chunk
             /\ JoinMarkdown(context, piece).size <= limit
  <2>1. piece.size \in Int
    BY DEF Piece
  <2>2. context.body \in Seq(Piece) /\ Append(context.body, piece) \in Seq(Piece)
    BY DEF Chunk
  <2>3. JoinMarkdown(context, piece).size =
          IF context.size = 0 THEN piece.size ELSE context.size + 2 + piece.size
    BY DEF JoinMarkdown, Chunk
  <2>4. JoinMarkdown(context, piece) \in Chunk
    <3>1. (IF context.size = 0 THEN piece.size ELSE context.size + 2 + piece.size) \in Int
      BY <1>1, <2>1
    <3> QED BY <2>2, <3>1 DEF JoinMarkdown, Chunk
  <2>5. JoinMarkdown(context, piece).size <= limit
    BY <1>1, <1>3, <2>1, <2>3 DEF Available, HeadRoom
  <2> QED BY <2>4, <2>5
<1> QED BY <1>2, <1>3

\* Trimming makes nothing longer.
LEMMA TrimsInside ==
    ASSUME NEW from \in Int, NEW to \in Int, NEW p \in Trims(from, to)
    PROVE  p[1] \in from..to /\ p[2] \in from..to /\ p[1] <= p[2]
BY DEF Trims

\* The heading context is a chunk without a body that leaves room for a piece.
LEMMA ContextFits ==
    ASSUME ChunkTypeOK, NEW hs \in Seq(DOMAIN blocks), NEW c \in FitHeadingContext(hs)
    PROVE  c \in Chunk /\ c.size \in 0..HeadRoom
<1>1. HeadRoom \in Nat
  BY DEF HeadRoom, ChunkTypeOK
<1>2. Empty \in Chunk /\ Empty.size = 0
  BY EmptySeq DEF Empty, Chunk
<1>3. hs \in Seq(Nat)
  BY DEF ChunkTypeOK
<1>4. CASE HeadRoom = 0 \/ hs = <<>>
  BY <1>1, <1>2, <1>4 DEF FitHeadingContext
<1>5. CASE ~(HeadRoom = 0 \/ hs = <<>>)
  <2> DEFINE size == Joined(hs)
             deepest == blocks[hs[Len(hs)]]
  <2>1. Len(hs) \in DOMAIN hs /\ hs[Len(hs)] \in DOMAIN blocks
    <3>1. Len(hs) \in Nat /\ DOMAIN hs = 1..Len(hs) /\ Len(hs) # 0
      BY <1>5, EmptySeq
    <3>2. \A i \in DOMAIN hs : hs[i] \in DOMAIN blocks
      BY ElementOfSeq
    <3> QED BY <3>1, <3>2
  <2>2. deepest.from \in Int
    <3>1. blocks \in Seq(Block) /\ DOMAIN blocks = 1..Len(blocks)
      BY DEF ChunkTypeOK
    <3>2. blocks[hs[Len(hs)]] \in Block
      BY <2>1, <3>1, ElementOfSeq
    <3> QED BY <3>2 DEF Block
  <2>3. CASE ~(size[Len(hs)] \in 1..HeadRoom)
    <3>1. PICK p \in Trims(deepest.from, deepest.from + HeadRoom - 1) :
             c = [heads |-> <<hs[Len(hs)]>>, body |-> <<>>, size |-> p[2] - p[1] + 1]
      BY <1>5, <2>3 DEF FitHeadingContext
    <3>2. p[1] \in Int /\ p[2] \in Int /\ p[1] >= deepest.from
             /\ p[2] <= deepest.from + HeadRoom - 1 /\ p[1] <= p[2]
      BY <1>1, <2>2, TrimsInside
    <3>3. <<hs[Len(hs)]>> \in Seq(Nat) /\ <<>> \in Seq(Piece)
      BY <1>3, <2>1, EmptySeq DEF ChunkTypeOK
    <3> QED BY <1>1, <2>2, <3>1, <3>2, <3>3 DEF Chunk
  <2>4. CASE size[Len(hs)] \in 1..HeadRoom
    <3>1. PICK i \in DOMAIN hs :
             /\ size[i] \in 1..HeadRoom
             /\ c = [heads |-> SubSeq(hs, i, Len(hs)), body |-> <<>>, size |-> size[i]]
      <4> HIDE DEF size
      <4>1. c \in {[heads |-> SubSeq(hs, i, Len(hs)), body |-> <<>>, size |-> size[i]] :
                i \in {j \in DOMAIN hs : /\ \A k \in j..Len(hs) : size[k] \in 1..HeadRoom
                                         /\ j = 1 \/ ~(size[j - 1] \in 1..HeadRoom)}}
        BY <1>5, <2>4 DEF FitHeadingContext, size
      <4> QED BY <4>1
    <3>2. SubSeq(hs, i, Len(hs)) \in Seq(Nat) /\ <<>> \in Seq(Piece)
      BY <1>3, EmptySeq, SubSeqProperties
    <3> QED BY <1>1, <3>1, <3>2 DEF Chunk
  <2> QED BY <2>3, <2>4
<1> QED BY <1>4, <1>5

-----------------------------------------------------------------------------
(* Lines and blocks have numbers.                                           *)

\* A line has a place, a size and a number of columns; its cells are finitely many.
LEMMA LinesHaveNumbers ==
    ASSUME ChunkTypeOK, NEW i \in DOMAIN lines
    PROVE  /\ lines[i] \in Line
           /\ Begin(i) \in Nat /\ End(i) \in Int
           /\ lines[i].size \in Nat /\ lines[i].columns \in Nat
           /\ lines[i].run \in Nat /\ lines[i].level \in Nat
           /\ lines[i].cells \subseteq 1..lines[i].size
<1>1. lines \in Seq(Line) /\ DOMAIN lines = 1..Len(lines)
  BY DEF ChunkTypeOK, IsText
<1>2. lines[i] \in Line
  BY <1>1, ElementOfSeq
<1>3. lines[i].cells \subseteq 1..lines[i].size
  BY DEF ChunkTypeOK, IsText
<1> QED BY <1>2, <1>3 DEF Line, Begin, End

\* A block has a place; as a table it has a head, and its rows are lines.
LEMMA BlocksHaveNumbers ==
    ASSUME ChunksInv, NEW b \in DOMAIN blocks
    PROVE  /\ blocks[b] \in Block
           /\ b \in Nat \ {0}
           /\ blocks[b].from \in Int /\ blocks[b].to \in Int
           /\ Whole(b) \in Piece
           /\ blocks[b].first \in DOMAIN lines /\ blocks[b].last \in DOMAIN lines
           /\ DOMAIN lines \subseteq Nat
           /\ Rows(blocks[b]) \subseteq DOMAIN lines
           /\ blocks[b].kind = "table" => TableHead(blocks[b]) \in Int
<1>1. blocks \in Seq(Block) /\ DOMAIN blocks = 1..Len(blocks) /\ Len(blocks) \in Nat
  BY DEF ChunksInv, ChunksFit, ChunkTypeOK
<1>2. blocks[b] \in Block
  BY <1>1, ElementOfSeq
<1>3. BlockLies(blocks[b]) /\ ChunkTypeOK
  BY DEF ChunksInv, ChunksFit
<1>4. DOMAIN lines = 1..Len(lines) /\ Len(lines) \in Nat
  BY <1>3 DEF ChunkTypeOK, IsText
<1>5. Rows(blocks[b]) \subseteq DOMAIN lines
  BY <1>2, <1>3, <1>4 DEF Rows, BlockLies, Block
<1>6. ASSUME blocks[b].kind = "table"
      PROVE  TableHead(blocks[b]) \in Int
  <2>1. blocks[b].first + 1 \in DOMAIN lines
    BY <1>2, <1>3, <1>4, <1>6 DEF BlockLies, Block
  <2>2. End(blocks[b].first + 1) \in Int
    BY <1>3, <2>1, LinesHaveNumbers
  <2> QED BY <1>2, <2>2 DEF TableHead, Block
<1>7. Whole(b) \in Piece
  BY <1>1, <1>2 DEF Whole, SizeOf, Piece, Block
<1>8. b \in Nat \ {0} /\ DOMAIN lines \subseteq Nat
  BY <1>1, <1>4
<1>9. blocks[b].from \in Int /\ blocks[b].to \in Int
  BY <1>2 DEF Block
<1> QED BY <1>2, <1>3, <1>5, <1>6, <1>7, <1>8, <1>9 DEF BlockLies

\* Nothing is a remainder.
LEMMA NothingIsRest ==
    Nothing \in Rest /\ Nothing.how = "nothing"
BY DEF Nothing, Rest

-----------------------------------------------------------------------------
(* Reading.                                                                 *)

\* A blank line changes nothing but the place.
LEMMA ReadBlankKeeps ==
    ASSUME ChunksInv, ReadBlank
    PROVE  ChunksInv'
<1>1. reading' \in Nat \ {0}
  BY DEF ReadBlank, ChunksInv, ChunksFit, ChunkTypeOK
<1>2. UNCHANGED <<lines, limit, blocks, at, headings, current, hasBody, chunks, rest>>
  BY DEF ReadBlank
<1>3. ChunksFit'
  BY <1>1, <1>2 DEF ChunksInv, ChunksFit, ChunkTypeOK
<1>4. (\A b \in DOMAIN blocks : BlockLies(blocks[b]))'
  BY <1>2 DEF ChunksInv, BlockLies
<1>5. SplitInv'
  BY <1>2 DEF ChunksInv, SplitInv, HeadRoom, TableSplits, Available, TableHead, Rows,
              Oversize, CellRoom, End
<1> QED BY <1>3, <1>4, <1>5 DEF ChunksInv

\* A block that was read lies in the text; a table has taken its separator.
LEMMA ReadBlockKeeps ==
    ASSUME ChunksInv, ReadBlock
    PROVE  ChunksInv'
<1> USE DEF ChunksInv, ChunksFit
<1>1. UNCHANGED <<lines, limit, at, headings, current, hasBody, chunks, rest>>
  BY DEF ReadBlock
<1>2. PICK last \in reading..Len(lines) :
         /\ BlockEnds(reading, last)
         /\ \E p \in Trims(Begin(reading), End(last)) :
               blocks' = Append(blocks,
                   [kind |-> KindAt(reading), first |-> reading, last |-> last,
                    from |-> p[1], to |-> p[2], level |-> lines[reading].level])
         /\ reading' = last + 1
  BY DEF ReadBlock
<1>3. PICK p \in Trims(Begin(reading), End(last)) :
         blocks' = Append(blocks,
             [kind |-> KindAt(reading), first |-> reading, last |-> last,
              from |-> p[1], to |-> p[2], level |-> lines[reading].level])
  BY <1>2
<1> DEFINE new == [kind |-> KindAt(reading), first |-> reading, last |-> last,
                   from |-> p[1], to |-> p[2], level |-> lines[reading].level]
<1>4. /\ DOMAIN lines = 1..Len(lines) /\ Len(lines) \in Nat
      /\ reading \in DOMAIN lines /\ last \in DOMAIN lines
      /\ reading \in Nat /\ last \in Nat /\ reading <= last
  BY DEF ReadBlock, ReadingDone, ChunkTypeOK, IsText
<1>5. new \in Block
  <2>1. Begin(reading) \in Int /\ End(last) \in Int /\ lines[reading].level \in Nat
    BY <1>4, LinesHaveNumbers
  <2>2. p[1] \in Int /\ p[2] \in Int
    BY <2>1, TrimsInside
  <2>3. KindAt(reading) \in {"fence", "heading", "table", "text"}
    BY DEF KindAt
  <2> QED BY <1>4, <2>1, <2>2, <2>3 DEF Block
<1>6. KindAt(reading) = "table" => reading < last
  <2>1. SUFFICES ASSUME KindAt(reading) = "table", last = reading
                 PROVE  FALSE
    BY <1>4
  <2>2. TableAt(reading)
    BY <2>1 DEF KindAt
  <2>3. Belongs(reading, reading + 1)
    BY <2>1 DEF Belongs
  <2> QED BY <1>2, <1>4, <2>1, <2>2, <2>3 DEF BlockEnds, TableAt
<1>7. BlockLies(new)
  BY <1>4, <1>6 DEF BlockLies
<1> HIDE DEF new
<1>8. /\ blocks \in Seq(Block) /\ blocks' \in Seq(Block)
      /\ DOMAIN blocks = 1..Len(blocks) /\ Len(blocks) \in Nat
      /\ DOMAIN blocks' = 1..(Len(blocks) + 1)
      /\ \A b \in DOMAIN blocks : blocks'[b] = blocks[b]
      /\ blocks'[Len(blocks) + 1] = new
  BY <1>3, <1>5 DEF new, ChunkTypeOK
<1>9. ChunkTypeOK'
  <2>1. headings \in Seq(DOMAIN blocks')
    <3>1. headings \in Seq(DOMAIN blocks) /\ DOMAIN blocks \subseteq DOMAIN blocks'
      BY <1>8 DEF ChunkTypeOK
    <3> QED BY <3>1
  <2>2. reading' \in Nat \ {0}
    BY <1>2, <1>4
  <2> QED BY <1>1, <1>8, <2>1, <2>2 DEF ChunkTypeOK
<1>10. (\A b \in DOMAIN blocks : BlockLies(blocks[b]))'
  BY <1>1, <1>7, <1>8 DEF BlockLies
<1>11. SplitInv'
  <2>1. SUFFICES ASSUME rest.how # "nothing"
                 PROVE  SplitInv'
    BY <1>1 DEF SplitInv
  <2>2. at \in DOMAIN blocks /\ blocks'[at] = blocks[at] /\ at \in DOMAIN blocks'
    BY <1>8, <2>1 DEF SplitInv
  <2> QED BY <1>1, <2>2 DEF SplitInv, HeadRoom, TableSplits, Available, TableHead, Rows,
                            Oversize, CellRoom, End
<1> QED BY <1>1, <1>9, <1>10, <1>11

-----------------------------------------------------------------------------
(* Packing.                                                                 *)

\* What ends the chunk being filled keeps the chunks within the limit.
LEMMA FlushKeeps ==
    ASSUME ChunksInv, FlushCurrent \/ UNCHANGED chunks, UNCHANGED limit
    PROVE  /\ chunks' \in Seq(Chunk)
           /\ \A i \in DOMAIN chunks' : chunks'[i].size <= limit
<1> USE DEF ChunksInv, ChunksFit, ChunkTypeOK
<1>1. CASE chunks' = chunks
  BY <1>1
<1>2. CASE chunks' = Append(chunks, current)
  <2>1. /\ DOMAIN chunks = 1..Len(chunks) /\ DOMAIN chunks' = 1..(Len(chunks) + 1)
        /\ \A i \in DOMAIN chunks : chunks'[i] = chunks[i]
        /\ chunks'[Len(chunks) + 1] = current
        /\ Len(chunks) \in Nat
    BY <1>2
  <2>2. chunks' \in Seq(Chunk)
    BY <1>2
  <2>3. \A i \in DOMAIN chunks' : i \in DOMAIN chunks \/ i = Len(chunks) + 1
    BY <2>1
  <2>4. ASSUME NEW i \in DOMAIN chunks' PROVE chunks'[i].size <= limit
    BY <2>1, <2>3
  <2> QED BY <2>2, <2>4
<1> QED BY <1>1, <1>2 DEF FlushCurrent

\* A heading begins a chunk with its context.
LEMMA PackHeadingKeeps ==
    ASSUME ChunksInv, PackHeading
    PROVE  ChunksInv'
<1>1. UNCHANGED <<lines, limit, reading, blocks, rest>> /\ at' = at + 1 /\ hasBody' = FALSE
  BY DEF PackHeading
<1>2. /\ chunks' \in Seq(Chunk)
      /\ \A i \in DOMAIN chunks' : chunks'[i].size <= limit
  BY <1>1, FlushKeeps DEF PackHeading
<1>3. at \in DOMAIN blocks /\ rest = Nothing
  BY DEF PackHeading, NextBlock, ChunksInv, ChunksFit, ChunkTypeOK
<1>4. PICK k \in 0..Len(headings) :
         /\ headings' = Append(SubSeq(headings, 1, k), at)
         /\ current' \in FitHeadingContext(headings')
  BY DEF PackHeading
<1>5. headings' \in Seq(DOMAIN blocks)
  <2>1. headings \in Seq(DOMAIN blocks)
    BY DEF ChunksInv, ChunksFit, ChunkTypeOK
  <2>2. SubSeq(headings, 1, k) \in Seq(DOMAIN blocks)
    BY <2>1, SubSeqProperties
  <2> QED BY <1>3, <1>4, <2>2
<1>6. current' \in Chunk /\ current'.size \in 0..HeadRoom
  <2>1. PICK hs : hs = headings'
    OBVIOUS
  <2>2. hs \in Seq(DOMAIN blocks)
    BY <1>5, <2>1
  <2>3. PICK c \in FitHeadingContext(hs) : c = current'
    BY <1>4, <2>1
  <2> QED BY <2>2, <2>3, ContextFits DEF ChunksInv, ChunksFit
<1>7. current'.size <= limit
  BY <1>6 DEF HeadRoom, ChunksInv, ChunksFit, ChunkTypeOK
<1>8. at' \in Nat \ {0}
  BY <1>1 DEF ChunksInv, ChunksFit, ChunkTypeOK
<1>9. ChunksFit'
  BY <1>1, <1>2, <1>5, <1>6, <1>7, <1>8 DEF ChunksInv, ChunksFit, ChunkTypeOK
<1>10. (\A b \in DOMAIN blocks : BlockLies(blocks[b]))'
  BY <1>1 DEF ChunksInv, BlockLies
<1>11. SplitInv'
  BY <1>1, <1>3, NothingIsRest DEF SplitInv
<1> QED BY <1>9, <1>10, <1>11 DEF ChunksInv

\* A block that fits joins the chunk.
LEMMA PackWholeKeeps ==
    ASSUME ChunksInv, PackWhole
    PROVE  ChunksInv'
<1>1. /\ UNCHANGED <<lines, limit, reading, blocks, headings, chunks, rest>>
      /\ at' = at + 1 /\ hasBody' = TRUE
      /\ current' = JoinMarkdown(current, Whole(at))
      /\ JoinMarkdown(current, Whole(at)).size <= limit
  BY DEF PackWhole, Fits
<1>2. at \in DOMAIN blocks /\ rest = Nothing
  BY DEF PackWhole, NextBlock, ChunksInv, ChunksFit, ChunkTypeOK
<1>3. current' \in Chunk
  <2>1. Whole(at) \in Piece
    BY <1>2, BlocksHaveNumbers
  <2>2. PICK piece \in Piece : piece = Whole(at)
    BY <2>1
  <2>3. /\ current.heads \in Seq(Nat) /\ current.body \in Seq(Piece)
        /\ current.size \in Int /\ piece.size \in Int
    BY DEF ChunksInv, ChunksFit, ChunkTypeOK, Chunk, Piece
  <2>4. Append(current.body, piece) \in Seq(Piece)
    BY <2>3
  <2>5. (IF current.size = 0 THEN piece.size ELSE current.size + 2 + piece.size) \in Int
    BY <2>3
  <2> QED BY <1>1, <2>2, <2>3, <2>4, <2>5 DEF JoinMarkdown, Chunk
<1>4. at' \in Nat \ {0}
  BY <1>1 DEF ChunksInv, ChunksFit, ChunkTypeOK
<1>5. ChunksFit'
  BY <1>1, <1>3, <1>4 DEF ChunksInv, ChunksFit, ChunkTypeOK
<1>6. (\A b \in DOMAIN blocks : BlockLies(blocks[b]))'
  BY <1>1 DEF ChunksInv, BlockLies
<1>7. SplitInv'
  BY <1>1, <1>2, NothingIsRest DEF SplitInv
<1> QED BY <1>5, <1>6, <1>7 DEF ChunksInv

\* What was filled is a chunk at the end.
LEMMA LastFlushKeeps ==
    ASSUME ChunksInv, LastFlush
    PROVE  ChunksInv'
<1>1. /\ UNCHANGED <<lines, limit, reading, blocks, at, headings, rest>>
      /\ current' = Empty /\ hasBody' = FALSE /\ rest = Nothing
  BY DEF LastFlush
<1>2. /\ chunks' \in Seq(Chunk)
      /\ \A i \in DOMAIN chunks' : chunks'[i].size <= limit
  BY <1>1, FlushKeeps DEF LastFlush
<1>3. Empty \in Chunk /\ Empty.size = 0
  BY EmptySeq DEF Empty, Chunk
<1>4. ChunksFit'
  <2>1. current' \in Chunk /\ current'.size = 0
    BY <1>1, <1>3
  <2>2. ChunkTypeOK'
    BY <1>1, <1>2, <2>1 DEF ChunksInv, ChunksFit, ChunkTypeOK
  <2>3. current'.size <= limit
    BY <2>1 DEF ChunksInv, ChunksFit, ChunkTypeOK
  <2> QED BY <1>1, <1>2, <2>2, <2>3 DEF ChunksFit
<1>5. (\A b \in DOMAIN blocks : BlockLies(blocks[b]))'
  BY <1>1 DEF ChunksInv, BlockLies
<1>6. SplitInv'
  BY <1>1, NothingIsRest DEF SplitInv
<1> QED BY <1>4, <1>5, <1>6 DEF ChunksInv

-----------------------------------------------------------------------------
(* Splitting.                                                               *)

\* A fence and its wrapper have lengths.
LEMMA WrappersHaveNumbers ==
    ASSUME ChunksInv, NEW b \in DOMAIN blocks, NEW room \in Nat
    PROVE  /\ FenceBody(blocks[b]).from \in Int /\ FenceBody(blocks[b]).to \in Int
           /\ Wrapper(blocks[b], room) \in Int
<1> DEFINE block == blocks[b]
<1>1. /\ block.first \in DOMAIN lines /\ block.last \in DOMAIN lines
      /\ block.from \in Int /\ block.to \in Int /\ ChunkTypeOK
  BY BlocksHaveNumbers DEF ChunksInv, ChunksFit
<1>2. /\ End(block.first) \in Int /\ Begin(block.last) \in Int
      /\ lines[block.first].run \in Int
  BY <1>1, LinesHaveNumbers
<1> HIDE DEF block
<1>3. FenceBody(block).from \in Int /\ FenceBody(block).to \in Int
  BY <1>1, <1>2 DEF FenceBody
<1>4. Wrapper(block, room) \in Int
  BY <1>1, <1>2, <1>3 DEF Wrapper
<1> QED BY <1>3, <1>4 DEF block

\* A block that is too long is split below its headings.
LEMMA BeginSplitKeeps ==
    ASSUME ChunksInv, BeginSplit
    PROVE  ChunksInv'
<1>1. UNCHANGED <<lines, limit, reading, blocks, at, headings>> /\ hasBody' = FALSE
  BY DEF BeginSplit
<1>2. at \in DOMAIN blocks
  BY DEF BeginSplit, NextBlock, ChunksInv, ChunksFit, ChunkTypeOK
<1>3. PICK context \in FitHeadingContext(headings) :
         current' = context /\ rest' = Splitting(at, Available(context))
  BY DEF BeginSplit
<1>4. context \in Chunk /\ context.size \in 0..HeadRoom
  BY ContextFits DEF ChunksInv, ChunksFit, ChunkTypeOK
<1>5. /\ chunks' \in Seq(Chunk)
      /\ \A i \in DOMAIN chunks' : chunks'[i].size <= limit
  BY <1>1, FlushKeeps DEF BeginSplit
<1>6. limit \in Nat \ {0} /\ Available(context) \in Nat
  BY <1>4, RoomFits DEF ChunksInv, ChunksFit, ChunkTypeOK
<1>7. /\ rest' \in Rest
      /\ rest'.how = "rows" =>
            /\ blocks[at].kind = "table"
            /\ TableSplits(blocks[at], Available(context))
            /\ rest'.row > blocks[at].first
  <2>1. PICK room \in Nat : room = Available(context)
    BY <1>6
  <2>2. /\ blocks[at].from \in Int /\ blocks[at].to \in Int /\ blocks[at].first \in Nat
        /\ FenceBody(blocks[at]).from \in Int /\ FenceBody(blocks[at]).to \in Int
    <3>1. blocks[at].from \in Int /\ blocks[at].to \in Int /\ blocks[at].first \in Nat
      BY <1>2, BlocksHaveNumbers
    <3>2. FenceBody(blocks[at]).from \in Int /\ FenceBody(blocks[at]).to \in Int
      BY <1>2, <2>1, WrappersHaveNumbers
    <3> QED BY <3>1, <3>2
  <2> DEFINE code == [Nothing EXCEPT !.how = "code", !.from = FenceBody(blocks[at]).from,
                                     !.to = FenceBody(blocks[at]).to]
             rows == RowsFrom(blocks[at].first + 2)
  <2>3. Plain(at) \in Rest /\ Plain(at).how = "plain"
    BY <2>2 DEF Plain, Nothing, Rest
  <2>4. code \in Rest /\ code.how = "code"
    BY <2>2 DEF Nothing, Rest
  <2>5. rows \in Rest /\ rows.row > blocks[at].first
    <3>1. PICK n \in Nat : n = blocks[at].first + 2
      BY <2>2
    <3>2. RowsFrom(n) \in Rest /\ RowsFrom(n).row = n
      BY DEF RowsFrom, Rest
    <3> QED BY <2>2, <3>1, <3>2
  <2> HIDE DEF code, rows
  <2>6. \/ rest' = code
        \/ rest' = Plain(at)
        \/ rest' = rows /\ blocks[at].kind = "table" /\ TableSplits(blocks[at], room)
    BY <1>3, <2>1 DEF Splitting, code, rows
  <2> QED BY <2>1, <2>3, <2>4, <2>5, <2>6
<1>8. context.size <= limit
  BY <1>4, <1>6 DEF HeadRoom
<1>9. ChunkTypeOK'
  BY <1>1, <1>3, <1>4, <1>5, <1>7 DEF ChunksInv, ChunksFit, ChunkTypeOK
<1>10. ChunksFit'
  BY <1>1, <1>3, <1>5, <1>8, <1>9 DEF ChunksFit
<1>11. (\A b \in DOMAIN blocks : BlockLies(blocks[b]))'
  BY <1>1 DEF ChunksInv, BlockLies
<1>12. SplitInv'
  <2>1. PICK room \in Nat : room = Available(context)
    BY <1>6
  <2>2. Available(current)' = room
    BY <1>1, <1>3, <2>1 DEF Available
  <2>3. TableSplits(blocks[at], room) => TableSplits(blocks[at], room)'
    BY <1>1 DEF TableSplits, TableHead, Rows, Oversize, CellRoom, End
  <2>4. TableSplits(blocks[at], room)' => TableSplits(blocks[at], Available(current))'
    BY <2>2
  <2>5. HeadRoom' = HeadRoom
    BY <1>1 DEF HeadRoom
  <2> QED BY <1>1, <1>2, <1>3, <1>4, <1>7, <2>1, <2>3, <2>4, <2>5 DEF SplitInv
<1> QED BY <1>10, <1>11, <1>12 DEF ChunksInv

\* A piece that takes the room at most: what follows it is of the same kind.
LEMMA EmitKeeps ==
    ASSUME ChunksInv, rest.how # "nothing",
           NEW from \in Int, NEW to \in Int, NEW size \in Int, NEW remaining \in Rest,
           size <= Available(current),
           \/ remaining = Nothing
           \/ /\ remaining.how = rest.how
              /\ rest.how = "rows" => remaining.row > blocks[at].first,
           Emit(from, to, size, remaining)
    PROVE  ChunksInv'
<1> DEFINE piece == [block |-> at, from |-> from, to |-> to, size |-> size]
           text == JoinMarkdown(current, piece)
<1>1. UNCHANGED <<lines, limit, reading, blocks, headings>> /\ rest' = remaining
  BY DEF Emit
<1>2. /\ at \in DOMAIN blocks /\ current.size \in 0..HeadRoom
      /\ limit \in Nat \ {0} /\ current \in Chunk
  BY DEF ChunksInv, SplitInv, ChunksFit, ChunkTypeOK
<1>3. piece \in Piece /\ piece.size = size
  BY DEF Piece, ChunksInv, ChunksFit, ChunkTypeOK
<1> HIDE DEF piece
<1>4. text \in Chunk /\ text.size <= limit
  BY <1>2, <1>3, RoomFits
<1> HIDE DEF text
<1>5. CASE remaining = Nothing
  <2>1. current' = text /\ hasBody' = TRUE /\ at' = at + 1 /\ UNCHANGED chunks
    BY <1>5 DEF Emit, text, piece
  <2>2. at' \in Nat \ {0}
    BY <2>1 DEF ChunksInv, ChunksFit, ChunkTypeOK
  <2>3. ChunkTypeOK'
    BY <1>1, <1>4, <2>1, <2>2 DEF ChunksInv, ChunksFit, ChunkTypeOK
  <2>4. ChunksFit'
    BY <1>1, <1>4, <2>1, <2>3 DEF ChunksInv, ChunksFit
  <2>5. SplitInv'
    BY <1>1, <1>5, NothingIsRest DEF SplitInv
  <2>6. (\A b \in DOMAIN blocks : BlockLies(blocks[b]))'
    BY <1>1 DEF ChunksInv, BlockLies
  <2> QED BY <2>4, <2>5, <2>6 DEF ChunksInv
<1>6. CASE remaining # Nothing
  <2>1. chunks' = Append(chunks, text) /\ UNCHANGED <<current, hasBody, at>>
    BY <1>6 DEF Emit, text, piece
  <2>2. /\ chunks' \in Seq(Chunk)
        /\ \A i \in DOMAIN chunks' : chunks'[i].size <= limit
    <3>1. /\ chunks \in Seq(Chunk) /\ chunks' \in Seq(Chunk)
          /\ DOMAIN chunks = 1..Len(chunks) /\ DOMAIN chunks' = 1..(Len(chunks) + 1)
          /\ \A i \in DOMAIN chunks : chunks'[i] = chunks[i]
          /\ chunks'[Len(chunks) + 1] = text
          /\ Len(chunks) \in Nat
      BY <1>4, <2>1 DEF ChunksInv, ChunksFit, ChunkTypeOK
    <3>2. \A i \in DOMAIN chunks' : i \in DOMAIN chunks \/ i = Len(chunks) + 1
      BY <3>1
    <3>3. ASSUME NEW i \in DOMAIN chunks' PROVE chunks'[i].size <= limit
      BY <1>4, <3>1, <3>2 DEF ChunksInv, ChunksFit
    <3> QED BY <3>1, <3>3
  <2>3. ChunkTypeOK'
    BY <1>1, <2>1, <2>2 DEF ChunksInv, ChunksFit, ChunkTypeOK
  <2>4. ChunksFit'
    BY <1>1, <2>1, <2>2, <2>3 DEF ChunksInv, ChunksFit
  <2>5. SplitInv'
    <3>1. TableSplits(blocks[at], Available(current))
            => TableSplits(blocks[at], Available(current))'
      BY <1>1, <2>1 DEF TableSplits, TableHead, Rows, Oversize, CellRoom, End, Available
    <3>2. HeadRoom' = HeadRoom
      BY <1>1 DEF HeadRoom
    <3>3. rest'.how = rest.how /\ (rest.how = "rows" => rest'.row > blocks[at].first)
      BY <1>1, <1>6
    <3> QED BY <1>1, <1>2, <2>1, <3>1, <3>2, <3>3 DEF ChunksInv, SplitInv
  <2>6. (\A b \in DOMAIN blocks : BlockLies(blocks[b]))'
    BY <1>1 DEF ChunksInv, BlockLies
  <2> QED BY <2>4, <2>5, <2>6 DEF ChunksInv
<1> QED BY <1>5, <1>6

\* A text is cut within the room.
LEMMA SplitPlainTextKeeps ==
    ASSUME ChunksInv, SplitPlainText
    PROVE  ChunksInv'
<1>1. PICK room \in Nat \ {0} : room = Available(current)
  BY RoomFits DEF SplitPlainText, ChunksInv, ChunksFit, ChunkTypeOK, SplitInv
<1>2. /\ rest.how = "plain" /\ rest \in Rest
      /\ rest.from \in Int /\ rest.to \in Int
  BY DEF SplitPlainText, ChunksInv, ChunksFit, ChunkTypeOK, Rest
<1>3. CASE rest.to - rest.from + 1 <= room
  <2>1. Emit(rest.from, rest.to, rest.to - rest.from + 1, Nothing)
    BY <1>1, <1>3 DEF SplitPlainText
  <2>2. rest.to - rest.from + 1 \in Int
    BY <1>2
  <2> QED BY <1>1, <1>2, <1>3, <2>1, <2>2, NothingIsRest, EmitKeeps
<1>4. CASE ~(rest.to - rest.from + 1 <= room)
  <2>1. PICK end \in CutAfter(rest.from, room) :
           \E p \in Trims(rest.from, rest.from + end - 1),
              q \in Trims(rest.from + end, rest.to) :
              Emit(p[1], p[2], p[2] - p[1] + 1, [rest EXCEPT !.from = q[1], !.to = q[2]])
    BY <1>1, <1>4 DEF SplitPlainText
  <2>2. end \in 1..room
    BY DEF CutAfter
  <2>3. PICK p \in Trims(rest.from, rest.from + end - 1),
             q \in Trims(rest.from + end, rest.to) :
           Emit(p[1], p[2], p[2] - p[1] + 1, [rest EXCEPT !.from = q[1], !.to = q[2]])
    BY <2>1
  <2>4. /\ p[1] \in Int /\ p[2] \in Int /\ p[2] - p[1] + 1 \in Int
        /\ p[2] - p[1] + 1 <= room
    BY <1>1, <1>2, <2>2, TrimsInside
  <2>5. q[1] \in Int /\ q[2] \in Int
    BY <1>2, <2>2, TrimsInside
  <2> DEFINE remaining == [rest EXCEPT !.from = q[1], !.to = q[2]]
  <2>6. remaining \in Rest /\ remaining.how = rest.how
    BY <1>2, <2>5 DEF Rest
  <2> HIDE DEF remaining
  <2>7. Emit(p[1], p[2], p[2] - p[1] + 1, remaining)
    BY <2>3 DEF remaining
  <2> QED BY <1>1, <1>2, <2>4, <2>6, <2>7, EmitKeeps
<1> QED BY <1>3, <1>4

\* Code is cut so that a piece and its wrapper take the room.
LEMMA SplitCodeBodyKeeps ==
    ASSUME ChunksInv, SplitCodeBody
    PROVE  ChunksInv'
<1>1. PICK available \in Nat \ {0} : available = Available(current)
  BY RoomFits DEF SplitCodeBody, ChunksInv, ChunksFit, ChunkTypeOK, SplitInv
<1>2. /\ rest.how = "code" /\ rest \in Rest
      /\ rest.from \in Int /\ rest.to \in Int
      /\ at \in DOMAIN blocks
  BY DEF SplitCodeBody, ChunksInv, SplitInv, ChunksFit, ChunkTypeOK, Rest
<1>3. PICK wrapper \in Int : wrapper = Wrapper(blocks[at], Available(current))
  BY <1>1, <1>2, WrappersHaveNumbers
<1>4. PICK room \in Int : room = available - wrapper
  BY <1>1, <1>3
<1>5. CASE rest.to - rest.from + 1 <= room
  <2>1. Emit(rest.from, rest.to, rest.to - rest.from + 1 + wrapper, Nothing)
    BY <1>1, <1>3, <1>4, <1>5 DEF SplitCodeBody
  <2>2. /\ rest.to - rest.from + 1 + wrapper \in Int
        /\ rest.to - rest.from + 1 + wrapper <= available
    BY <1>1, <1>2, <1>3, <1>4, <1>5
  <2> QED BY <1>1, <1>2, <2>1, <2>2, NothingIsRest, EmitKeeps
<1>6. CASE ~(rest.to - rest.from + 1 <= room)
  <2> DEFINE remaining == [rest EXCEPT !.from = @ + room]
  <2>1. Emit(rest.from, rest.from + room - 1, room + wrapper, remaining)
    BY <1>1, <1>3, <1>4, <1>6 DEF SplitCodeBody
  <2>2. remaining \in Rest /\ remaining.how = rest.how
    BY <1>2 DEF Rest
  <2> HIDE DEF remaining
  <2>3. /\ rest.from + room - 1 \in Int
        /\ room + wrapper \in Int /\ room + wrapper <= available
    BY <1>1, <1>2, <1>3, <1>4
  <2> QED BY <1>1, <1>2, <2>1, <2>2, <2>3, EmitKeeps
<1> QED BY <1>5, <1>6

\* What follows a row of a table is no remainder or begins with the next row.
LEMMA AfterRowIsNext ==
    ASSUME ChunksInv, rest.how = "rows", at \in DOMAIN blocks,
           NEW r \in Rows(blocks[at])
    PROVE  /\ AfterRow(blocks[at], r) \in Rest
           /\ \/ AfterRow(blocks[at], r) = Nothing
              \/ /\ AfterRow(blocks[at], r).how = rest.how
                 /\ AfterRow(blocks[at], r).row > blocks[at].first
<1>1. /\ blocks[at].first \in Nat /\ rest \in Rest
      /\ r \in Nat /\ r > blocks[at].first
  <2>1. blocks[at] \in Block
    BY BlocksHaveNumbers
  <2>2. blocks[at].first \in Nat /\ blocks[at].last \in Nat
    BY <2>1 DEF Block
  <2>3. rest \in Rest
    BY DEF ChunksInv, ChunksFit, ChunkTypeOK
  <2> QED BY <2>2, <2>3 DEF Rows
<1>2. CASE r = blocks[at].last
  BY <1>2, NothingIsRest DEF AfterRow
<1>3. CASE r # blocks[at].last
  <2>1. PICK n \in Nat : n = r + 1
    BY <1>1
  <2>2. RowsFrom(n) \in Rest /\ RowsFrom(n).how = "rows" /\ RowsFrom(n).row = n
    BY DEF RowsFrom, Rest
  <2>3. AfterRow(blocks[at], r) = RowsFrom(n)
    BY <1>3, <2>1 DEF AfterRow
  <2> QED BY <1>1, <2>1, <2>2, <2>3
<1> QED BY <1>2, <1>3

\* As many rows as fit below the head.
LEMMA SplitRowsKeeps ==
    ASSUME ChunksInv, SplitRows
    PROVE  ChunksInv'
<1>1. PICK room \in Nat \ {0} : room = Available(current)
  BY RoomFits DEF SplitRows, ChunksInv, ChunksFit, ChunkTypeOK, SplitInv
<1>2. /\ rest.how = "rows" /\ at \in DOMAIN blocks
      /\ blocks[at].kind = "table" /\ rest.row > blocks[at].first
      /\ rest.row \in Nat /\ ChunkTypeOK
  BY DEF SplitRows, ChunksInv, SplitInv, ChunksFit, ChunkTypeOK, Rest
<1>3. PICK s \in Rows(blocks[at]) :
         /\ rest.row <= s
         /\ \A r \in rest.row..s : RowsSize(blocks[at], rest.row, r) <= room
         /\ Emit(Begin(rest.row), End(s), RowsSize(blocks[at], rest.row, s),
                 AfterRow(blocks[at], s))
  BY <1>1 DEF SplitRows
<1>4. s \in DOMAIN lines /\ s \in Nat /\ rest.row \in DOMAIN lines
  <2>1. /\ s \in DOMAIN lines /\ blocks[at].first \in DOMAIN lines
        /\ DOMAIN lines = 1..Len(lines) /\ Len(lines) \in Nat
    BY <1>2, BlocksHaveNumbers DEF ChunkTypeOK, IsText
  <2> QED BY <1>2, <1>3, <2>1
<1>5. /\ Begin(rest.row) \in Int /\ End(s) \in Int
      /\ TableHead(blocks[at]) \in Int
  BY <1>2, <1>4, LinesHaveNumbers, BlocksHaveNumbers
<1>6. PICK size \in Int : size = RowsSize(blocks[at], rest.row, s)
  BY <1>5 DEF RowsSize
<1>7. size <= room
  BY <1>2, <1>3, <1>4, <1>6
<1>8. PICK remaining \in Rest :
         /\ remaining = AfterRow(blocks[at], s)
         /\ \/ remaining = Nothing
            \/ remaining.how = rest.how /\ remaining.row > blocks[at].first
  BY <1>2, AfterRowIsNext
<1>9. Emit(Begin(rest.row), End(s), size, remaining)
  BY <1>3, <1>6, <1>8
<1> QED BY <1>1, <1>2, <1>5, <1>7, <1>8, <1>9, EmitKeeps

\* The head alone fits, or the table would not be split by rows.
LEMMA SplitHeadKeeps ==
    ASSUME ChunksInv, SplitHead
    PROVE  ChunksInv'
<1>1. /\ rest.how = "rows" /\ at \in DOMAIN blocks
      /\ blocks[at].kind = "table" /\ TableSplits(blocks[at], Available(current))
      /\ ChunkTypeOK
  BY DEF SplitHead, ChunksInv, SplitInv, ChunksFit
<1>2. Emit(blocks[at].from, End(blocks[at].first + 1), TableHead(blocks[at]), Nothing)
  BY DEF SplitHead
<1>3. /\ TableHead(blocks[at]) \in Int /\ blocks[at].from \in Int
      /\ TableHead(blocks[at]) <= Available(current)
  BY <1>1, BlocksHaveNumbers DEF TableSplits
<1>4. End(blocks[at].first + 1) \in Int
  <2>1. /\ blocks[at].first \in DOMAIN lines /\ blocks[at].last \in DOMAIN lines
        /\ blocks[at].first < blocks[at].last
        /\ DOMAIN lines = 1..Len(lines) /\ Len(lines) \in Nat
    BY <1>1 DEF ChunksInv, BlockLies, ChunkTypeOK, IsText
  <2>2. blocks[at].first + 1 \in DOMAIN lines
    BY <2>1
  <2> QED BY <1>1, <2>2, LinesHaveNumbers
<1> QED BY <1>1, <1>2, <1>3, <1>4, NothingIsRest, EmitKeeps

\* The cells that are taken and the bars around them fit below the head.
LEMMA SplitTableRowKeeps ==
    ASSUME ChunksInv, SplitTableRow
    PROVE  ChunksInv'
<1> DEFINE r == rest.row
           bars == TableHead(blocks[at]) + 1 + 3 * lines[r].columns + 1
           left == {c \in lines[r].cells : c >= rest.from}
<1>1. PICK available \in Nat \ {0} : available = Available(current)
  BY RoomFits DEF SplitTableRow, ChunksInv, ChunksFit, ChunkTypeOK, SplitInv
<1>2. /\ rest.how = "rows" /\ at \in DOMAIN blocks
      /\ blocks[at].kind = "table" /\ TableSplits(blocks[at], available)
      /\ rest.row > blocks[at].first
      /\ rest \in Rest /\ rest.from \in Int /\ ChunkTypeOK
  BY <1>1 DEF SplitTableRow, ChunksInv, SplitInv, ChunksFit, ChunkTypeOK, Rest
<1>3. r \in Rows(blocks[at]) /\ Oversize(blocks[at], r, available)
  BY <1>1 DEF SplitTableRow
<1>4. /\ r \in DOMAIN lines /\ TableHead(blocks[at]) \in Int
      /\ Begin(r) \in Int /\ lines[r].columns \in Int
      /\ lines[r].cells \subseteq 1..lines[r].size /\ lines[r].size \in Nat
  BY <1>2, <1>3, BlocksHaveNumbers, LinesHaveNumbers
<1>5. /\ CellRoom(blocks[at], r, available) > 0
      /\ CellRoom(blocks[at], r, available) = available - bars
      /\ bars \in Int
  BY <1>1, <1>2, <1>3, <1>4 DEF TableSplits, CellRoom
<1>6. PICK remaining \in Rest :
         /\ remaining = AfterRow(blocks[at], r)
         /\ \/ remaining = Nothing
            \/ remaining.how = rest.how /\ remaining.row > blocks[at].first
  BY <1>2, <1>3, AfterRowIsNext
<1>7. CASE Emit(Begin(r), Begin(r) - 1, bars, AfterRow(blocks[at], r))
  <2>1. Begin(r) - 1 \in Int /\ bars <= available
    BY <1>1, <1>4, <1>5
  <2> HIDE DEF bars
  <2> QED BY <1>1, <1>2, <1>4, <1>5, <1>6, <1>7, <2>1, EmitKeeps
<1>8. CASE \E from, to \in left :
              LET taken == {c \in left : c <= to} IN
              /\ Cardinality(taken) <= CellRoom(blocks[at], r, available)
              /\ Emit(Begin(r) + from - 1, Begin(r) + to - 1, bars + Cardinality(taken),
                      IF taken = left THEN AfterRow(blocks[at], r)
                      ELSE [rest EXCEPT !.from = to + 1])
  <2>1. PICK from \in left, to \in left :
           LET taken == {c \in left : c <= to} IN
           /\ Cardinality(taken) <= CellRoom(blocks[at], r, available)
           /\ Emit(Begin(r) + from - 1, Begin(r) + to - 1, bars + Cardinality(taken),
                   IF taken = left THEN AfterRow(blocks[at], r)
                   ELSE [rest EXCEPT !.from = to + 1])
    BY <1>8
  <2> DEFINE taken == {c \in left : c <= to}
             next == IF taken = left THEN AfterRow(blocks[at], r)
                     ELSE [rest EXCEPT !.from = to + 1]
  <2>2. from \in Int /\ to \in Int
    BY <1>4
  <2>3. Cardinality(taken) \in Nat
    <3>1. PICK width \in Nat : width = lines[r].size
      BY <1>4
    <3>2. IsFiniteSet(1..width)
      BY FS_Interval
    <3>3. taken \subseteq 1..width
      BY <1>4, <3>1
    <3> HIDE DEF taken
    <3> QED BY <3>2, <3>3, FS_Subset, FS_CardinalityType
  <2>4. /\ next \in Rest
        /\ \/ next = Nothing
           \/ next.how = rest.how /\ next.row > blocks[at].first
    <3>1. CASE taken = left
      BY <1>6, <3>1
    <3>2. CASE taken # left
      <4> DEFINE later == [rest EXCEPT !.from = to + 1]
      <4>1. later \in Rest /\ later.how = rest.how /\ later.row = rest.row
        BY <1>2, <2>2 DEF Rest
      <4>2. next = later
        BY <3>2
      <4> HIDE DEF later, next
      <4> QED BY <1>2, <4>1, <4>2
    <3> QED BY <3>1, <3>2
  <2>5. PICK size \in Int : size = bars + Cardinality(taken)
    <3> HIDE DEF bars, taken
    <3> QED BY <1>5, <2>3
  <2>6. size <= available
    BY <1>1, <1>5, <2>1, <2>3, <2>5
  <2>7. Emit(Begin(r) + from - 1, Begin(r) + to - 1, size, next)
    BY <2>1, <2>5
  <2>8. Begin(r) + from - 1 \in Int /\ Begin(r) + to - 1 \in Int
    BY <1>4, <2>2
  <2> HIDE DEF next, taken, bars, left
  <2> QED BY <1>1, <1>2, <2>4, <2>6, <2>7, <2>8, EmitKeeps
<1> QED BY <1>1, <1>7, <1>8 DEF SplitTableRow

-----------------------------------------------------------------------------
(* The compiler.                                                            *)

\* Every step of the chunking keeps the invariant.
LEMMA ChunkStepKeeps ==
    ASSUME ChunksInv, ChunkStep
    PROVE  ChunksInv'
BY ReadBlankKeeps, ReadBlockKeeps, PackHeadingKeeps, PackWholeKeeps, BeginSplitKeeps,
   SplitPlainTextKeeps, SplitCodeBodyKeeps, SplitRowsKeeps, SplitHeadKeeps,
   SplitTableRowKeeps, LastFlushKeeps DEF ChunkStep

\* What a new text begins with, and what is left when its chunks were taken.
AtStart ==
    /\ IsText(lines) /\ limit \in Nat \ {0}
    /\ reading = 1 /\ blocks = <<>> /\ at = 1 /\ headings = <<>>
    /\ current \in Chunk /\ current.size = 0 /\ hasBody \in BOOLEAN
    /\ chunks = <<>> /\ rest = Nothing

\* With nothing read there is nothing to violate.
LEMMA StartKeeps == AtStart => ChunksInv
<1> SUFFICES ASSUME AtStart
             PROVE  ChunksInv
  OBVIOUS
<1> USE DEF AtStart
<1>1. /\ blocks \in Seq(Block) /\ headings \in Seq(DOMAIN blocks) /\ chunks \in Seq(Chunk)
      /\ DOMAIN blocks = {} /\ DOMAIN chunks = {}
  BY EmptySeq
<1>2. ChunkTypeOK
  BY <1>1, NothingIsRest DEF ChunkTypeOK
<1>3. ChunksFit
  BY <1>1, <1>2 DEF ChunksFit
<1>4. SplitInv
  BY NothingIsRest DEF SplitInv
<1> QED BY <1>1, <1>3, <1>4 DEF ChunksInv

\* Chunking as the compiler does it, for questions whose texts are texts.
CompilerInv == ChunksInv /\ question \in Questions

\* The steps that leave the chunking alone keep its invariant.
LEMMA ChunksUntouched ==
    ASSUME ChunksInv, UNCHANGED chunkVars
    PROVE  ChunksInv'
<1>1. UNCHANGED <<lines, limit, reading, blocks, at, headings, current, hasBody, chunks, rest>>
  BY DEF chunkVars
<1>2. ChunksFit'
  BY <1>1 DEF ChunksInv, ChunksFit, ChunkTypeOK
<1>3. (\A b \in DOMAIN blocks : BlockLies(blocks[b]))'
  BY <1>1 DEF ChunksInv, BlockLies
<1>4. SplitInv'
  BY <1>1 DEF ChunksInv, SplitInv, HeadRoom, TableSplits, Available, TableHead, Rows,
              Oversize, CellRoom, End
<1> QED BY <1>2, <1>3, <1>4 DEF ChunksInv

\* No chunk of any text is longer than the size asked for, and every variable of
\* the chunking has its type: however deep the headings, long the lines, wide the
\* tables or small the size are, what is repeated around a piece leaves room for it.
THEOREM ChunksAlwaysFit == CompilerSpec => []ChunksFit
<1> USE QuestionsAssumption
<1>1. Empty \in Chunk /\ Empty.size = 0 /\ IsText(<<>>)
  BY EmptySeq DEF Empty, Chunk, IsText
<1>2. CompilerInit => CompilerInv
  <2>1. ASSUME ChunkInit PROVE AtStart
    <3>1. current = Empty /\ hasBody = FALSE /\ lines = <<>> /\ limit = 1
      BY <2>1 DEF ChunkInit
    <3>2. current \in Chunk /\ current.size = 0 /\ IsText(lines)
      BY <1>1, <3>1
    <3>3. /\ reading = 1 /\ blocks = <<>> /\ at = 1 /\ headings = <<>>
          /\ chunks = <<>> /\ rest = Nothing
      BY <2>1 DEF ChunkInit
    <3>4. hasBody \in BOOLEAN
      BY <3>1
    <3>5. limit \in Nat \ {0}
      BY <3>1
    <3> QED BY <3>2, <3>3, <3>4, <3>5, Zenon DEF AtStart
  <2>2. ASSUME CompilerInit PROVE ChunkInit /\ question \in Questions
    BY <2>2 DEF CompilerInit
  <2> QED BY <2>1, <2>2, StartKeeps DEF CompilerInv
<1>3. ASSUME CompilerInv, [CompilerNext]_<<chunkVars, compileVars>>
      PROVE  CompilerInv'
  <2>1. ChunksInv /\ question \in Questions
    BY <1>3 DEF CompilerInv
  <2>2. CASE UNCHANGED <<chunkVars, question>>
    BY <2>1, <2>2, ChunksUntouched DEF CompilerInv
  <2>3. CASE Chunking
    BY <2>1, <2>3, ChunkStepKeeps DEF Chunking, CompilerInv, compileVars
  <2>4. CASE ChunkNext
    <3>1. PICK i \in DOMAIN nutrients :
             ChunkNutrientText(nutrients[i].text, question.chunkSize)
      BY <2>4 DEF ChunkNext
    <3>2. IsText(nutrients[i].text) /\ question.chunkSize \in Nat \ {0}
      BY <2>1 DEF nutrients
    <3>3. AtStart'
      BY <1>1, <3>1, <3>2 DEF ChunkNutrientText, IsText, AtStart
    <3>4. ChunksInv'
      BY <3>3, StartKeeps, PTL
    <3> QED BY <2>1, <2>4, <3>4 DEF CompilerInv, ChunkNext, compileVars
  <2>5. CASE Chunked
    <3>1. /\ lines' = <<>> /\ reading' = 1 /\ blocks' = <<>> /\ at' = 1
          /\ headings' = <<>> /\ chunks' = <<>>
          /\ UNCHANGED <<limit, current, hasBody, rest, question>>
          /\ rest = Nothing /\ current.size = 0
      BY <2>5 DEF Chunked, PackingDone
    <3>2. limit \in Nat \ {0} /\ current \in Chunk /\ hasBody \in BOOLEAN
      BY <2>1 DEF ChunksInv, ChunksFit, ChunkTypeOK
    <3>3. AtStart'
      BY <1>1, <3>1, <3>2 DEF IsText, AtStart
    <3>4. ChunksInv'
      BY <3>3, StartKeeps, PTL
    <3> QED BY <2>1, <3>1, <3>4 DEF CompilerInv
  <2> QED BY <1>3, <2>2, <2>3, <2>4, <2>5
      DEF CompilerNext, Begun, Climb, TakeTransfer, EndTransfers, TakeLeaf, EndLeaves,
          Score, SelectChunk, Compiled, Over, compileVars
<1>4. CompilerInv => ChunksFit
  BY DEF CompilerInv, ChunksInv
<1> QED BY <1>2, <1>3, <1>4, PTL DEF CompilerSpec
=============================================================================
