------------------------- MODULE SemanticChunksProofs -------------------------
(***************************************************************************)
(* Theorems about SemanticChunks, for every set of texts, every budget and *)
(* every segmenter.  They rest on two facts.  CutWithinBudget: whatever    *)
(* structure asks for, a block is not empty, is within the budget and ends *)
(* with a word.  CutsProtectTables: a block ends between two rows of a     *)
(* table only if the block or the text began in a row.                     *)
(***************************************************************************)
EXTENDS SemanticChunks, FiniteSetTheorems, WellFoundedInduction, TLAPS

Inv == ChunksTypeOK /\ NothingLostOrRepeated /\ TurnsAdvance /\ WithinBudget

\* A part of the text has no more words than the text it begins.
LEMMA WordsOfAPart ==
    ASSUME NEW a \in Nat, NEW b \in Nat, NEW c \in Nat, b <= c
    PROVE  Words(a, b) \in Nat /\ Words(a, b) <= Words(a, c)
<1>1. IsFiniteSet(a .. c - 1)
  BY FS_Interval
<1>2. WordStarts(a, c) \subseteq a .. c - 1 /\ WordStarts(a, b) \subseteq WordStarts(a, c)
  BY DEF WordStarts
<1>3. IsFiniteSet(WordStarts(a, c))
  BY <1>1, <1>2, FS_Subset
<1>4. IsFiniteSet(WordStarts(a, b)) /\ Cardinality(WordStarts(a, b)) <= Cardinality(WordStarts(a, c))
  BY <1>2, <1>3, FS_Subset
<1>5. Cardinality(WordStarts(a, b)) \in Nat
  BY <1>4, FS_CardinalityType
<1> QED
  BY <1>4, <1>5 DEF Words

\* A structural end lies within the budget (chunking.py:128-151), and where it
\* would be the start of the block the budget is taken instead (191-192); neither
\* lies inside a word.
LEMMA CutWithinBudget ==
    ASSUME text \in Seq(Piece), NEW start \in 0 .. Pieces - 1, NEW end \in start + 1 .. Pieces,
           NEW cut \in 0..Pieces, NEW begins,
           IsNominalEnd(end, start), IsStructuralEnd(cut, start, end, begins)
    PROVE  /\ BlockEnd(cut, start, end) \in start + 1 .. end
           /\ Words(start, BlockEnd(cut, start, end)) <= MaxWords
           /\ BlockEnd(cut, start, end) = Pieces \/ At(BlockEnd(cut, start, end)) # "more"
<1> DEFINE b == BlockEnd(cut, start, end)
<1>1. Pieces \in Nat /\ start \in Nat /\ end \in Nat /\ cut \in Nat
  BY DEF Pieces
<1>2. cut = end \/ (cut <= end /\ cut > start /\ At(cut) # "more")
  <2>1. CASE IsLast(cut, Headings(start, end))
    BY <1>1, <2>1 DEF IsLast, Headings
  <2>2. CASE IsLast(cut, Fences(start, end))
    BY <1>1, <2>2 DEF IsLast, Fences
  <2>3. CASE IsTableStart(cut, start, end)
    BY <1>1, <2>3 DEF IsTableStart, IsFirst, TableRows, Lines, LineStart
  <2>4. CASE cut = end
    BY <2>4
  <2> QED
    BY <2>1, <2>2, <2>3, <2>4 DEF IsStructuralEnd
<1>3. b = end \/ (b \in start + 1 .. end /\ At(b) # "more")
  BY <1>1, <1>2 DEF BlockEnd
<1>4. end = Pieces \/ At(end) # "more"
  BY <1>1 DEF IsNominalEnd
<1> HIDE DEF b
<1>5. b \in start + 1 .. end
  BY <1>1, <1>3
<1>6. b \in Nat /\ b <= end
  BY <1>1, <1>5
<1>7. Words(start, b) \in Nat /\ Words(start, b) <= Words(start, end)
  BY <1>1, <1>6, WordsOfAPart
<1>8. Words(start, end) \in Nat
  BY <1>1, WordsOfAPart
<1>9. Words(start, b) <= MaxWords
  BY <1>7, <1>8, MaxWordsAssumption DEF IsNominalEnd
<1> QED
  BY <1>3, <1>4, <1>5, <1>9 DEF b

\* A chunk that goes on where the text was left keeps what is said of chunks.
LEMMA ChunkKeeps ==
    ASSUME Inv, NEW b \in cursor + 1 .. Pieces, NEW budget \in BOOLEAN,
           Words(cursor, b) <= MaxWords, budget => b = Pieces \/ At(b) # "more",
           Chunk(cursor, b, budget), cursor' = b, turns' = turns + 1, UNCHANGED <<text, newline>>
    PROVE  Inv'
<1> DEFINE new == [from |-> cursor, to |-> b, budget |-> budget]
           n   == Len(chunks)
<1>1. /\ cursor \in Nat /\ Pieces \in Nat /\ turns \in Nat /\ Pieces' = Pieces /\ n \in Nat
      /\ chunks \in Seq([from : 0..Pieces, to : 0..Pieces, budget : BOOLEAN])
  BY DEF Inv, ChunksTypeOK, Pieces
<1>2. chunks' = Append(chunks, new)
  BY <1>1 DEF Chunk
<1>3. new \in [from : 0..Pieces, to : 0..Pieces, budget : BOOLEAN]
      /\ new.from = cursor /\ new.to = b /\ new.budget = budget
  BY <1>1
<1> HIDE DEF new
<1>4. /\ Len(chunks') = n + 1 /\ chunks'[n + 1] = new
      /\ \A i \in 1..n : chunks'[i] = chunks[i]
  BY <1>1, <1>2, <1>3
<1>5. ChunksTypeOK'
  BY <1>1, <1>2, <1>3 DEF Inv, ChunksTypeOK
<1>6. NothingLostOrRepeated'
  <2>1. /\ cursor = IF n = 0 THEN 0 ELSE chunks[n].to
        /\ \A i \in 1..n : /\ chunks[i].from = IF i = 1 THEN 0 ELSE chunks[i - 1].to
                           /\ chunks[i].from < chunks[i].to
    BY <1>1 DEF Inv, NothingLostOrRepeated
  <2> HIDE DEF n
  <2>2. ASSUME NEW i \in 1 .. n + 1
        PROVE  /\ chunks'[i].from = IF i = 1 THEN 0 ELSE chunks'[i - 1].to
               /\ chunks'[i].from < chunks'[i].to
    <3>1. CASE i = n + 1
      <4>1. n # 0 => chunks'[n] = chunks[n]
        BY <1>1, <1>4
      <4> QED
        BY <1>1, <1>3, <1>4, <2>1, <3>1, <4>1
    <3>2. CASE i # n + 1
      <4>1. i \in 1..n /\ (i # 1 => i - 1 \in 1..n)
        BY <1>1, <3>2
      <4> QED
        BY <1>4, <2>1, <4>1
    <3> QED
      BY <3>1, <3>2
  <2>3. cursor' = chunks'[n + 1].to /\ n + 1 # 0
    BY <1>1, <1>3, <1>4
  <2> QED
    BY <1>1, <1>4, <2>2, <2>3 DEF NothingLostOrRepeated
<1>7. TurnsAdvance'
  BY <1>1, <1>4 DEF Inv, TurnsAdvance
<1>8. WithinBudget'
  <2>1. \A p, q : Words(p, q)' = Words(p, q) /\ At(p)' = At(p)
    BY DEF Words, WordStarts, At
  <2>2. ASSUME NEW i \in 1 .. n + 1
        PROVE  /\ Words(chunks'[i].from, chunks'[i].to) <= MaxWords
               /\ chunks'[i].budget => chunks'[i].to = Pieces \/ At(chunks'[i].to) # "more"
    <3>1. CASE i = n + 1
      BY <1>3, <1>4, <3>1
    <3>2. CASE i # n + 1
      <4>1. i \in 1..n
        BY <1>1, <3>2
      <4>2. /\ Words(chunks[i].from, chunks[i].to) <= MaxWords
            /\ chunks[i].budget => chunks[i].to = Pieces \/ At(chunks[i].to) # "more"
        BY <4>1 DEF Inv, WithinBudget
      <4> QED
        BY <1>4, <4>1, <4>2
    <3> QED
      BY <3>1, <3>2
  <2>3. \A i \in 1 .. Len(chunks') :
            /\ Words(chunks'[i].from, chunks'[i].to) <= MaxWords
            /\ chunks'[i].budget => chunks'[i].to = Pieces \/ At(chunks'[i].to) # "more"
    BY <1>4, <2>2
  <2> QED
    BY <1>1, <2>3 DEF WithinBudget, Words, WordStarts, At
<1> QED
  BY <1>5, <1>6, <1>7, <1>8 DEF Inv

\* The chunks are the text in order, each within the budget, and every turn of
\* the loop uses up some of it, whatever the segmenter answers.
THEOREM Chunked == ChunksSpec => []Inv
<1>1. ChunksInit => Inv
  BY TextsAssumption
     DEF ChunksInit, Inv, ChunksTypeOK, NothingLostOrRepeated, TurnsAdvance, WithinBudget, Pieces
<1>2. Inv /\ [ChunksNext]_chunkVars => Inv'
  <2> SUFFICES ASSUME Inv, [ChunksNext]_chunkVars PROVE Inv'
    OBVIOUS
  <2>1. CASE Turn
    <3>1. /\ cursor \in 0 .. Pieces - 1 /\ text \in Seq(Piece) /\ Pieces \in Nat
          /\ turns' = turns + 1 /\ UNCHANGED <<text, newline>>
      BY <2>1 DEF Turn, Inv, ChunksTypeOK, Pieces
    <3>2. PICK end \in cursor + 1 .. Pieces, cut \in 0..Pieces, begins \in BeginsWithFence(cursor) :
            /\ IsNominalEnd(end, cursor) /\ IsStructuralEnd(cut, cursor, end, begins)
            /\ WholeBlock(BlockEnd(cut, cursor, end)) \/ SplitBlock(BlockEnd(cut, cursor, end))
      BY <2>1 DEF Turn
    <3> DEFINE b == BlockEnd(cut, cursor, end)
    <3>3. /\ b \in cursor + 1 .. end /\ Words(cursor, b) <= MaxWords
          /\ b = Pieces \/ At(b) # "more"
      BY <3>1, <3>2, CutWithinBudget
    <3> HIDE DEF b
    <3>4. b \in cursor + 1 .. Pieces /\ b \in Nat /\ cursor \in Nat
      BY <3>1, <3>3
    <3>5. CASE WholeBlock(b)
      BY <3>1, <3>3, <3>4, <3>5, ChunkKeeps DEF WholeBlock
    <3>6. CASE SplitBlock(b)
      <4>1. PICK k \in Splits(b - cursor) :
              Chunk(cursor, cursor + k, FALSE) /\ cursor' = cursor + k
        BY <3>6 DEF SplitBlock, Resumes
      <4>2. /\ cursor + k \in cursor + 1 .. Pieces /\ cursor + k <= b
            /\ cursor + k \in Nat
        BY <3>1, <3>4, <4>1 DEF Splits
      <4>3. Words(cursor, cursor + k) <= MaxWords
        <5>1. Words(cursor, cursor + k) \in Nat /\ Words(cursor, cursor + k) <= Words(cursor, b)
          BY <3>4, <4>2, WordsOfAPart
        <5>2. Words(cursor, b) \in Nat
          BY <3>4, WordsOfAPart
        <5> QED
          BY <3>3, <5>1, <5>2, MaxWordsAssumption
      <4> QED
        BY <3>1, <4>1, <4>2, <4>3, ChunkKeeps
    <3> QED
      BY <3>2, <3>5, <3>6 DEF b
  <2>2. CASE UNCHANGED chunkVars
    BY <2>2 DEF chunkVars, Inv, ChunksTypeOK, NothingLostOrRepeated, TurnsAdvance, WithinBudget,
                Words, WordStarts, At, Pieces
  <2> QED
    BY <2>1, <2>2 DEF ChunksNext, Finished
<1> QED
  BY <1>1, <1>2, PTL DEF ChunksSpec

\* Every variable keeps its type; the loop never stands outside the text.
THEOREM ChunksTypeCorrect == ChunksSpec => []ChunksTypeOK
BY Chunked, PTL DEF Inv

\* No word is lost, repeated or moved (chunking.py:181-237).
THEOREM NothingLost == ChunksSpec => []NothingLostOrRepeated
BY Chunked, PTL DEF Inv

\* Every turn makes a chunk of some of the text, so there are no more turns, and
\* calls of a language model, than characters: the segmenter's answers cannot
\* keep the loop from its end, though they can use up less than a word a turn.
THEOREM LoopEnds == ChunksSpec => []TurnsAdvance
BY Chunked, PTL DEF Inv

\* No chunk has more words than max_words, and only an answer ends one inside a word.
THEOREM BudgetKept == ChunksSpec => []WithinBudget
BY Chunked, PTL DEF Inv

-----------------------------------------------------------------------------
(* Tables.                                                                 *)
(*                                                                         *)
(* Where the budget cuts between two rows, the line before the cut is a    *)
(* row: its first piece lies in the block, and the walk back comes to it,  *)
(* or it lies before the block, which then began in a row.                 *)

\* A set of numbers has a least one.
LEMMA LeastNumber ==
    ASSUME NEW T \in SUBSET Nat, T # {}
    PROVE  \E n \in T : \A m \in T : n <= m
<1>1. PICK n \in T : \A m \in T : <<m, n>> \notin OpToRel(<, Nat)
  BY NatLessThanWellFounded, WFMin
<1>2. \A m \in T : ~(m < n)
  BY <1>1 DEF OpToRel
<1> QED
  BY <1>2

\* The line before a cut between two rows is a row, or the block began in one.
LEMMA RowBeforeCut ==
    ASSUME NEW start \in Nat, NEW b \in Nat, start < b, Row(b - 1)
    PROVE  \/ Row(start)
           \/ \E l \in start + 1 .. b - 1 :
                TableRow(l) /\ \A q \in start + 1 .. b - 1 : At(q) \in LineStart => q <= l
<1>1. PICK l \in 0 .. b - 1 : TableRow(l) /\ \A w \in l + 1 .. b - 1 : At(w) \notin LineStart
  BY DEF Row
<1>2. CASE l <= start
  BY <1>1, <1>2 DEF Row
<1>3. CASE l > start
  <2>1. l \in start + 1 .. b - 1
    BY <1>3
  <2>2. \A q \in start + 1 .. b - 1 : At(q) \in LineStart => q <= l
    BY <1>1, <1>3
  <2> QED
    BY <1>1, <2>1, <2>2
<1> QED
  BY <1>2, <1>3

\* A cut between two rows, at the budget or above a table, lies in a block or a
\* text that begins in a row (chunking.py:140-151).
LEMMA CutsProtectTables ==
    ASSUME text \in Seq(Piece), NEW start \in 0 .. Pieces - 1, NEW end \in start + 1 .. Pieces,
           NEW cut \in 0..Pieces, NEW begins,
           IsNominalEnd(end, start), IsStructuralEnd(cut, start, end, begins),
           BlockEnd(cut, start, end) < Pieces, Torn(BlockEnd(cut, start, end))
    PROVE  Row(start) \/ TableRow(0)
<1> DEFINE b == BlockEnd(cut, start, end)
           L == Lines(start, end)
           T == TableRows(start, end)
<1>1. Pieces \in Nat /\ start \in Nat /\ end \in Nat /\ start < Pieces
  BY DEF Pieces
<1>2. b \in start + 1 .. end /\ b < Pieces /\ At(b) = "row" /\ Row(b - 1)
  BY CutWithinBudget DEF Torn
<1>3. cut > start => b = cut
  BY <1>1 DEF BlockEnd
<1>4. b = cut \/ b = end
  BY DEF BlockEnd
<1> HIDE DEF b
<1>5. b \in Nat /\ start < b /\ b <= end
  BY <1>1, <1>2
<1>6. \A p : p \in L <=> p \in start + 1 .. end - 1 /\ At(p) \in LineStart
  BY DEF Lines
<1>7. \A p : p \in T <=>
        p \in L /\ \A q \in L : q >= p => TableRow(q) /\ (q > p => At(q) = "row")
  BY DEF TableRows
<1> SUFFICES ASSUME ~Row(start) PROVE TableRow(0)
  OBVIOUS
<1>8. PICK l \in start + 1 .. b - 1 :
          TableRow(l) /\ \A q \in start + 1 .. b - 1 : At(q) \in LineStart => q <= l
  BY <1>1, <1>2, <1>5, RowBeforeCut
<1>9. l \in Nat /\ l < b /\ start < l /\ At(l) \in LineStart
  BY <1>1, <1>5, <1>8 DEF TableRow, LineStart
<1>10. l \in L
  BY <1>1, <1>5, <1>6, <1>8, <1>9
<1>11. CASE IsLast(cut, Headings(start, end))
  <2>1. cut > start /\ At(cut) = "mark"
    BY <1>1, <1>11 DEF IsLast, Headings
  <2> QED
    BY <1>2, <1>3, <2>1
<1>12. CASE IsLast(cut, Fences(start, end))
  <2>1. cut > start /\ At(cut) = "fence"
    BY <1>1, <1>12 DEF IsLast, Fences
  <2> QED
    BY <1>2, <1>3, <2>1
<1>13. CASE IsTableStart(cut, start, end)
  <2>1. cut \in T /\ \A q \in T : cut <= q
    BY <1>13 DEF IsTableStart, IsFirst
  <2>2. cut \in start + 1 .. end - 1 /\ b = cut
    BY <1>1, <1>3, <1>6, <1>7, <2>1
  <2>3. ASSUME NEW q \in L, q >= l PROVE TableRow(q) /\ (q > l => At(q) = "row")
    <3>1. q \in start + 1 .. end - 1 /\ At(q) \in LineStart /\ q \in Nat
      BY <1>1, <1>6
    <3>2. CASE q < b
      <4>1. q = l
        BY <1>1, <1>5, <1>8, <1>9, <2>3, <3>1, <3>2
      <4> QED
        BY <1>8, <1>9, <4>1
    <3>3. CASE q = b
      BY <1>2, <3>3 DEF TableRow
    <3>4. CASE q > b
      <4>1. TableRow(q) /\ At(q) = "row"
        BY <1>5, <1>7, <2>1, <2>2, <3>1, <3>4
      <4> QED
        BY <4>1
    <3> QED
      BY <1>5, <3>1, <3>2, <3>3, <3>4
  <2>4. l \in T
    BY <1>7, <1>10, <2>3
  <2>5. cut <= l
    BY <2>1, <2>4
  <2> QED
    BY <1>9, <2>2, <2>5
<1>14. CASE /\ cut = end
            /\ ~(EndsInTable(start, end) /\ \E p \in T : IsTableStart(p, start, end))
  <2>1. b = end
    BY <1>4, <1>14
  <2>2. \A q \in L : q <= l
    BY <1>1, <1>6, <1>8, <2>1
  <2>3. EndsInTable(start, end)
    BY <1>2, <1>8, <1>10, <2>1, <2>2 DEF EndsInTable, AfterNewline, IsLast
  <2>4. l \in T
    <3>1. \A q \in L : q >= l => q = l
      BY <1>1, <1>6, <1>9, <2>2
    <3> QED
      BY <1>7, <1>8, <1>9, <1>10, <3>1
  <2>5. T \in SUBSET Nat
    BY <1>1, <1>6, <1>7
  <2>6. PICK f \in T : \A q \in T : f <= q
    <3> HIDE DEF T
    <3> QED
      BY <2>4, <2>5, LeastNumber
  <2> QED
    BY <1>14, <2>3, <2>6 DEF IsTableStart, IsFirst
<1> QED
  BY <1>11, <1>12, <1>13, <1>14 DEF IsStructuralEnd

\* A chunk that cuts no table, or a protected one, keeps what is said of the cuts.
LEMMA ChunkProtects ==
    ASSUME Inv, TextBeforeTableProtectsIt,
           NEW b \in cursor + 1 .. Pieces, NEW budget \in BOOLEAN,
           Chunk(cursor, b, budget), UNCHANGED text,
           budget /\ b < Pieces /\ Torn(b) => Row(cursor) \/ TableRow(0)
    PROVE  TextBeforeTableProtectsIt'
<1> DEFINE new == [from |-> cursor, to |-> b, budget |-> budget]
           n   == Len(chunks)
<1>1. cursor \in Nat /\ Pieces \in Nat /\ n \in Nat /\ Pieces' = Pieces
      /\ chunks \in Seq([from : 0..Pieces, to : 0..Pieces, budget : BOOLEAN])
  BY DEF Inv, ChunksTypeOK, Pieces
<1>2. chunks' = Append(chunks, new)
  BY <1>1 DEF Chunk
<1>3. new \in [from : 0..Pieces, to : 0..Pieces, budget : BOOLEAN]
      /\ new.from = cursor /\ new.to = b /\ new.budget = budget
  BY <1>1
<1> HIDE DEF new
<1>4. /\ Len(chunks') = n + 1 /\ chunks'[n + 1] = new
      /\ \A i \in 1..n : chunks'[i] = chunks[i]
  BY <1>1, <1>2, <1>3
<1>5. \A p : At(p)' = At(p) /\ Row(p)' = Row(p) /\ Torn(p)' = Torn(p)
  BY DEF At, TableRow, Row, Torn
<1>6. ASSUME NEW i \in 1 .. n + 1, Cut(i)'
      PROVE  Row(chunks'[i].from) \/ TableRow(0)
  <2>1. CASE i = n + 1
    BY <1>1, <1>3, <1>4, <1>5, <1>6, <2>1 DEF Cut
  <2>2. CASE i # n + 1
    <3>1. i \in 1..n
      <4>1. n \in Nat
        BY <1>1
      <4> HIDE DEF n
      <4> QED
        BY <2>2, <4>1
    <3>2. Cut(i)
      BY <1>1, <1>4, <1>5, <1>6, <3>1 DEF Cut
    <3> QED
      BY <1>4, <3>1, <3>2 DEF TextBeforeTableProtectsIt
  <2> QED
    BY <2>1, <2>2
<1>7. \A i \in 1 .. n + 1 : Cut(i)' => (Row(chunks[i].from) \/ TableRow(0))'
  BY <1>6 DEF Row, TableRow, At
<1>8. \A i \in 1 .. Len(chunks') : Cut(i)' => (Row(chunks[i].from) \/ TableRow(0))'
  BY <1>4, <1>7
<1> QED
  BY <1>8 DEF TextBeforeTableProtectsIt

\* A table that does not begin its block, in a text that begins with something
\* else, is cut between two rows by no budget, however long it is: the block ends
\* above it (chunking.py:128-151, 188-192).
THEOREM TablesProtected == ChunksSpec => []TextBeforeTableProtectsIt
<1>1. ChunksInit => TextBeforeTableProtectsIt
  BY TextsAssumption DEF ChunksInit, TextBeforeTableProtectsIt
<1>2. Inv /\ TextBeforeTableProtectsIt /\ [ChunksNext]_chunkVars => TextBeforeTableProtectsIt'
  <2> SUFFICES ASSUME Inv, TextBeforeTableProtectsIt, [ChunksNext]_chunkVars
               PROVE  TextBeforeTableProtectsIt'
    OBVIOUS
  <2>1. CASE Turn
    <3>1. /\ cursor \in 0 .. Pieces - 1 /\ text \in Seq(Piece) /\ Pieces \in Nat
          /\ UNCHANGED text
      BY <2>1 DEF Turn, Inv, ChunksTypeOK, Pieces
    <3>2. PICK end \in cursor + 1 .. Pieces, cut \in 0..Pieces, begins \in BeginsWithFence(cursor) :
            /\ IsNominalEnd(end, cursor) /\ IsStructuralEnd(cut, cursor, end, begins)
            /\ WholeBlock(BlockEnd(cut, cursor, end)) \/ SplitBlock(BlockEnd(cut, cursor, end))
      BY <2>1 DEF Turn
    <3> DEFINE b == BlockEnd(cut, cursor, end)
    <3>3. b \in cursor + 1 .. end
      BY <3>1, <3>2, CutWithinBudget
    <3>4. b < Pieces /\ Torn(b) => Row(cursor) \/ TableRow(0)
      BY <3>1, <3>2, CutsProtectTables
    <3> HIDE DEF b
    <3>5. b \in cursor + 1 .. Pieces /\ b \in Nat /\ cursor \in Nat
      BY <3>1, <3>3
    <3>6. CASE WholeBlock(b)
      BY <3>1, <3>4, <3>5, <3>6, ChunkProtects DEF WholeBlock
    <3>7. CASE SplitBlock(b)
      <4>1. PICK k \in Splits(b - cursor) : Chunk(cursor, cursor + k, FALSE)
        BY <3>7 DEF SplitBlock
      <4>2. cursor + k \in cursor + 1 .. Pieces
        BY <3>1, <3>5, <4>1 DEF Splits
      <4> QED
        BY <3>1, <4>1, <4>2, ChunkProtects
    <3> QED
      BY <3>2, <3>6, <3>7 DEF b
  <2>2. CASE UNCHANGED chunkVars
    BY <2>2 DEF chunkVars, TextBeforeTableProtectsIt, Cut, Torn, Row, TableRow, At, Pieces
  <2> QED
    BY <2>1, <2>2 DEF ChunksNext, Finished
<1> QED
  BY <1>1, <1>2, Chunked, PTL DEF ChunksSpec

=============================================================================
