---------------------------- MODULE SemanticChunks ----------------------------
(***************************************************************************)
(* How a Markdown text is cut into chunks: semantic_chunks() and           *)
(* _structural_end() of s13code/core/memory/chunking.py.  A block of at    *)
(* most max_words words, ended early where Markdown's structure asks for   *)
(* it, is shown to a topic segmenter, a language model that may answer     *)
(* anything; what it returns is believed when it is a proper suffix of the *)
(* block, which is then the start of the next block.                       *)
(*                                                                         *)
(* A text is the sequence of its pieces, a piece being a word or a part of *)
(* one, told by what comes before it; position p lies before piece p + 1.  *)
(* A suffix may start at any piece, inside a word too, and what begins     *)
(* there is read as a line and as a word of its own.  Left out: a line of  *)
(* # signs alone, which takes the line below for its title, and what else  *)
(* a chunk records.                                                        *)
(***************************************************************************)
EXTENDS Integers, Sequences, FiniteSets

CONSTANTS
    Texts,        \* the texts to cut
    MaxWords,     \* max_words
    Floor         \* min_words: shorter blocks are not shown to the segmenter

\* What begins a line: a heading ("#"), a fence, a row of a table below another
\* line ("row") or below a blank one ("top"), or any other text.
LineStart == {"mark", "fence", "row", "top", "text"}

\* A "word" goes on with its line, "more" with the word of the piece before it.
Piece == LineStart \cup {"word", "more"}

ASSUME TextsAssumption    == Texts \subseteq Seq(Piece)
ASSUME MaxWordsAssumption == MaxWords \in Nat \ {0}
ASSUME FloorAssumption    == Floor \in Nat

VARIABLES
    text, newline,    \* the text, and whether it ends with a newline
    cursor,           \* pending_start
    chunks,           \* raw: [from, to, budget], budget telling that no suffix was split off
    turns             \* how often the loop was entered

chunkVars == <<text, newline, cursor, chunks, turns>>

Pieces == Len(text)
At(p)  == text[p + 1]

\* The words from a to b; where a lies inside a word, the rest of it is one.
WordStarts(a, b) == {p \in a .. b - 1 : p = a \/ At(p) # "more"}
Words(a, b)      == Cardinality(WordStarts(a, b))

\* The values of every variable.
ChunksTypeOK ==
    /\ text \in Seq(Piece) /\ newline \in BOOLEAN
    /\ cursor \in 0..Pieces /\ turns \in Nat
    /\ chunks \in Seq([from : 0..Pieces, to : 0..Pieces, budget : BOOLEAN])

ChunksInit ==
    /\ text \in Texts /\ newline \in BOOLEAN
    /\ cursor = 0 /\ chunks = << >> /\ turns = 0

-----------------------------------------------------------------------------
(* _structural_end(): where the block from start is cut, the budget being end. *)

IsLast(p, S)  == p \in S /\ \A q \in S : q <= p
IsFirst(p, S) == p \in S /\ \A q \in S : p <= q

\* A heading is seen when a word of its title is within the budget.
Headings(start, end) ==
    {p \in start + 1 .. end - 1 : At(p) = "mark" /\ \E q \in p + 1 .. end - 1 : At(q) # "more"}

Fences(start, end) == {p \in start + 1 .. end - 1 : At(p) = "fence"}

\* Whether the block begins with a fence: what lies inside a line may, or not.
BeginsWithFence(start) == IF At(start) \in LineStart THEN {At(start) = "fence"} ELSE BOOLEAN

\* The line starts after a newline of the block.
Lines(start, end) == {p \in start + 1 .. end - 1 : At(p) \in LineStart}

TableRow(p) == At(p) \in {"row", "top"}

AfterNewline(end) == end = Pieces /\ newline

\* The budget ends in a row of a table.
EndsInTable(start, end) ==
    ~AfterNewline(end) /\ \E p \in Lines(start, end) : IsLast(p, Lines(start, end)) /\ TableRow(p)

\* The rows at the end of the block, walked back from the last; a blank line
\* ends the walk.
TableRows(start, end) ==
    {p \in Lines(start, end) :
        \A q \in Lines(start, end) : q >= p => TableRow(q) /\ (q > p => At(q) = "row")}

\* Mutant: only the last row is looked at.
IsTableStartOfRow(p, start, end) == IsLast(p, Lines(start, end))

\* The walk ends above the table, or, coming to the block's first line, by asking
\* whether the whole text begins with a row; if so it runs into the block's start.
IsTableStart(p, start, end) ==
    /\ IsFirst(p, TableRows(start, end))
    /\ ~(TableRows(start, end) = Lines(start, end) /\ At(p) = "row" /\ TableRow(0))

\* Within the block the last heading comes first, then a fence left open, then
\* the table the budget ends in; otherwise the budget ends the block.
IsStructuralEnd(cut, start, end, begins) ==
    LET H == Headings(start, end)
        F == Fences(start, end)
        headed == H # {}
        fenced == F # {} /\ (Cardinality(F) % 2 = 1) # begins
        tabled == EndsInTable(start, end) /\ \E p \in TableRows(start, end) : IsTableStart(p, start, end)
    IN  CASE headed            -> IsLast(cut, H)
          [] ~headed /\ fenced -> IsLast(cut, F)
          [] ~headed /\ ~fenced /\ tabled -> IsTableStart(cut, start, end)
          [] OTHER             -> cut = end

-----------------------------------------------------------------------------
(* One turn of the loop of semantic_chunks(). *)

\* Mutant: one word more than the budget.
IsNominalEndOver(end, start) ==
    /\ Words(start, end) <= MaxWords + 1
    /\ end < Pieces => At(end) # "more" /\ Words(start, end) = MaxWords + 1

\* The budget ends with its last word, or with the text.
IsNominalEnd(end, start) ==
    /\ Words(start, end) <= MaxWords
    /\ end < Pieces => At(end) # "more" /\ Words(start, end) = MaxWords

\* A structural end at the start of the block would stall the loop.
BlockEnd(cut, start, end) == IF cut <= start THEN end ELSE cut

\* Mutant: the whole block passes for a second topic.
SplitsAnywhere(n) == 0 .. n - 1

\* Where the suffix may begin that a segmenter returns; never at the start.
Splits(n) == 1 .. n - 1

\* Mutant: the text goes on after the block, not at its second topic.
ResumesAfter(split, end) == end

\* After a split the second topic is read again, in a block of its own.
Resumes(split, end) == split

Chunk(a, b, budget) ==
    chunks' = IF a = b THEN chunks ELSE Append(chunks, [from |-> a, to |-> b, budget |-> budget])

\* Mutant: a word is taken for the space after the block.
WholeBlockPast(end) == Chunk(cursor, end, TRUE) /\ cursor' = end + 1

\* One topic, an answer that is no suffix, a failing or an unasked segmenter.
WholeBlock(end) == Chunk(cursor, end, TRUE) /\ cursor' = end

SplitBlock(end) ==
    /\ Words(cursor, end) >= Floor
    /\ \E k \in Splits(end - cursor) :
        /\ Chunk(cursor, cursor + k, FALSE)
        /\ cursor' = Resumes(cursor + k, end)

Turn ==
    /\ cursor < Pieces
    /\ \E end \in cursor + 1 .. Pieces, cut \in 0..Pieces, begins \in BeginsWithFence(cursor) :
        /\ IsNominalEnd(end, cursor)
        /\ IsStructuralEnd(cut, cursor, end, begins)
        /\ LET block == BlockEnd(cut, cursor, end) IN WholeBlock(block) \/ SplitBlock(block)
    /\ turns' = turns + 1
    /\ UNCHANGED <<text, newline>>

Finished == cursor = Pieces /\ UNCHANGED chunkVars

ChunksNext == Turn \/ Finished

ChunksSpec == ChunksInit /\ [][ChunksNext]_chunkVars

-----------------------------------------------------------------------------
\* The chunks are the text: they follow one another without gap or overlap from
\* its first word to where the loop stands, whatever the segmenter answers.
NothingLostOrRepeated ==
    LET start(i) == IF i = 1 THEN 0 ELSE chunks[i - 1].to IN
    /\ \A i \in 1..Len(chunks) : chunks[i].from = start(i) /\ chunks[i].from < chunks[i].to
    /\ cursor = start(Len(chunks) + 1)

\* Every turn of the loop, which may cost a call of a language model, makes one
\* chunk and uses up some of the text, so the loop ends; but a turn may use up
\* no more than a character, not a word (chunking.py:189-192, 216-237).
TurnsAdvance == turns = Len(chunks) /\ turns <= cursor

\* No chunk has more words than the budget, structure and topics notwithstanding,
\* and nothing but a segmenter's answer ends one inside a word.
WithinBudget ==
    \A i \in 1..Len(chunks) :
        /\ Words(chunks[i].from, chunks[i].to) <= MaxWords
        /\ chunks[i].budget => chunks[i].to = Pieces \/ At(chunks[i].to) # "more"

\* The line a piece stands in is a row of a table; a row is torn from the one above.
Row(p)    == \E q \in 0..p : TableRow(q) /\ \A w \in q + 1 .. p : At(w) \notin LineStart
Torn(p)   == At(p) = "row" /\ Row(p - 1)
Cut(i)    == chunks[i].budget /\ chunks[i].to < Pieces /\ Torn(chunks[i].to)

\* The budget cuts a table only in a block that began in a row, or in a text that
\* began with one (chunking.py:141-150).
TextBeforeTableProtectsIt ==
    \A i \in 1..Len(chunks) : Cut(i) => Row(chunks[i].from) \/ TableRow(0)

\* "Avoid cutting Markdown's indivisible structures at a word budget"
\* (chunking.py:129): a table the budget has room for is not cut.
FittingTablesStayWhole ==
    \A i \in 1..Len(chunks) : Cut(i) =>
        \E p, q \in 0..Pieces :
            /\ p < chunks[i].to /\ chunks[i].to < q /\ Words(p, q) > MaxWords
            /\ \A w \in p .. q - 1 : Row(w) /\ (w > p => At(w) # "top")

=============================================================================
