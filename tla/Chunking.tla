------------------------------- MODULE Chunking -------------------------------
(***************************************************************************)
(* chunk_document (chunking.py): a text is split into blocks, blocks too   *)
(* large into windows, these are packed into chunks, and each chunk but    *)
(* the first is extended backwards over the tokens before it.  A text is a *)
(* sequence of characters, each standing for a kind: a character of a      *)
(* token, punctuation, the sign of a heading, a line end.  (A blank within *)
(* a line separates tokens as punctuation does.)  A span is the positions  *)
(* of its first and last character, and how many tokens it counts.         *)
(***************************************************************************)
EXTENDS Naturals, Sequences, SequencesExt, FiniteSetsExt

CONSTANTS
    MaxLength,  \* bound on the length of a text
    MaxTarget   \* bound on target_tokens

Letter == "w"
Other == "."
Hash == "#"
NewLine == "n"

VARIABLES
    text, target, overlap,  \* the call
    done, chunks            \* whether it has returned, and what

vars == <<text, target, overlap, done, chunks>>

Init ==
    /\ text \in UNION {[1..n -> {Letter, Other, Hash, NewLine}] : n \in 0..MaxLength}
    /\ target \in 1..MaxTarget
    /\ overlap \in 0..(target - 1)
    /\ done = FALSE
    /\ chunks = <<>>

(***************************************************************************)
(* The text.                                                               *)
(***************************************************************************)
Ink(i) == text[i] # NewLine
Starts(i) == text[i] = Letter /\ (i = 1 \/ text[i - 1] # Letter)
Ends(i) == text[i] = Letter /\ (i = Len(text) \/ text[i + 1] # Letter)

\* TOKEN_RE.finditer: the maximal runs of letters, in order.
TokenFirsts == SetToSortSeq({i \in DOMAIN text : Starts(i)}, <)
TokenLasts == SetToSortSeq({i \in DOMAIN text : Ends(i)}, <)

TokenCount(first, last) == Cardinality({i \in first..last : Starts(i)})
Span(first, last) == [first |-> first, last |-> last, tokens |-> TokenCount(first, last)]

(***************************************************************************)
(* _structural_spans: a block begins at the first character that is not    *)
(* blank, after a blank line, and at a heading; it ends with the last      *)
(* character that is not blank before the next one.                        *)
(***************************************************************************)
Between(i, j) == Cardinality({k \in i..j : ~Ink(k)})    \* line ends
PrevInk(i) == {k \in 1..(i - 1) : Ink(k)}

BlockBegins(i) ==
    /\ Ink(i)
    /\ \/ PrevInk(i) = {}
       \/ Between(Max(PrevInk(i)), i) >= 2
       \/ Between(Max(PrevInk(i)), i) = 1 /\ text[i] = Hash

Blocks ==
    LET firsts == SetToSortSeq({i \in DOMAIN text : BlockBegins(i)}, <)
        End(n) == IF n = Len(firsts) THEN Len(text) + 1 ELSE firsts[n + 1]
    IN [n \in DOMAIN firsts |-> Span(firsts[n], Max(PrevInk(End(n))))]

\* _size_bound_spans: a block of more than target tokens becomes windows of
\* target tokens, from the first letter to the last.
Windows(span) ==
    LET of == SelectSeq([n \in DOMAIN TokenFirsts |-> n],
                        LAMBDA n : TokenFirsts[n] \in span.first..span.last)
        count == (Len(of) + target - 1) \div target
    IN [w \in 1..count |->
           LET first == (w - 1) * target + 1
               last == IF w = count THEN Len(of) ELSE w * target
           IN Span(TokenFirsts[of[first]], TokenLasts[of[last]])]

Bounded == FlattenSeq([n \in DOMAIN Blocks |->
              IF Blocks[n].tokens <= target THEN <<Blocks[n]>> ELSE Windows(Blocks[n])])

\* Mutant of Fits: whether the chunk so far is within the target.
FitsSoFar(chunk, span) == chunk.tokens <= target

Fits(chunk, span) == chunk.tokens + span.tokens <= target

\* _pack_spans: a span joins the chunk before it while the sum of their tokens fits.
Packed ==
    FoldLeft(LAMBDA packed, span :
               IF packed # <<>> /\ Fits(Last(packed), span)
               THEN [packed EXCEPT ![Len(packed)] =
                       [@ EXCEPT !.last = span.last, !.tokens = @ + span.tokens]]
               ELSE Append(packed, span),
             <<>>, Bounded)

\* Mutant of Extended: the tokens of the chunk itself are counted, too.
ExtendedLess(span) ==
    LET before == {n \in DOMAIN TokenFirsts : TokenFirsts[n] <= span.first}
        from == Max({1, Cardinality(before) - overlap + 1})
    IN IF overlap = 0 \/ before = {} THEN span ELSE Span(TokenFirsts[from], span.last)

\* _apply_overlap: back to the overlap-th token before the chunk's first.
Extended(span) ==
    LET before == {n \in DOMAIN TokenFirsts : TokenFirsts[n] < span.first}
        from == Max({1, Cardinality(before) - overlap + 1})
    IN IF overlap = 0 \/ before = {} THEN span ELSE Span(TokenFirsts[from], span.last)

ChunkDocument ==
    /\ ~done /\ done' = TRUE
    /\ chunks' = [n \in DOMAIN Packed |-> IF n = 1 THEN Packed[n] ELSE Extended(Packed[n])]
    /\ UNCHANGED <<text, target, overlap>>

Next == ChunkDocument

Spec == Init /\ [][Next]_vars

--------------------------------------------------------------------------------
(***************************************************************************)
(* Properties.                                                             *)
(***************************************************************************)
Tokens(chunk) == {n \in DOMAIN TokenFirsts : TokenFirsts[n] >= chunk.first
                                              /\ TokenLasts[n] <= chunk.last}

\* Of any text, every token is in a chunk, none is cut in two, no chunk counts more
\* than the target and the overlap, and a chunk shares with the one before it
\* exactly the overlap, or all that was before it: nothing a document says is lost
\* to recall between two chunks.
ChunksComplete ==
    done =>
        /\ DOMAIN TokenFirsts = UNION {Tokens(chunks[n]) : n \in DOMAIN chunks}
        /\ \A n \in DOMAIN chunks :
             /\ chunks[n].tokens = Cardinality(Tokens(chunks[n]))
             /\ chunks[n].tokens <= target + overlap
        /\ \A n \in 2..Len(chunks) :
             LET own == Tokens(chunks[n]) \ Tokens(chunks[n - 1])
             IN /\ own # {}
                /\ Cardinality(Tokens(chunks[n]) \cap Tokens(chunks[n - 1]))
                     = Min({overlap, Min(own) - 1})
================================================================================
