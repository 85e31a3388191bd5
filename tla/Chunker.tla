------------------------------ MODULE Chunker ------------------------------
(***************************************************************************)
(* chunk_passages of app/services/normalizer.py, one action per round of   *)
(* its loops.  A position p is an offset into the text: the character at   *)
(* offset p is text[p + 1].                                                *)
(*                                                                         *)
(* Of the list `current' only what _flush_spans and _spans_length make of  *)
(* it is kept: the start of its first span, the end of its last one and    *)
(* the sum of their lengths, which is 0 when the list is empty.            *)
(***************************************************************************)
EXTENDS Naturals, Sequences

Chars == {"x", " ", "/"}  \* a letter, a blank, a newline

CONSTANTS
  Texts,     \* the texts to split
  MinChars,  \* _CHUNK_MIN_CHARS
  MaxChars   \* _CHUNK_MAX_CHARS

ASSUME ChunkerAssumption ==
  /\ \A t \in Texts : t \in Seq(Chars)
  /\ MinChars \in Nat /\ MaxChars \in Nat \ {0}

VARIABLES
  text,
  cursor,   \* _paragraph_spans: where the next paragraph starts
  current,  \* the paragraphs gathered for the next chunk
  rest,     \* what _hard_split has left of an oversized paragraph
  chunks

vars == <<text, cursor, current, rest, chunks>>

Span(start, stop) == [start |-> start, stop |-> stop]
Nothing == Span(0, 0)
NoSpans == [start |-> 0, stop |-> 0, length |-> 0]

Init ==
  /\ text \in Texts
  /\ cursor = 0 /\ current = NoSpans /\ rest = Nothing
  /\ chunks = <<>>

BreakAt(p) == text[p - 1] = "/" /\ text[p] = "/"

\* A paragraph takes its separator along; the last one ends with the text.
Paragraph(start, stop) ==
  /\ start < stop
  /\ stop = Len(text) \/ (start + 2 <= stop /\ BreakAt(stop))
  /\ \A p \in start + 2 .. stop - 1 : ~BreakAt(p)

\* str.rfind: only the offsets the text has are searched.
Blanks(first, last) == {p \in first .. last : p < Len(text) /\ text[p + 1] = " "}

LastOf(blanks, start, cut) ==
  \/ cut \in blanks /\ \A p \in blanks : p <= cut
  \/ blanks = {} /\ cut = start + MaxChars

\* Mutant: the search for a blank starts at the cursor.
Cut_FromCursor(start, cut) == LastOf(Blanks(start, start + MaxChars), start, cut)

\* text.rfind(" ", start + 1, start + max_chars + 1), or max_chars further on.
Cut(start, cut) == LastOf(Blanks(start + 1, start + MaxChars), start, cut)

Flushed(spans) ==
  IF spans.length > 0 THEN Append(chunks, Span(spans.start, spans.stop)) ELSE chunks

\* Mutant: the gathered paragraphs wait until the oversized one is split.
Oversized_NoFlush ==
  /\ rest = Nothing
  /\ \E stop \in cursor + 1 .. Len(text) :
       /\ Paragraph(cursor, stop) /\ stop - cursor > MaxChars
       /\ rest' = Span(cursor, stop)
       /\ cursor' = stop
  /\ UNCHANGED <<text, current, chunks>>

\* A paragraph that fits no chunk: flush what there is, then split it.
Oversized ==
  /\ rest = Nothing
  /\ \E stop \in cursor + 1 .. Len(text) :
       /\ Paragraph(cursor, stop) /\ stop - cursor > MaxChars
       /\ rest' = Span(cursor, stop)
       /\ cursor' = stop
  /\ chunks' = Flushed(current)
  /\ current' = NoSpans
  /\ UNCHANGED text

SplitPiece ==
  /\ rest.stop - rest.start > MaxChars
  /\ \E cut \in rest.start .. rest.start + MaxChars :
       /\ Cut(rest.start, cut)
       /\ chunks' = Append(chunks, Span(rest.start, cut))
       /\ rest' = Span(cut, rest.stop)
  /\ UNCHANGED <<text, cursor, current>>

SplitTail ==
  /\ rest # Nothing /\ rest.stop - rest.start <= MaxChars
  /\ chunks' = Append(chunks, rest)
  /\ rest' = Nothing
  /\ UNCHANGED <<text, cursor, current>>

\* Mutant: every paragraph is flushed.
Enough_Always(length) == TRUE

Overfull(length) == current.length > 0 /\ current.length + length > MaxChars
Enough(length) == length >= MinChars

\* A paragraph joins the gathered ones, or takes their place when it would
\* make them too long; they become a chunk once they are long enough.
Gather ==
  /\ rest = Nothing
  /\ \E stop \in cursor + 1 .. Len(text) :
       LET length == stop - cursor
           alone == Overfull(length) \/ current.length = 0
           spans == IF alone
                    THEN [start |-> cursor, stop |-> stop, length |-> length]
                    ELSE [current EXCEPT !.stop = stop, !.length = @ + length]
           before == IF Overfull(length) THEN Flushed(current) ELSE chunks
       IN  /\ Paragraph(cursor, stop) /\ length <= MaxChars
           /\ cursor' = stop
           /\ \/ /\ Enough(spans.length)
                 /\ chunks' = Append(before, Span(spans.start, spans.stop))
                 /\ current' = NoSpans
              \/ /\ ~Enough(spans.length)
                 /\ chunks' = before /\ current' = spans
  /\ UNCHANGED <<text, rest>>

\* Mutant: what is left is dropped unless it is long enough.
FlushLast_Enough ==
  /\ cursor = Len(text) /\ rest = Nothing /\ Enough(current.length)
  /\ chunks' = Flushed(current)
  /\ current' = NoSpans
  /\ UNCHANGED <<text, cursor, rest>>

FlushLast ==
  /\ cursor = Len(text) /\ rest = Nothing /\ current.length > 0
  /\ chunks' = Flushed(current)
  /\ current' = NoSpans
  /\ UNCHANGED <<text, cursor, rest>>

Next == Oversized \/ SplitPiece \/ SplitTail \/ Gather \/ FlushLast

Spec == Init /\ [][Next]_vars

\* A sequential program: it runs until it returns.
FairSpec == Spec /\ WF_vars(Next)

Done == cursor = Len(text) /\ rest = Nothing /\ current.length = 0

-----------------------------------------------------------------------------
(* Properties *)

Offsets == 0 .. Len(text)
Spans == [start : Offsets, stop : Offsets]

TypeOK ==
  /\ text \in Seq(Chars) /\ cursor \in Offsets
  /\ rest \in Spans /\ chunks \in Seq(Spans)
  /\ current \in [start : Offsets, stop : Offsets, length : Offsets]

\* Where the next chunk has to start.
Reached ==
  IF current.length > 0 THEN current.start
  ELSE IF rest # Nothing THEN rest.start ELSE cursor

\* "Chunks are exact substrings of text and cover it contiguously": nothing
\* between two chunks is lost, repeated or reordered, at any time, and in the
\* end the last one reaches the end of the text.
ChunksTile ==
  /\ \A i \in 1 .. Len(chunks) :
       chunks[i].start = IF i = 1 THEN 0 ELSE chunks[i - 1].stop
  /\ Reached = IF chunks = <<>> THEN 0 ELSE chunks[Len(chunks)].stop
  /\ Done => Reached = Len(text)

\* No chunk is empty and none is longer than max_chars.
ChunksAreBounded ==
  \A i \in 1 .. Len(chunks) : chunks[i].stop - chunks[i].start \in 1 .. MaxChars

\* Some paragraph, from the start of the text on, spans start .. stop.
IsParagraph(start, stop) ==
  /\ Paragraph(start, stop)
  /\ start = 0 \/ (start >= 2 /\ BreakAt(start))

InOversized(p) ==
  \E start, stop \in Offsets :
    /\ start <= p /\ p <= stop /\ stop - start > MaxChars
    /\ IsParagraph(start, stop)

\* The docstring's lower bound, as far as it goes: a chunk is shorter than
\* min_chars only if it is the last one, a piece of a paragraph that had to be
\* split, or if the paragraph after it would have made it too long.
ShortChunksAreForced ==
  \A i \in 1 .. Len(chunks) - 1 :
    chunks[i].stop - chunks[i].start < MinChars =>
      \/ InOversized(chunks[i].start) /\ InOversized(chunks[i].stop)
      \/ \E stop \in Offsets :
           Paragraph(chunks[i].stop, stop) /\ stop - chunks[i].start > MaxChars

\* What is split is trimmed, and its blanks stand alone between words.
TextIsClean ==
  /\ text # <<>> => text[1] = "x" /\ text[Len(text)] = "x"
  /\ \A p \in 1 .. Len(text) - 1 :
       text[p] = " " \/ text[p + 1] = " " => "x" \in {text[p], text[p + 1]}

\* chunk_passages returns: every piece of an oversized paragraph makes it
\* shorter.
ChunkingEnds == <>Done
=============================================================================
