---------------------------- MODULE ChunkerProofs ----------------------------
(***************************************************************************)
(* Proofs about Chunker for any texts and any lengths of chunks.           *)
(***************************************************************************)
EXTENDS Chunker, SequenceTheorems, TLAPS

LEMMA Lengths == MinChars \in Nat /\ MaxChars \in Nat /\ MaxChars >= 1
  BY ChunkerAssumption

(***************************************************************************)
(* What is gathered ends at the cursor, what is left to split too, and     *)
(* there is not both.                                                      *)
(***************************************************************************)
Gathered ==
  /\ current.start < current.stop /\ current.stop = cursor
  /\ current.length = current.stop - current.start
  /\ current.length <= MaxChars /\ rest = Nothing

Splitting == rest.start < rest.stop /\ rest.stop = cursor

SpansInv ==
  /\ TypeOK
  /\ current = NoSpans \/ Gathered
  /\ rest = Nothing \/ Splitting

LEMMA SpanType ==
  ASSUME NEW start, NEW stop
  PROVE  /\ Span(start, stop).start = start /\ Span(start, stop).stop = stop
         /\ start \in Offsets /\ stop \in Offsets => Span(start, stop) \in Spans
         /\ start # stop => Span(start, stop) # Nothing
<1>1. /\ Span(start, stop).start = start /\ Span(start, stop).stop = stop
      /\ start \in Offsets /\ stop \in Offsets => Span(start, stop) \in Spans
  BY DEF Span, Spans
<1>2. Nothing.start = 0 /\ Nothing.stop = 0
  BY DEF Nothing, Span
<1>. QED
  BY <1>1, <1>2

LEMMA Numbers ==
  ASSUME SpansInv
  PROVE  /\ Len(text) \in Nat /\ cursor \in Nat /\ cursor <= Len(text)
         /\ rest.start \in Nat /\ rest.stop \in Nat /\ rest.start <= Len(text)
         /\ rest.stop <= Len(text)
         /\ current.start \in Nat /\ current.stop \in Nat /\ current.length \in Nat
         /\ current.start <= Len(text) /\ current.stop <= Len(text)
         /\ Offsets = 0 .. Len(text)
         /\ current.length > 0 => Gathered
         /\ current.length = 0 => current = NoSpans
         /\ rest # Nothing => Splitting /\ current = NoSpans /\ current.length = 0
         /\ NoSpans.length = 0
<1>1. Len(text) \in Nat
  BY LenProperties DEF SpansInv, TypeOK
<1>2. /\ cursor \in 0 .. Len(text) /\ rest \in Spans
      /\ current \in [start : 0 .. Len(text), stop : 0 .. Len(text), length : 0 .. Len(text)]
  BY DEF SpansInv, TypeOK, Offsets
<1>3. /\ rest.start \in 0 .. Len(text) /\ rest.stop \in 0 .. Len(text)
      /\ current.start \in 0 .. Len(text) /\ current.stop \in 0 .. Len(text)
      /\ current.length \in 0 .. Len(text)
  BY <1>2 DEF Spans, Offsets
<1>4. NoSpans.length = 0
  BY DEF NoSpans
<1>5. Gathered => current.length > 0
  BY <1>3 DEF Gathered
<1>. QED
  BY <1>1, <1>2, <1>3, <1>4, <1>5 DEF SpansInv, Offsets, Gathered

LEMMA FlushedIs ==
  ASSUME SpansInv
  PROVE  /\ current.length = 0 => Flushed(current) = chunks
         /\ current.length > 0 => Flushed(current) = Append(chunks, Span(current.start, cursor))
  BY Numbers DEF Flushed, Gathered

Gathers(spans, start, stop) ==
  /\ spans.start = start /\ spans.stop = stop /\ spans.length = stop - start
  /\ spans \in [start : Offsets, stop : Offsets, length : Offsets]

\* A round over a paragraph that fits: the gathered ones are flushed before it
\* when they would be too long together, and with it when they are enough.
Takes(start, stop, before) ==
  /\ stop \in cursor + 1 .. Len(text) /\ Paragraph(cursor, stop)
  /\ rest = Nothing /\ rest' = Nothing /\ text' = text /\ cursor' = stop
  /\ start \in Offsets /\ stop - start \in 1 .. MaxChars
  /\ \/ before = chunks /\ start = Reached
     \/ /\ before = Append(chunks, Span(current.start, cursor)) /\ start = cursor
        /\ current.length > 0 /\ stop - current.start > MaxChars
  /\ \/ /\ chunks' = Append(before, Span(start, stop)) /\ current' = NoSpans
        /\ stop - start >= MinChars
     \/ chunks' = before /\ Gathers(current', start, stop)

LEMMA GatherTakes ==
  ASSUME SpansInv, Gather
  PROVE  \E start, stop, before : Takes(start, stop, before)
<1>1. PICK stop \in cursor + 1 .. Len(text) :
        LET length == stop - cursor
            alone == Overfull(length) \/ current.length = 0
            spans == IF alone
                     THEN [start |-> cursor, stop |-> stop, length |-> length]
                     ELSE [current EXCEPT !.stop = stop, !.length = @ + length]
            before == IF Overfull(length) THEN Flushed(current) ELSE chunks
        IN  /\ Paragraph(cursor, stop) /\ length <= MaxChars
            /\ cursor' = stop
            /\ \/ /\ Enough(spans.length)
                  /\ chunks' = Append(before, Span(spans.start, spans.stop))
                  /\ current' = NoSpans
               \/ /\ ~Enough(spans.length)
                  /\ chunks' = before /\ current' = spans
  BY DEF Gather
<1>2. rest = Nothing /\ rest' = Nothing /\ text' = text
  BY DEF Gather
<1>. DEFINE length == stop - cursor
<1>3. /\ Paragraph(cursor, stop) /\ length \in 1 .. MaxChars /\ cursor' = stop
      /\ cursor \in Nat /\ stop \in Nat /\ stop <= Len(text) /\ cursor \in Offsets
      /\ stop \in Offsets
  BY <1>1, Numbers, Lengths
<1>. DEFINE single == [start |-> cursor, stop |-> stop, length |-> length]
<1>4. Gathers(single, cursor, stop) /\ single.start = cursor /\ single.stop = stop
      /\ single.length = length
  <2>1. length \in Offsets
    BY <1>3, Numbers
  <2>. QED
    BY <1>3, <2>1 DEF Gathers
<1>5. CASE Overfull(length)
  <2>1. /\ Flushed(current) = Append(chunks, Span(current.start, cursor))
        /\ current.length > 0 /\ current.length + length > MaxChars
    BY <1>5, FlushedIs DEF Overfull
  <2>2. stop - current.start > MaxChars
    BY <1>3, <2>1, Numbers DEF Gathered
  <2>3. \/ /\ chunks' = Append(Flushed(current), Span(cursor, stop)) /\ current' = NoSpans
           /\ length >= MinChars
        \/ chunks' = Flushed(current) /\ Gathers(current', cursor, stop)
    BY <1>1, <1>5, <1>4 DEF Enough
  <2>4. Takes(cursor, stop, Flushed(current))
    BY <1>2, <1>3, <2>1, <2>2, <2>3 DEF Takes
  <2>. QED
    BY <2>4
<1>6. CASE ~Overfull(length) /\ current.length = 0
  <2>1. Reached = cursor
    BY <1>2, <1>6 DEF Reached
  <2>2. \/ /\ chunks' = Append(chunks, Span(cursor, stop)) /\ current' = NoSpans
           /\ length >= MinChars
        \/ chunks' = chunks /\ Gathers(current', cursor, stop)
    BY <1>1, <1>6, <1>4 DEF Enough
  <2>3. Takes(cursor, stop, chunks)
    BY <1>2, <1>3, <2>1, <2>2 DEF Takes
  <2>. QED
    BY <2>3
<1>7. CASE ~Overfull(length) /\ current.length > 0
  <2>. DEFINE spans == [current EXCEPT !.stop = stop, !.length = @ + length]
              start == current.start
  <2>1. Reached = start
    BY <1>7 DEF Reached
  <2>2. /\ Gathered /\ start \in Nat /\ start <= Len(text) /\ current.length + length <= MaxChars
        /\ current.length = cursor - start /\ start < cursor
    BY <1>3, <1>7, Numbers, Lengths DEF Overfull, Gathered
  <2>3. stop - start = current.length + length /\ stop - start \in 1 .. MaxChars
    BY <1>3, <2>2, Lengths
  <2>4. current \in [start : Offsets, stop : Offsets, length : Offsets]
    BY DEF SpansInv, TypeOK
  <2>5. Gathers(spans, start, stop)
    <3>1. /\ spans.start = start /\ spans.stop = stop
          /\ spans.length = current.length + length
      BY <2>4
    <3>2. stop \in Offsets /\ current.length + length \in Offsets
      BY <1>3, <2>2, <2>3, Numbers
    <3>3. spans \in [start : Offsets, stop : Offsets, length : Offsets]
      BY <2>4, <3>2
    <3>. QED
      BY <2>3, <3>1, <3>3 DEF Gathers
  <2>6. \/ /\ chunks' = Append(chunks, Span(start, stop)) /\ current' = NoSpans
           /\ stop - start >= MinChars
        \/ chunks' = chunks /\ Gathers(current', start, stop)
    <3>1. \/ /\ Enough(spans.length)
             /\ chunks' = Append(chunks, Span(spans.start, spans.stop)) /\ current' = NoSpans
          \/ chunks' = chunks /\ current' = spans
      BY <1>1, <1>7, Numbers
    <3>. QED
      BY <2>5, <3>1 DEF Enough, Gathers
  <2>7. start \in Offsets
    BY <2>2, Numbers
  <2>8. Takes(start, stop, chunks)
    BY <1>2, <1>3, <2>1, <2>3, <2>6, <2>7 DEF Takes
  <2>. QED
    BY <2>8
<1>8. current.length = 0 \/ current.length > 0
  BY Numbers
<1>. QED
  BY <1>5, <1>6, <1>7, <1>8

\* A piece is not empty, and leaves something.
LEMMA CutInside ==
  ASSUME SpansInv, rest.stop - rest.start > MaxChars,
         NEW cut \in rest.start .. rest.start + MaxChars, Cut(rest.start, cut)
  PROVE  /\ rest.start < cut /\ cut < rest.stop /\ cut - rest.start \in 1 .. MaxChars
         /\ rest # Nothing /\ Splitting /\ current = NoSpans /\ current.length = 0
         /\ cut \in Nat
<1>1. rest # Nothing
  BY Lengths DEF Nothing, Span
<1>2. Splitting /\ current = NoSpans /\ current.length = 0
  BY <1>1, Numbers
<1>3. rest.start < cut
  <2>1. CASE cut \in Blanks(rest.start + 1, rest.start + MaxChars)
    <3>1. cut \in rest.start + 1 .. rest.start + MaxChars
      BY <2>1 DEF Blanks
    <3>. QED
      BY <3>1, Numbers, Lengths
  <2>2. CASE cut = rest.start + MaxChars
    BY <2>2, Numbers, Lengths
  <2>. QED
    BY <2>1, <2>2 DEF Cut, LastOf
<1>. QED
  BY <1>1, <1>2, <1>3, Numbers, Lengths
LEMMA SpansStep ==
  ASSUME SpansInv, [Next]_vars
  PROVE  SpansInv'
<1>. USE DEF SpansInv
<1>. SUFFICES ASSUME text' = text
              PROVE  SpansInv'
  BY DEF Next, vars, Oversized, SplitPiece, SplitTail, Gather, FlushLast
<1>0. /\ Offsets' = Offsets /\ Spans' = Spans /\ text' \in Seq(Chars)
      /\ NoSpans \in [start : Offsets, stop : Offsets, length : Offsets]
      /\ Nothing \in Spans /\ chunks \in Seq(Spans)
  <2>1. 0 \in Offsets
    BY Numbers
  <2>. QED
    BY <2>1 DEF Offsets, Spans, TypeOK, NoSpans, Nothing, Span
<1>1. ASSUME NEW start \in Offsets, NEW stop \in Offsets, NEW before \in Seq(Spans)
      PROVE  Append(before, Span(start, stop)) \in Seq(Spans)
  BY SpanType, AppendProperties
<1>2. Flushed(current) \in Seq(Spans)
  <2>1. current.start \in Offsets /\ cursor \in Offsets
    BY Numbers
  <2>2. current.length = 0 \/ current.length > 0
    BY Numbers
  <2>. QED
    BY <1>0, <1>1, <2>1, <2>2, FlushedIs
<1>3. CASE Oversized
  <2>1. PICK stop \in cursor + 1 .. Len(text) :
          rest' = Span(cursor, stop) /\ cursor' = stop
    BY <1>3 DEF Oversized
  <2>2. cursor \in Offsets /\ stop \in Offsets /\ cursor < stop
    BY <2>1, Numbers
  <2>3. /\ rest' \in Spans /\ rest'.start = cursor /\ rest'.stop = stop
    BY <2>1, <2>2, SpanType
  <2>4. chunks' = Flushed(current) /\ current' = NoSpans
    BY <1>3 DEF Oversized
  <2>. QED
    BY <1>0, <1>2, <2>1, <2>2, <2>3, <2>4 DEF TypeOK, Splitting
<1>4. CASE SplitPiece
  <2>1. rest.stop - rest.start > MaxChars
    BY <1>4 DEF SplitPiece
  <2>2. PICK cut \in rest.start .. rest.start + MaxChars :
          /\ Cut(rest.start, cut)
          /\ chunks' = Append(chunks, Span(rest.start, cut))
          /\ rest' = Span(cut, rest.stop)
    BY <1>4 DEF SplitPiece
  <2>3. /\ rest.start < cut /\ cut < rest.stop /\ cut \in Nat
        /\ Splitting /\ current = NoSpans
    BY <2>1, <2>2, CutInside
  <2>4. cut \in Offsets /\ rest.start \in Offsets /\ rest.stop \in Offsets
    BY <2>3, Numbers
  <2>5. rest' \in Spans /\ rest'.start = cut /\ rest'.stop = rest.stop
    BY <2>2, <2>4, SpanType
  <2>6. chunks' \in Seq(Spans)
    BY <1>0, <1>1, <2>2, <2>4
  <2>. QED
    BY <1>0, <1>4, <2>3, <2>5, <2>6 DEF TypeOK, Splitting, SplitPiece
<1>5. CASE SplitTail
  <2>1. chunks' = Append(chunks, rest) /\ rest' = Nothing /\ rest # Nothing
        /\ UNCHANGED <<cursor, current>>
    BY <1>5 DEF SplitTail
  <2>2. chunks' \in Seq(Spans)
    BY <1>0, <2>1, AppendProperties DEF TypeOK
  <2>3. current' = NoSpans
    BY <2>1, Numbers
  <2>. QED
    BY <1>0, <2>1, <2>2, <2>3 DEF TypeOK
<1>6. CASE Gather
  <2>1. PICK start, stop, before : Takes(start, stop, before)
    BY <1>6, GatherTakes
  <2>2. /\ stop \in Offsets /\ cursor' = stop /\ rest' = Nothing /\ start \in Offsets
        /\ start < stop /\ stop - start <= MaxChars /\ cursor \in Offsets
    BY <2>1, Numbers, Lengths DEF Takes
  <2>3. before \in Seq(Spans)
    <3>1. before = chunks \/ before = Append(chunks, Span(current.start, cursor))
      BY <2>1 DEF Takes
    <3>2. current.start \in Offsets
      BY Numbers
    <3>. QED
      BY <1>0, <1>1, <2>2, <3>1, <3>2
  <2>4. chunks' \in Seq(Spans)
    BY <1>1, <2>1, <2>2, <2>3 DEF Takes
  <2>5. current' = NoSpans \/ Gathers(current', start, stop)
    BY <2>1 DEF Takes
  <2>. QED
    BY <1>0, <2>2, <2>4, <2>5 DEF TypeOK, Gathered, Gathers
<1>7. CASE FlushLast
  <2>1. /\ chunks' = Flushed(current) /\ current' = NoSpans
        /\ UNCHANGED <<cursor, rest>>
    BY <1>7 DEF FlushLast
  <2>. QED
    BY <1>0, <1>2, <2>1 DEF TypeOK, Splitting
<1>8. CASE UNCHANGED vars
  BY <1>8 DEF vars, TypeOK, Gathered, Splitting, Offsets, Spans
<1>. QED
  BY <1>3, <1>4, <1>5, <1>6, <1>7, <1>8 DEF Next
(***************************************************************************)
(* Paragraphs start at the start of the text or after a break, and what    *)
(* is split is the end of an oversized one.                                *)
(***************************************************************************)
ParagraphInv ==
  /\ cursor = 0 \/ cursor = Len(text) \/ (cursor >= 2 /\ BreakAt(cursor))
  /\ rest # Nothing =>
       \E start \in Offsets : /\ start <= rest.start /\ rest.stop - start > MaxChars
                              /\ IsParagraph(start, rest.stop)

LEMMA ParagraphStep ==
  ASSUME SpansInv, ParagraphInv, [Next]_vars
  PROVE  ParagraphInv'
<1>1. text' = text
  BY DEF Next, vars, Oversized, SplitPiece, SplitTail, Gather, FlushLast
<1>2. /\ \A p : BreakAt(p)' <=> BreakAt(p)
      /\ \A start, stop : IsParagraph(start, stop)' <=> IsParagraph(start, stop)
      /\ Offsets' = Offsets
  BY <1>1 DEF BreakAt, IsParagraph, Paragraph, Offsets
<1>3. ASSUME NEW stop \in cursor + 1 .. Len(text), Paragraph(cursor, stop)
      PROVE  /\ stop = Len(text) \/ (stop >= 2 /\ BreakAt(stop))
             /\ IsParagraph(cursor, stop)
  BY <1>3, Numbers DEF Paragraph, IsParagraph, ParagraphInv
<1>4. CASE Oversized
  <2>1. PICK stop \in cursor + 1 .. Len(text) :
          /\ Paragraph(cursor, stop) /\ stop - cursor > MaxChars
          /\ rest' = Span(cursor, stop) /\ cursor' = stop
    BY <1>4 DEF Oversized
  <2>2. stop = Len(text) \/ (stop >= 2 /\ BreakAt(stop))
    BY <1>3, <2>1
  <2>3. IsParagraph(cursor, stop)
    BY <1>3, <2>1
  <2>4. rest'.start = cursor /\ rest'.stop = stop /\ cursor \in Offsets /\ cursor <= cursor
    BY <2>1, SpanType, Numbers
  <2>5. (cursor = 0 \/ cursor = Len(text) \/ (cursor >= 2 /\ BreakAt(cursor)))'
    BY <1>1, <1>2, <2>1, <2>2 DEF BreakAt
  <2>. QED
    BY <1>2, <2>1, <2>3, <2>4, <2>5 DEF ParagraphInv, IsParagraph, Paragraph, BreakAt
<1>5. CASE SplitPiece
  <2>1. PICK cut \in rest.start .. rest.start + MaxChars :
          Cut(rest.start, cut) /\ rest' = Span(cut, rest.stop)
    BY <1>5 DEF SplitPiece
  <2>2. rest.stop - rest.start > MaxChars /\ cursor' = cursor
    BY <1>5 DEF SplitPiece
  <2>3. rest.start < cut /\ cut \in Nat /\ rest # Nothing
    BY <2>1, <2>2, CutInside
  <2>4. PICK start \in Offsets : /\ start <= rest.start /\ rest.stop - start > MaxChars
                                 /\ IsParagraph(start, rest.stop)
    BY <2>3 DEF ParagraphInv
  <2>5. rest'.start = cut /\ rest'.stop = rest.stop /\ start <= cut
    BY <2>1, <2>3, <2>4, SpanType, Numbers
  <2>. QED
    BY <1>1, <2>2, <2>4, <2>5 DEF ParagraphInv, Offsets, IsParagraph, Paragraph, BreakAt
<1>6. CASE SplitTail
  BY <1>1, <1>6 DEF SplitTail, ParagraphInv, BreakAt
<1>7. CASE Gather
  <2>1. PICK start, stop, before : Takes(start, stop, before)
    BY <1>7, GatherTakes
  <2>2. cursor' = stop /\ rest' = Nothing /\ Nothing' = Nothing
    BY <2>1 DEF Takes, Nothing, Span
  <2>3. stop = Len(text) \/ (stop >= 2 /\ BreakAt(stop))
    BY <1>3, <2>1 DEF Takes
  <2>. QED
    BY <1>1, <2>2, <2>3 DEF ParagraphInv, BreakAt
<1>8. CASE FlushLast
  BY <1>1, <1>8 DEF FlushLast, ParagraphInv, Offsets, IsParagraph, Paragraph, BreakAt
<1>9. CASE UNCHANGED vars
  BY <1>9 DEF vars, ParagraphInv, Offsets, IsParagraph, Paragraph, BreakAt
<1>. QED
  BY <1>4, <1>5, <1>6, <1>7, <1>8, <1>9 DEF Next
(***************************************************************************)
(* A round adds no chunk, one or two; each starts where the last one       *)
(* ended, and each but the very last has a reason to be short.             *)
(***************************************************************************)
Forced(s) ==
  s.stop - s.start < MinChars =>
    \/ InOversized(s.start) /\ InOversized(s.stop)
    \/ \E stop \in Offsets : Paragraph(s.stop, stop) /\ stop - s.start > MaxChars

Sized(s) == s \in Spans /\ s.stop - s.start \in 1 .. MaxChars

AddsNone == chunks' = chunks /\ Reached' = Reached

AddsOne(s) ==
  /\ Sized(s) /\ (Forced(s) \/ Done')
  /\ s.start = Reached /\ Reached' = s.stop
  /\ chunks' = Append(chunks, s)

AddsTwo(s, u) ==
  /\ Sized(s) /\ Forced(s) /\ Sized(u) /\ Forced(u)
  /\ s.start = Reached /\ u.start = s.stop /\ Reached' = u.stop
  /\ chunks' = Append(Append(chunks, s), u)

Adds == AddsNone \/ (\E s : AddsOne(s)) \/ (\E s, u : AddsTwo(s, u))

LEMMA SizedSpan ==
  ASSUME NEW start \in Offsets, NEW stop \in Offsets, stop - start \in 1 .. MaxChars
  PROVE  Sized(Span(start, stop))
  BY SpanType DEF Sized

\* What is gathered is a chunk of a legal length.
LEMMA FlushIsSized ==
  ASSUME SpansInv, current.length > 0
  PROVE  /\ Sized(Span(current.start, cursor)) /\ Reached = current.start
         /\ Flushed(current) = Append(chunks, Span(current.start, cursor))
<1>1. current.start \in Offsets /\ cursor \in Offsets /\ cursor - current.start \in 1 .. MaxChars
  BY Numbers, Lengths DEF Gathered
<1>. QED
  BY <1>1, SizedSpan, FlushedIs DEF Reached

\* The gathered paragraphs are short because the next one fits no more.
LEMMA FlushIsForced ==
  ASSUME SpansInv, NEW stop \in Offsets,
         Paragraph(cursor, stop), stop - current.start > MaxChars
  PROVE  Forced(Span(current.start, cursor))
  BY SpanType DEF Forced

LEMMA PieceIsForced ==
  ASSUME SpansInv, ParagraphInv, rest # Nothing, NEW s,
         s.start \in rest.start .. rest.stop, s.stop \in rest.start .. rest.stop
  PROVE  Forced(s)
<1>1. PICK start \in Offsets : /\ start <= rest.start /\ rest.stop - start > MaxChars
                               /\ IsParagraph(start, rest.stop)
  BY DEF ParagraphInv
<1>2. rest.stop \in Offsets
  BY Numbers
<1>3. ASSUME NEW p \in rest.start .. rest.stop
      PROVE  InOversized(p)
  BY <1>1, <1>2, Numbers DEF InOversized, Offsets
<1>. QED
  BY <1>3 DEF Forced

LEMMA SplitAdds ==
  ASSUME SpansInv, ParagraphInv, SplitPiece \/ SplitTail
  PROVE  Adds
<1>1. CASE SplitPiece
  <2>1. rest.stop - rest.start > MaxChars /\ current' = current
    BY <1>1 DEF SplitPiece
  <2>2. PICK cut \in rest.start .. rest.start + MaxChars :
          /\ Cut(rest.start, cut)
          /\ chunks' = Append(chunks, Span(rest.start, cut))
          /\ rest' = Span(cut, rest.stop)
    BY <1>1 DEF SplitPiece
  <2>. DEFINE s == Span(rest.start, cut)
  <2>3. /\ rest.start < cut /\ cut < rest.stop /\ cut - rest.start \in 1 .. MaxChars
        /\ rest # Nothing /\ current.length = 0 /\ cut \in Nat
    BY <2>1, <2>2, CutInside
  <2>4. s.start = rest.start /\ s.stop = cut
    BY SpanType
  <2>5. Forced(s)
    BY <2>3, <2>4, PieceIsForced, Numbers
  <2>6. Sized(s)
    <3>1. rest.start \in Offsets /\ cut \in Offsets
      BY <2>3, Numbers
    <3>. QED
      BY <2>3, <3>1, SizedSpan
  <2>7. Reached = rest.start
    BY <2>3 DEF Reached
  <2>8. rest'.start = cut /\ rest' # Nothing
    BY <2>2, <2>3, SpanType, Numbers
  <2>9. Reached' = cut
    BY <2>1, <2>3, <2>8 DEF Reached, Nothing, Span
  <2>10. AddsOne(s)
    BY <2>2, <2>4, <2>5, <2>6, <2>7, <2>9 DEF AddsOne
  <2>. QED
    BY <2>10 DEF Adds
<1>2. CASE SplitTail
  <2>1. /\ rest # Nothing /\ rest.stop - rest.start <= MaxChars
        /\ chunks' = Append(chunks, rest) /\ rest' = Nothing
        /\ UNCHANGED <<cursor, current>>
    BY <1>2 DEF SplitTail
  <2>2. Splitting /\ current.length = 0
    BY <2>1, Numbers
  <2>3. Forced(rest)
    BY <2>1, <2>2, PieceIsForced, Numbers DEF Splitting
  <2>4. Sized(rest)
    BY <2>1, <2>2, Numbers, Lengths DEF Splitting, Sized, SpansInv, TypeOK
  <2>5. rest.start = Reached
    BY <2>1, <2>2 DEF Reached
  <2>6. Reached' = rest.stop
    BY <2>1, <2>2 DEF Reached, Splitting, Nothing, Span
  <2>7. AddsOne(rest)
    BY <2>1, <2>3, <2>4, <2>5, <2>6 DEF AddsOne
  <2>. QED
    BY <2>7 DEF Adds
<1>. QED
  BY <1>1, <1>2

LEMMA OversizedAdds ==
  ASSUME SpansInv, Oversized
  PROVE  Adds
<1>1. PICK stop \in cursor + 1 .. Len(text) :
        /\ Paragraph(cursor, stop) /\ stop - cursor > MaxChars
        /\ rest' = Span(cursor, stop)
  BY DEF Oversized
<1>2. chunks' = Flushed(current) /\ current' = NoSpans /\ rest = Nothing
  BY DEF Oversized
<1>3. rest'.start = cursor /\ rest' # Nothing
  BY <1>1, SpanType, Numbers
<1>4. Reached' = cursor
  BY <1>2, <1>3, Numbers DEF Reached, Nothing, Span
<1>5. CASE current.length = 0
  <2>1. Reached = cursor /\ chunks' = chunks
    BY <1>2, <1>5, FlushedIs DEF Reached
  <2>. QED
    BY <1>4, <2>1 DEF Adds, AddsNone
<1>6. CASE current.length > 0
  <2>. DEFINE s == Span(current.start, cursor)
  <2>1. Sized(s) /\ Reached = current.start /\ chunks' = Append(chunks, s)
    BY <1>2, <1>6, FlushIsSized
  <2>2. stop \in Offsets /\ stop - current.start > MaxChars
    BY <1>1, <1>6, Numbers, Lengths DEF Gathered
  <2>3. Forced(s)
    BY <1>1, <2>2, FlushIsForced
  <2>4. s.start = current.start /\ s.stop = cursor
    BY SpanType
  <2>5. AddsOne(s)
    BY <1>4, <2>1, <2>3, <2>4 DEF AddsOne
  <2>. QED
    BY <2>5 DEF Adds
<1>. QED
  BY <1>5, <1>6, Numbers

LEMMA GatherAdds ==
  ASSUME SpansInv, Gather
  PROVE  Adds
<1>1. PICK start, stop, before : Takes(start, stop, before)
  BY GatherTakes
<1>2. /\ stop \in cursor + 1 .. Len(text) /\ Paragraph(cursor, stop)
      /\ rest' = Nothing /\ cursor' = stop
      /\ start \in Offsets /\ stop - start \in 1 .. MaxChars /\ stop \in Offsets
  BY <1>1, Numbers DEF Takes
<1>. DEFINE u == Span(start, stop)
<1>3. Sized(u) /\ u.start = start /\ u.stop = stop
  BY <1>2, SizedSpan, SpanType
<1>4. stop - start >= MinChars => Forced(u)
  BY <1>2, <1>3, Lengths DEF Forced
<1>5. ASSUME chunks' = Append(before, u), current' = NoSpans, stop - start >= MinChars
      PROVE  Forced(u) /\ Reached' = u.stop
  BY <1>2, <1>3, <1>4, <1>5, Numbers DEF Reached, Nothing, Span, NoSpans
<1>6. ASSUME Gathers(current', start, stop)
      PROVE  Reached' = start
  BY <1>2, <1>6, Lengths DEF Gathers, Reached
<1>7. CASE before = chunks /\ start = Reached
  <2>1. CASE chunks' = Append(before, u) /\ current' = NoSpans /\ stop - start >= MinChars
    <3>1. AddsOne(u)
      BY <1>3, <1>5, <1>7, <2>1 DEF AddsOne
    <3>. QED
      BY <3>1 DEF Adds
  <2>2. CASE chunks' = before /\ Gathers(current', start, stop)
    BY <1>6, <1>7, <2>2 DEF Adds, AddsNone
  <2>. QED
    BY <1>1, <2>1, <2>2 DEF Takes
<1>8. CASE /\ before = Append(chunks, Span(current.start, cursor)) /\ start = cursor
           /\ current.length > 0 /\ stop - current.start > MaxChars
  <2>. DEFINE s == Span(current.start, cursor)
  <2>1. Sized(s) /\ Reached = current.start /\ s.start = Reached /\ s.stop = cursor
    BY <1>8, FlushIsSized, SpanType
  <2>2. Forced(s)
    BY <1>2, <1>8, FlushIsForced
  <2>3. CASE chunks' = Append(before, u) /\ current' = NoSpans /\ stop - start >= MinChars
    <3>1. AddsTwo(s, u)
      BY <1>3, <1>5, <1>8, <2>1, <2>2, <2>3 DEF AddsTwo
    <3>. QED
      BY <3>1 DEF Adds
  <2>4. CASE chunks' = before /\ Gathers(current', start, stop)
    <3>1. AddsOne(s)
      BY <1>6, <1>8, <2>1, <2>2, <2>4 DEF AddsOne
    <3>. QED
      BY <3>1 DEF Adds
  <2>. QED
    BY <1>1, <2>3, <2>4 DEF Takes
<1>. QED
  BY <1>1, <1>7, <1>8 DEF Takes

LEMMA RoundAdds ==
  ASSUME SpansInv, ParagraphInv, Next
  PROVE  Adds
<1>1. CASE FlushLast
  <2>. DEFINE s == Span(current.start, cursor)
  <2>1. /\ cursor = Len(text) /\ rest = Nothing /\ current.length > 0
        /\ chunks' = Flushed(current) /\ current' = NoSpans
        /\ UNCHANGED <<text, cursor, rest>>
    BY <1>1 DEF FlushLast
  <2>2. Sized(s) /\ Reached = current.start /\ chunks' = Append(chunks, s)
    BY <2>1, FlushIsSized
  <2>3. s.start = current.start /\ s.stop = cursor
    BY SpanType
  <2>4. Done' /\ Reached' = cursor
    BY <2>1, Numbers DEF Done, Reached, Nothing, Span, NoSpans
  <2>5. AddsOne(s)
    BY <2>2, <2>3, <2>4 DEF AddsOne
  <2>. QED
    BY <2>5 DEF Adds
<1>. QED
  BY <1>1, SplitAdds, OversizedAdds, GatherAdds DEF Next
-----------------------------------------------------------------------------
(* What all the chunks so far have in common. *)

Tiles(seq, reached) ==
  /\ \A i \in 1 .. Len(seq) : seq[i].start = IF i = 1 THEN 0 ELSE seq[i - 1].stop
  /\ reached = IF seq = <<>> THEN 0 ELSE seq[Len(seq)].stop

ChunksInv ==
  /\ Tiles(chunks, Reached) /\ ChunksAreBounded
  /\ \A i \in 1 .. Len(chunks) : Forced(chunks[i]) \/ (i = Len(chunks) /\ Done)

ChunkerInv == SpansInv /\ ParagraphInv /\ ChunksInv

LEMMA TilesOn ==
  ASSUME NEW seq \in Seq(Spans), NEW s \in Spans, Tiles(seq, s.start)
  PROVE  Tiles(Append(seq, s), s.stop)
<1>. DEFINE longer == Append(seq, s)
<1>1. /\ Len(seq) \in Nat /\ Len(longer) = Len(seq) + 1 /\ longer # <<>>
      /\ longer[Len(seq) + 1] = s
      /\ \A i \in 1 .. Len(seq) : longer[i] = seq[i]
      /\ seq = <<>> <=> Len(seq) = 0
  BY AppendProperties, LenProperties, EmptySeq
<1>. HIDE DEF longer
<1>2. ASSUME NEW i \in 1 .. Len(longer)
      PROVE  longer[i].start = IF i = 1 THEN 0 ELSE longer[i - 1].stop
  <2>1. CASE i = Len(seq) + 1
    BY <1>1, <2>1 DEF Tiles
  <2>2. CASE i # Len(seq) + 1
    <3>1. i \in 1 .. Len(seq) /\ (i # 1 => i - 1 \in 1 .. Len(seq))
      BY <1>1, <2>2
    <3>2. longer[i].start = seq[i].start /\ (i # 1 => longer[i - 1] = seq[i - 1])
      BY <1>1, <3>1
    <3>. QED
      BY <3>1, <3>2 DEF Tiles
  <2>. QED
    BY <2>1, <2>2
<1>. QED
  BY <1>1, <1>2 DEF Tiles, longer

\* Once the chunks are returned there are no more rounds.
LEMMA DoneIsTheEnd ==
  ASSUME SpansInv, Done
  PROVE  ~Next
<1>1. /\ rest.stop - rest.start = 0 /\ \A stop \in cursor + 1 .. Len(text) : FALSE
  BY Numbers DEF Done, Nothing, Span
<1>. QED
  BY <1>1, Lengths DEF Done, Next, Oversized, SplitPiece, SplitTail, Gather, FlushLast

\* The reason a chunk is short lies in the text, which does not change.
LEMMA ForcedStays ==
  ASSUME text' = text, NEW i, Forced(chunks'[i])
  PROVE  Forced(chunks[i])'
  BY DEF Forced, InOversized, IsParagraph, Paragraph, BreakAt, Offsets
LEMMA OneMore ==
  ASSUME NEW seq \in Seq(Spans), NEW s, Sized(s),
         \A i \in 1 .. Len(seq) : Sized(seq[i]) /\ Forced(seq[i])
  PROVE  /\ Append(seq, s) \in Seq(Spans)
         /\ \A i \in 1 .. Len(Append(seq, s)) :
              /\ Sized(Append(seq, s)[i])
              /\ Forced(Append(seq, s)[i]) \/ i = Len(Append(seq, s))
         /\ Forced(s) => \A i \in 1 .. Len(Append(seq, s)) : Forced(Append(seq, s)[i])
<1>. DEFINE longer == Append(seq, s)
<1>0. s \in Spans
  BY DEF Sized
<1>1. /\ Len(seq) \in Nat /\ Len(longer) = Len(seq) + 1 /\ longer \in Seq(Spans)
      /\ longer[Len(seq) + 1] = s
      /\ \A i \in 1 .. Len(seq) : longer[i] = seq[i]
  BY <1>0, AppendProperties, LenProperties
<1>. HIDE DEF longer
<1>2. ASSUME NEW i \in 1 .. Len(longer)
      PROVE  /\ Sized(longer[i]) /\ (Forced(longer[i]) \/ i = Len(longer))
             /\ Forced(s) => Forced(longer[i])
  <2>1. CASE i = Len(seq) + 1
    BY <1>1, <2>1
  <2>2. CASE i # Len(seq) + 1
    <3>1. i \in 1 .. Len(seq)
      BY <1>1, <2>2
    <3>2. longer[i] = seq[i]
      BY <1>1, <3>1
    <3>. QED
      BY <3>1, <3>2
  <2>. QED
    BY <2>1, <2>2
<1>. QED
  BY <1>1, <1>2 DEF longer

LEMMA ChunksStep ==
  ASSUME ChunkerInv, [Next]_vars
  PROVE  ChunksInv'
<1>1. CASE UNCHANGED vars
  BY <1>1 DEF vars, ChunkerInv, ChunksInv, Tiles, Reached, ChunksAreBounded, Done, Forced,
              InOversized, IsParagraph, Paragraph, BreakAt, Offsets
<1>2. CASE Next
  <2>1. SpansInv /\ ParagraphInv /\ ChunksInv /\ chunks \in Seq(Spans)
    BY DEF ChunkerInv, SpansInv, TypeOK
  <2>2. text' = text
    BY <1>2 DEF Next, Oversized, SplitPiece, SplitTail, Gather, FlushLast
  <2>3. ~Done /\ Adds
    BY <1>2, <2>1, DoneIsTheEnd, RoundAdds
  <2>4. \A i \in 1 .. Len(chunks) : Sized(chunks[i]) /\ Forced(chunks[i])
    <3>1. ASSUME NEW i \in 1 .. Len(chunks)
          PROVE  chunks[i] \in Spans
      BY <2>1, ElementOfSeq
    <3>. QED
      BY <2>1, <2>3, <3>1 DEF ChunksInv, ChunksAreBounded, Sized
  <2>5. SUFFICES /\ Tiles(chunks', Reached')
                 /\ \A i \in 1 .. Len(chunks') :
                      /\ Sized(chunks'[i])
                      /\ Forced(chunks'[i]) \/ (i = Len(chunks') /\ Done')
    <3>1. ChunksAreBounded'
      BY <2>5 DEF ChunksAreBounded, Sized
    <3>2. ASSUME NEW i \in 1 .. Len(chunks')
          PROVE  Forced(chunks[i])' \/ (i = Len(chunks') /\ Done')
      BY <2>2, <2>5, <3>2, ForcedStays
    <3>. QED
      BY <2>5, <3>1, <3>2 DEF ChunksInv, Tiles
  <2>6. CASE AddsNone
    BY <2>1, <2>4, <2>6 DEF AddsNone, ChunksInv
  <2>7. CASE \E s : AddsOne(s)
    <3>1. PICK s : AddsOne(s)
      BY <2>7
    <3>2. s \in Spans /\ Tiles(chunks, s.start)
      BY <2>1, <3>1 DEF AddsOne, Sized, ChunksInv
    <3>3. Tiles(chunks', Reached')
      BY <2>1, <3>1, <3>2, TilesOn DEF AddsOne
    <3>. QED
      BY <2>1, <2>4, <3>1, <3>3, OneMore DEF AddsOne
  <2>8. CASE \E s, u : AddsTwo(s, u)
    <3>1. PICK s, u : AddsTwo(s, u)
      BY <2>8
    <3>. DEFINE first == Append(chunks, s)
    <3>2. s \in Spans /\ u \in Spans /\ Tiles(chunks, s.start)
      BY <2>1, <3>1 DEF AddsTwo, Sized, ChunksInv
    <3>3. /\ first \in Seq(Spans)
          /\ \A i \in 1 .. Len(first) : Sized(first[i]) /\ Forced(first[i])
      BY <2>1, <2>4, <3>1, OneMore DEF AddsTwo
    <3>4. Tiles(first, u.start)
      BY <2>1, <3>1, <3>2, TilesOn DEF AddsTwo
    <3>. HIDE DEF first
    <3>5. Tiles(Append(first, u), u.stop)
      BY <3>2, <3>3, <3>4, TilesOn
    <3>6. \A i \in 1 .. Len(Append(first, u)) :
            Sized(Append(first, u)[i]) /\ Forced(Append(first, u)[i])
      BY <3>1, <3>3, OneMore DEF AddsTwo
    <3>. QED
      BY <3>1, <3>5, <3>6 DEF AddsTwo, first
  <2>. QED
    BY <2>3, <2>6, <2>7, <2>8 DEF Adds
<1>. QED
  BY <1>1, <1>2

LEMMA ChunkerAlways == Spec => []ChunkerInv
<1>1. Init => ChunkerInv
  <2>. SUFFICES ASSUME Init
                PROVE  ChunkerInv
    OBVIOUS
  <2>1. text \in Seq(Chars) /\ Len(text) \in Nat
    BY ChunkerAssumption, LenProperties DEF Init
  <2>2. Nothing \in Spans /\ NoSpans \in [start : Offsets, stop : Offsets, length : Offsets]
    BY <2>1 DEF Nothing, Span, Spans, NoSpans, Offsets
  <2>3. SpansInv
    BY <2>1, <2>2, EmptySeq DEF Init, SpansInv, TypeOK, Offsets
  <2>4. Reached = 0 /\ Len(chunks) = 0 /\ chunks = <<>>
    BY EmptySeq DEF Init, Reached, NoSpans, Nothing, Span
  <2>. QED
    BY <2>3, <2>4 DEF Init, ChunkerInv, ParagraphInv, ChunksInv, Tiles, ChunksAreBounded
<1>2. ChunkerInv /\ [Next]_vars => ChunkerInv'
  BY SpansStep, ParagraphStep, ChunksStep DEF ChunkerInv
<1>. QED
  BY <1>1, <1>2, PTL DEF Spec

-----------------------------------------------------------------------------
(* Theorems *)

\* Every offset chunk_passages computes stays inside the text, for any text.
THEOREM TypeCorrect == Spec => []TypeOK
<1>1. ChunkerInv => TypeOK
  BY DEF ChunkerInv, SpansInv
<1>. QED
  BY <1>1, ChunkerAlways, PTL

\* chunk_passages: the chunks of any text follow one another without a gap or
\* an overlap, and cover all of it when the function returns.
THEOREM ChunksCoverTheText == Spec => []ChunksTile
<1>1. ChunkerInv => ChunksTile
  <2>. SUFFICES ASSUME ChunkerInv
                PROVE  ChunksTile
    OBVIOUS
  <2>1. Done => Reached = Len(text)
    BY DEF Done, Reached
  <2>. QED
    BY <2>1 DEF ChunkerInv, ChunksInv, Tiles, ChunksTile
<1>. QED
  BY <1>1, ChunkerAlways, PTL

\* chunk_passages and _hard_split: no chunk is empty or longer than max_chars,
\* whatever the lengths are set to.
THEOREM ChunkLengths == Spec => []ChunksAreBounded
<1>1. ChunkerInv => ChunksAreBounded
  BY DEF ChunkerInv, ChunksInv
<1>. QED
  BY <1>1, ChunkerAlways, PTL

\* chunk_passages: a chunk before the last one is shorter than min_chars only
\* where an oversized paragraph was split or the next one fitted no more.
THEOREM ShortChunks == Spec => []ShortChunksAreForced
<1>1. ChunkerInv => ShortChunksAreForced
  <2>. SUFFICES ASSUME ChunkerInv, NEW i \in 1 .. Len(chunks) - 1
                PROVE  Forced(chunks[i])
    BY DEF ShortChunksAreForced, Forced
  <2>1. Len(chunks) \in Nat
    BY LenProperties DEF ChunkerInv, SpansInv, TypeOK
  <2>2. i \in 1 .. Len(chunks) /\ i # Len(chunks)
    BY <2>1
  <2>. QED
    BY <2>2 DEF ChunkerInv, ChunksInv
<1>. QED
  BY <1>1, ChunkerAlways, PTL
=============================================================================
