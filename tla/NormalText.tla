----------------------------- MODULE NormalText -----------------------------
(***************************************************************************)
(* Whitespace normalization of app/services/normalizer.py.  A text is a    *)
(* sequence of characters: "x" stands for any that is no whitespace, " "   *)
(* for the blanks of [ \t\r\f\v] and "/" for the newline.                  *)
(***************************************************************************)
EXTENDS Naturals, Sequences, SequencesExt

Break == <<"/", "/">>

\* The characters of s at the positions that stay.
Keep(s, stays(_)) ==
  LET kept == SelectSeq([i \in 1 .. Len(s) |-> i], stays)
  IN  [j \in 1 .. Len(kept) |-> s[kept[j]]]

\* re.sub of runs of blanks by one blank.
OneBlank(s) ==
  LET stays(i) == ~(i > 1 /\ s[i] = " " /\ s[i - 1] = " ") IN Keep(s, stays)

\* re.sub of three or more newlines by two.
TwoNewlines(s) ==
  LET stays(i) == ~(i > 2 /\ {s[i], s[i - 1], s[i - 2]} = {"/"}) IN Keep(s, stays)

\* re.sub of " *\n *" by the newline.
BareNewlines(s) ==
  LET beside(i) == {s[j] : j \in {i - 1, i + 1} \cap (1 .. Len(s))}
      stays(i) == ~(s[i] = " " /\ "/" \in beside(i))
  IN  Keep(s, stays)

\* str.strip
Strip(s) ==
  LET ink == {i \in 1 .. Len(s) : s[i] = "x"}
      stays(i) == (\E j \in ink : j <= i) /\ (\E j \in ink : i <= j)
  IN  Keep(s, stays)

\* _collapse_whitespace
Collapse(s) == Strip(BareNewlines(TwoNewlines(OneBlank(s))))

\* _normalize_html: one paragraph for each collapsed block that is not empty.
Paragraphs(blocks) ==
  FoldLeft(LAMBDA t, b : IF t = <<>> THEN b ELSE t \o Break \o b,
           <<>>, SelectSeq(blocks, LAMBDA b : b # <<>>))

\* _normalize_pdf and _normalize_docx: pages or paragraphs are joined first.
Pages(parts) ==
  Collapse(FoldLeft(LAMBDA t, b : t \o Break \o b, Head(parts), Tail(parts)))
=============================================================================
