----------------------------- MODULE MCChunker -----------------------------
(***************************************************************************)
(* Instances of Chunker for TLC: it splits every text that the normalizers *)
(* make of two short parts: the blocks of an HTML page, which are          *)
(* collapsed before they are joined, or the pages of a document.           *)
(***************************************************************************)
EXTENDS Chunker, NormalText

Raw(n) == UNION {[1 .. i -> Chars] : i \in 0 .. n}
Blocks == {Collapse(s) : s \in Raw(6)}

MCTexts ==
  {Paragraphs(<<a, b>>) : a, b \in Blocks} \cup {Pages(<<a, b>>) : a, b \in Raw(4)}
=============================================================================
