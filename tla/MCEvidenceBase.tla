--------------------------- MODULE MCEvidenceBase ---------------------------
(***************************************************************************)
(* Instances of EvidenceBase for TLC: two passages of two domains, a blank *)
(* one, and claims of every degree of support.                             *)
(***************************************************************************)
EXTENDS EvidenceBase, TLC

CONSTANTS p1, p2, p3, c1, c2, c3, c4, d1, d2

MCDomain == p1 :> d1 @@ p2 :> d2 @@ p3 :> d2
MCSameDomain == p1 :> d1 @@ p2 :> d1
MCScore == c1 :> "full" @@ c2 :> "partial" @@ c3 :> "none" @@ c4 :> "full"

\* p1 yields two claims or the whole passage, p2 one claim, perhaps none,
\* p3 is blank and yields no answer.
MCAnswers ==
  p1 :> {<<c1, c2>>, <<c4>>} @@ p2 :> {<<c2>>, <<c3>>, <<>>} @@ p3 :> {}
\* One supported claim per passage.
MCOneClaim == p1 :> {<<c1>>} @@ p2 :> {<<c2>>}
\* One claim per passage, none of them supported.
MCNoSupport == p1 :> {<<c3>>} @@ p2 :> {<<c3>>}
\* Three supported claims.
MCThreeClaims == p1 :> {<<c1, c4>>} @@ p2 :> {<<c2>>}
=============================================================================
