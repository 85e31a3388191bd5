------------------------- MODULE MCProvenanceStore -------------------------
(***************************************************************************)
(* An instance of ProvenanceStore for TLC: two collectors of one page, of  *)
(* which the first may also be served unsafe content.                      *)
(***************************************************************************)
EXTENDS ProvenanceStore, TLC

CONSTANTS k1, k2, page, bad

MCServes == k1 :> {page, bad} @@ k2 :> {page}
=============================================================================
