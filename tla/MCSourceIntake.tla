-------------------------- MODULE MCSourceIntake --------------------------
(***************************************************************************)
(* Instances of SourceIntake for TLC.  Pages a and b share a chunk text    *)
(* ("t"); x is refused by the safety filter, m by its parser.              *)
(***************************************************************************)
EXTENDS SourceIntake, TLC

CONSTANTS u1, u2, u3, a, b, m, x

MCUrls == <<u1, u2, u3>>
MCTwoUrls == <<u1, u2>>
MCOneUrl == <<u1>>
MCChunks == a :> <<"s", "t">> @@ b :> <<"t">> @@ m :> <<>> @@ x :> <<>>

\* u1 and u2 may serve the same safe page, u2's may change and may be
\* refused by the filter or its parser; u3 is denied and never fetched.
MixedPages == u1 :> {a} @@ u2 :> {a, b, m, x} @@ u3 :> {}
\* Two URLs, both may serve either page.
SamePages == u1 :> {a, x} @@ u2 :> {a, b}
\* Two URLs that serve the same refused page.
RefusedPages == u1 :> {x} @@ u2 :> {x}
SameChunks == [c \in {a, b, x} |-> MCChunks[c]]
\* One URL that serves a malformed document.
MalformedPage == u1 :> {m}
MalformedChunks == [c \in {m} |-> MCChunks[c]]
RefusedChunks == [c \in {x} |-> MCChunks[c]]
=============================================================================
