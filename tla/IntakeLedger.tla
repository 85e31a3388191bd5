---------------------------- MODULE IntakeLedger ----------------------------
(***************************************************************************)
(* What the stages collect and store promise of a run whose executions     *)
(* follow each other, however often they are interrupted and whatever a    *)
(* repeated fetch returns: a URL is recorded once, before collect is over; *)
(* a source is made whole in one step, and once; nothing recorded changes  *)
(* in any other way.                                                       *)
(***************************************************************************)
EXTENDS Naturals, Sequences

CONSTANTS
  Wanted,  \* the URLs to record
  Chunks   \* Chunks[c]: the texts of the passages of content c

VARIABLES
  done,     \* the durable stages
  waiting,  \* sources recorded with a content, [uri, hash, page],
  refused,  \* and without one
  whole,    \* sources with all their passages
  kept      \* the passages, [source, seq, text]

ledgerVars == <<done, waiting, refused, whole, kept>>

Init == done = {} /\ waiting = {} /\ refused = {} /\ whole = {} /\ kept = {}

\* Neither its URL nor its digest has been recorded before.
New(x) ==
  /\ x.uri \in Wanted
  /\ \A y \in waiting \cup refused : y.uri # x.uri /\ y.hash # x.hash

Record ==
  /\ done = {}
  /\ \/ /\ \E x \in waiting' : New(x) /\ waiting' = waiting \cup {x}
        /\ UNCHANGED refused
     \/ /\ \E x \in refused' : New(x) /\ refused' = refused \cup {x}
        /\ UNCHANGED waiting
  /\ UNCHANGED <<done, whole, kept>>

FinishCollect ==
  /\ done = {} /\ \A u \in Wanted : \E x \in waiting \cup refused : x.uri = u
  /\ done' = {"collect"}
  /\ UNCHANGED <<waiting, refused, whole, kept>>

PassagesFor(x) ==
  {[source |-> x.hash, seq |-> i, text |-> Chunks[x.page][i]] : i \in DOMAIN Chunks[x.page]}

MakeWhole ==
  /\ done = {"collect"}
  /\ \E x \in waiting :
       /\ \A p \in kept : p.source # x.hash
       /\ waiting' = waiting \ {x} /\ whole' = whole \cup {x}
       /\ kept' = kept \cup PassagesFor(x)
  /\ UNCHANGED <<done, refused>>

FinishStore ==
  /\ done = {"collect"} /\ waiting = {} /\ done' = {"collect", "store"}
  /\ UNCHANGED <<waiting, refused, whole, kept>>

Next == Record \/ FinishCollect \/ MakeWhole \/ FinishStore

Spec == Init /\ [][Next]_ledgerVars
=============================================================================
