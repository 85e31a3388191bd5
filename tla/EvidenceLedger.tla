--------------------------- MODULE EvidenceLedger ---------------------------
(***************************************************************************)
(* What the stages extract, verify, find, detect and conclude promise of a *)
(* run whose executions follow each other, however often they are          *)
(* interrupted: the evidence grows one stage after the other and no stage  *)
(* is reopened, a statement is judged once and for good, and whatever is   *)
(* published rests on accepted statements and discloses their disputes.    *)
(***************************************************************************)
VARIABLES
  done,       \* the durable stages
  drafts,     \* statements without a verdict,
  accepted,   \*   with a favourable one,
  refused,    \*   with the other
  grounds,    \* the sets of statements that findings rest on
  disputes,   \* the contradictions confirmed, pairs of statements
  published,  \* conclusions [cites, warnings]
  shown       \* those the report shows

judged == <<accepted, refused>>
ledgerVars == <<done, drafts, judged, grounds, disputes, published, shown>>

Earlier ==
  [extract |-> {}, verify |-> {"extract"}, find |-> {"extract", "verify"},
   detect |-> {"extract", "verify", "find"},
   conclude |-> {"extract", "verify", "find", "detect"}]

Stages == DOMAIN Earlier

\* The stage's turn has come and is not over.
Open(stage) == done = Earlier[stage]

Init ==
  /\ done = {} /\ drafts = {} /\ accepted = {} /\ refused = {}
  /\ grounds = {} /\ disputes = {} /\ published = {} /\ shown = {}

Extract ==
  /\ Open("extract") /\ drafts \subseteq drafts'
  /\ UNCHANGED <<done, judged, grounds, disputes, published, shown>>

Judge ==
  /\ Open("verify")
  /\ \E s \in drafts :
       /\ drafts' = drafts \ {s}
       /\ \/ accepted' = accepted \cup {s} /\ UNCHANGED refused
          \/ refused' = refused \cup {s} /\ UNCHANGED accepted
  /\ UNCHANGED <<done, grounds, disputes, published, shown>>

Find ==
  /\ Open("find")
  /\ \E S \in (SUBSET accepted) \ {{}} : grounds' = grounds \cup {S}
  /\ UNCHANGED <<done, drafts, judged, disputes, published, shown>>

Dispute ==
  /\ Open("detect")
  /\ \E s, t \in accepted :
       /\ s # t /\ <<s, t>> \notin disputes
       /\ disputes' = disputes \cup {<<s, t>>}
  /\ UNCHANGED <<done, drafts, judged, grounds, published, shown>>

Touching(cites) == {d \in disputes : {d[1], d[2]} \cap cites # {}}

Publish ==
  /\ Open("conclude") /\ published \subseteq published'
  /\ \A c \in published' \ published :
       c.cites \in (SUBSET accepted) \ {{}} /\ c.warnings = Touching(c.cites)
  /\ UNCHANGED <<done, drafts, judged, grounds, disputes, shown>>

\* The last stage leaves a report of what was published.
Finish(stage) ==
  /\ Open(stage) /\ done' = done \cup {stage}
  /\ shown' \subseteq published /\ (stage # "conclude" => shown' = shown)
  /\ UNCHANGED <<drafts, judged, grounds, disputes, published>>

Next ==
  \/ Extract \/ Judge \/ Find \/ Dispute \/ Publish
  \/ \E stage \in Stages : Finish(stage)

Spec == Init /\ [][Next]_ledgerVars
=============================================================================
