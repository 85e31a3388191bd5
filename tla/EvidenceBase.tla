---------------------------- MODULE EvidenceBase ----------------------------
(***************************************************************************)
(* Stages extract, verify, find, detect and conclude: how passages become  *)
(* draft statements, verdicts, findings, contradictions and conclusions    *)
(* (app/pipeline/stages and the services they call).                       *)
(*                                                                         *)
(* Executors run these stages of one run, crash and are resumed; several   *)
(* may run at once.  Rows are numbered in the order of insertion.  What an *)
(* LLM answers is a choice; a claim is a model value.                      *)
(***************************************************************************)
EXTENDS Naturals, Sequences, FiniteSets

Sets == INSTANCE FiniteSetsExt

CONSTANTS
  Passages,       \* the passages of the run's normalized sources
  Blank,          \* those of them whose text is nothing but blanks
  Domain,         \* Domain[p]: the domain of the source of p
  Score,          \* Score[c]: lexical support of claim c in its passage
  Whole,          \* the claims whose text is the text of their passage
  Answers,        \* Answers[p]: the claims an extraction of p may return
  Flags,          \* what an LLM's yes-or-no judgement of a conclusion may be
  Executors,
  MaxExtract, MaxVerify, MaxDetect, MaxPairs, MaxReport,  \* caps of the code
  MaxDrafts,      \* bound: conclusions in one answer
  MaxStatements,  \* bound: statements ever extracted
  MaxFaults       \* bound: crashes, pauses and service failures

Claims == DOMAIN Score

ASSUME EvidenceAssumption ==
  /\ Blank \subseteq Passages
  /\ Score \in [Claims -> {"none", "partial", "full"}]
  /\ Whole \subseteq Claims /\ \A c \in Whole : Score[c] = "full"
  /\ \A p \in Passages : Answers[p] \subseteq Seq(Claims)
  /\ Flags \subseteq BOOLEAN
  /\ {MaxExtract, MaxVerify, MaxDetect, MaxPairs, MaxReport,
      MaxDrafts, MaxStatements, MaxFaults} \subseteq Nat

VARIABLES
  statements,      \* rows [passage, claim, status]
  verdicts,        \* method='verify' link and audit row of one commit:
                   \*   [statement, score, decision]
  findings,        \* rows [domain, tier, statements]
  contradictions,  \* confirmed rows: pairs of statements
  conclusions,     \* rows [cites, warnings, support, oneSided, review]; all but
                   \*   cites and review are in the audit row or the report
  report,          \* the conclusions named by the report in the checkpoint
  markdown,        \* the conclusions in the blob report.md, a sequence of <= 1
  cps,             \* the checkpointed stages
  pc, left,        \* per executor: point of control, stages to execute
  todo,            \* the items its stage has still to process
  at,              \* what it has read and is about to use
  made,            \* the rows its stage has made
  faults

rows == <<statements, verdicts, findings, contradictions, conclusions>>
outcome == <<report, markdown, cps>>
db == <<rows, outcome>>
mine == <<left, todo, at, made>>
vars == <<db, pc, mine, faults>>

KnowledgeStages == <<"extract", "verify", "find", "detect", "conclude">>
StageSet == {KnowledgeStages[i] : i \in DOMAIN KnowledgeStages}

Points == {"idle", "between", "extract", "verify", "judge", "find",
           "detect", "confirm", "conclude", "report", "checkpoint"}

Ids == DOMAIN statements

Init ==
  /\ statements = <<>> /\ verdicts = <<>> /\ findings = <<>>
  /\ contradictions = <<>> /\ conclusions = <<>> /\ report = {}
  /\ markdown = <<>> /\ cps = {}
  /\ pc = [e \in Executors |-> "idle"]
  /\ left = [e \in Executors |-> {}]
  /\ todo = [e \in Executors |-> {}]
  /\ at = [e \in Executors |-> <<>>]
  /\ made = [e \in Executors |-> {}]
  /\ faults = 0

Set(f, e, v) == [f EXCEPT ![e] = v]
Drop(e, item) == todo' = Set(todo, e, todo[e] \ {item})

\* The first n rows of S, in whatever order the database returns them.
FirstOf(n, S) ==
  LET size == IF Cardinality(S) < n THEN Cardinality(S) ELSE n
  IN  {T \in SUBSET S : Cardinality(T) = size}

\* The execution ends, whatever the reason.
Stop(e) ==
  /\ pc' = Set(pc, e, "idle")
  /\ left' = Set(left, e, {})
  /\ todo' = Set(todo, e, {})
  /\ at' = Set(at, e, <<>>)
  /\ made' = Set(made, e, {})

\* completed_stages is read once, when the execution starts.
Start(e) ==
  /\ pc[e] = "idle" /\ StageSet \ cps # {}
  /\ left' = Set(left, e, StageSet \ cps)
  /\ pc' = Set(pc, e, "between")
  /\ UNCHANGED <<db, todo, at, made, faults>>

\* Mutant: any stage that is left may come next.
Upcoming_AnyOrder(e, stage) == stage \in left[e]

\* Stages are executed in their order.
Upcoming(e, stage) ==
  \E i \in DOMAIN KnowledgeStages :
    /\ KnowledgeStages[i] = stage /\ stage \in left[e]
    /\ \A j \in 1 .. i - 1 : KnowledgeStages[j] \notin left[e]

Begin(e, stage) ==
  /\ pc[e] = "between" /\ Upcoming(e, stage)
  /\ pc' = Set(pc, e, stage)

\* The stage's checkpoint is saved.
Complete(e, stage) ==
  /\ cps' = cps \cup {stage}
  /\ left' = Set(left, e, left[e] \ {stage})
  /\ pc' = Set(pc, e, IF left[e] = {stage} THEN "idle" ELSE "between")
  /\ todo' = Set(todo, e, {})
  /\ at' = Set(at, e, <<>>)
  /\ made' = Set(made, e, {})

FinishStage(e) ==
  /\ pc[e] \in {"extract", "verify", "find", "detect"} /\ todo[e] = {}
  /\ Complete(e, pc[e])
  /\ UNCHANGED <<rows, report, markdown, faults>>

-----------------------------------------------------------------------------
(* extract *)

\* A passage counts as extracted when a statement repeats its whole text.
Extracted ==
  {p \in Passages :
     \E i \in Ids : statements[i].passage = p /\ statements[i].claim \in Whole}

BeginExtract(e) ==
  /\ Begin(e, "extract")
  /\ \E P \in FirstOf(MaxExtract, Passages) :
       todo' = Set(todo, e, P \ Extracted)
  /\ UNCHANGED <<db, left, at, made, faults>>

\* Mutant: the statements enter the knowledge base as verified.
ExtractPassage_Verified(e, p) ==
  /\ pc[e] = "extract" /\ p \in todo[e] \ Blank
  /\ \E answer \in Answers[p] :
       /\ Len(statements) + Len(answer) <= MaxStatements
       /\ statements' = statements \o
            [i \in DOMAIN answer |->
               [passage |-> p, claim |-> answer[i], status |-> "verified"]]
  /\ Drop(e, p)
  /\ UNCHANGED <<verdicts, findings, contradictions, conclusions, outcome, pc,
                 left, at, made, faults>>

\* The statements of one passage, all draft, are one commit.
ExtractPassage(e, p) ==
  /\ pc[e] = "extract" /\ p \in todo[e] \ Blank
  /\ \E answer \in Answers[p] :
       /\ Len(statements) + Len(answer) <= MaxStatements
       /\ statements' = statements \o
            [i \in DOMAIN answer |->
               [passage |-> p, claim |-> answer[i], status |-> "draft"]]
  /\ Drop(e, p)
  /\ UNCHANGED <<verdicts, findings, contradictions, conclusions, outcome, pc,
                 left, at, made, faults>>

\* Extractor.extract refuses a blank passage and the stage fails, as it does at
\* every resume that comes to it.
ExtractBlank(e) ==
  /\ pc[e] = "extract" /\ todo[e] \cap Blank # {}
  /\ Stop(e)
  /\ UNCHANGED <<db, faults>>

-----------------------------------------------------------------------------
(* verify *)

WithStatus(status) == {i \in Ids : statements[i].status = status}
Verified == WithStatus("verified")

\* Mutant: the cap is off by one.
BeginVerify_CapOffByOne(e) ==
  /\ Begin(e, "verify")
  /\ \E D \in FirstOf(MaxVerify - 1, WithStatus("draft")) :
       todo' = Set(todo, e, D)
  /\ UNCHANGED <<db, left, at, made, faults>>

BeginVerify(e) ==
  /\ Begin(e, "verify")
  /\ \E D \in FirstOf(MaxVerify, WithStatus("draft")) : todo' = Set(todo, e, D)
  /\ UNCHANGED <<db, left, at, made, faults>>

\* session.merge loads the row and copies the snapshot, a draft, over it: the
\* guard against a statement that is no longer a draft never holds.
MergeStatement(e, s) ==
  /\ pc[e] = "verify" /\ s \in todo[e]
  /\ pc' = Set(pc, e, "judge")
  /\ at' = Set(at, e, <<s, statements[s].status>>)
  /\ UNCHANGED <<db, left, todo, made, faults>>

\* Without lexical support there is no judge.
Decisions(score) ==
  IF score = "none" THEN {"quarantined"} ELSE {"verified", "quarantined"}

\* Mutant: the status is not written.
JudgeStatement_NoStatus(e) ==
  /\ pc[e] = "judge"
  /\ LET s == at[e][1]
         score == Score[statements[s].claim]
     IN  \E decision \in Decisions(score) :
           /\ verdicts' = Append(verdicts,
                [statement |-> s, score |-> score, decision |-> decision])
           /\ Drop(e, s)
  /\ pc' = Set(pc, e, "verify")
  /\ at' = Set(at, e, <<>>)
  /\ UNCHANGED <<statements, findings, contradictions, conclusions, outcome,
                 left, made, faults>>

\* Status, link and audit row are one commit.  The UPDATE is left out when
\* the decision is the status the merge had loaded.
JudgeStatement(e) ==
  /\ pc[e] = "judge"
  /\ LET s == at[e][1]
         loaded == at[e][2]
         score == Score[statements[s].claim]
     IN  \E decision \in Decisions(score) :
           /\ verdicts' = Append(verdicts,
                [statement |-> s, score |-> score, decision |-> decision])
           /\ statements' = IF decision = loaded THEN statements
                            ELSE [statements EXCEPT ![s].status = decision]
           /\ Drop(e, s)
  /\ pc' = Set(pc, e, "verify")
  /\ at' = Set(at, e, <<>>)
  /\ UNCHANGED <<findings, contradictions, conclusions, outcome, left, made,
                 faults>>

-----------------------------------------------------------------------------
(* find *)

ScoresOf(S) ==
  LET all == {verdicts[i] : i \in DOMAIN verdicts}
  IN  {v.score : v \in {w \in all : w.statement \in S}}

Tier(S) ==
  LET scores == ScoresOf(S)
  IN  CASE "full" \in scores -> "t1"
        [] "partial" \in scores -> "t2"
        [] OTHER -> "t3"

BeginFind(e) ==
  /\ Begin(e, "find")
  /\ LET domainOf(s) == Domain[statements[s].passage]
         cluster(d) == {s \in Verified : domainOf(s) = d}
     IN  todo' = Set(todo, e,
           {[domain |-> d, tier |-> Tier(cluster(d)),
             statements |-> cluster(d)] : d \in {domainOf(s) : s \in Verified}})
  /\ UNCHANGED <<db, left, at, made, faults>>

AddFinding(e, f) ==
  /\ pc[e] = "find" /\ f \in todo[e]
  /\ findings' = Append(findings, f)
  /\ Drop(e, f)
  /\ UNCHANGED <<statements, verdicts, contradictions, conclusions, outcome,
                 pc, left, at, made, faults>>

-----------------------------------------------------------------------------
(* detect *)

\* Each pair in one order.  A pair whose texts make it no candidate is one no
\* judge flags.
Candidates(V) == {p \in V \X V : p[1] < p[2]}

\* The pairs of the capped statements, up to the cap on pairs.
BeginDetect(e) ==
  /\ Begin(e, "detect")
  /\ \E V \in FirstOf(MaxDetect, Verified) :
       \E C \in FirstOf(MaxPairs, Candidates(V)) :
         todo' = Set(todo, e, C)
  /\ UNCHANGED <<db, left, at, made, faults>>

Confirmed == {contradictions[i] : i \in DOMAIN contradictions}

\* Mutant: a pair is judged whether or not it is confirmed already.
CheckPair_Unchecked(e, pair) ==
  /\ pc[e] = "detect" /\ pair \in todo[e]
  /\ Drop(e, pair)
  /\ pc' = Set(pc, e, "confirm") /\ at' = Set(at, e, pair)
  /\ UNCHANGED <<db, left, made, faults>>

CheckPair(e, pair) ==
  /\ pc[e] = "detect" /\ pair \in todo[e]
  /\ Drop(e, pair)
  /\ \/ pair \in Confirmed /\ UNCHANGED <<pc, at>>
     \/ /\ pair \notin Confirmed
        /\ pc' = Set(pc, e, "confirm") /\ at' = Set(at, e, pair)
  /\ UNCHANGED <<db, left, made, faults>>

\* Mutant: a rejected pair stays among the candidates.
JudgePair_Retries(e) ==
  /\ pc[e] = "confirm"
  /\ \/ /\ todo' = Set(todo, e, todo[e] \cup {at[e]})
        /\ UNCHANGED <<contradictions, made>>
     \/ /\ contradictions' = Append(contradictions, at[e])
        /\ made' = Set(made, e, made[e] \cup {Len(contradictions) + 1})
        /\ UNCHANGED todo
  /\ pc' = Set(pc, e, "detect")
  /\ at' = Set(at, e, <<>>)
  /\ UNCHANGED <<statements, verdicts, findings, conclusions, outcome, left,
                 faults>>

\* Flagged and confirmed (by the signal or the second judge), or dropped.
JudgePair(e) ==
  /\ pc[e] = "confirm"
  /\ \/ UNCHANGED <<contradictions, made>>
     \/ /\ contradictions' = Append(contradictions, at[e])
        /\ made' = Set(made, e, made[e] \cup {Len(contradictions) + 1})
  /\ pc' = Set(pc, e, "detect")
  /\ at' = Set(at, e, <<>>)
  /\ UNCHANGED <<statements, verdicts, findings, conclusions, outcome, left,
                 todo, faults>>

-----------------------------------------------------------------------------
(* conclude *)

\* Mutant: every statement is offered for synthesis.
BeginConclude_AnyStatus(e) ==
  /\ Begin(e, "conclude")
  /\ Ids # {}
  /\ \E V \in FirstOf(MaxReport, Ids) : todo' = Set(todo, e, V)
  /\ at' = Set(at, e, <<Confirmed>>)
  /\ UNCHANGED <<db, left, made, faults>>

\* One session reads the verified statements and the contradictions.
BeginConclude(e) ==
  /\ Begin(e, "conclude")
  /\ Verified # {}
  /\ \E V \in FirstOf(MaxReport, Verified) : todo' = Set(todo, e, V)
  /\ at' = Set(at, e, <<Confirmed>>)
  /\ UNCHANGED <<db, left, made, faults>>

\* Without a verified statement generate raises and the stage fails.
NothingToConclude(e) ==
  /\ pc[e] = "between" /\ Upcoming(e, "conclude") /\ Verified = {}
  /\ Stop(e)
  /\ UNCHANGED <<db, faults>>

VerdictsOf(s) == {i \in DOMAIN verdicts : verdicts[i].statement = s}
LastVerdict(s) == verdicts[Sets!Max(VerdictsOf(s))]

\* Mutant: the link of the extraction, which has no score yet, comes first.
Support_FirstLink(s) == "none"

\* The score of the last link the verifier wrote for s.
Support(s) == IF VerdictsOf(s) = {} THEN "none" ELSE LastVerdict(s).score

Domains(cites) == {Domain[statements[s].passage] : s \in cites}

\* One domain makes a conclusion one-sided, whatever the LLM says.
OneSided(domains, flagged) == flagged \/ Cardinality(domains) < 2

\* Mutant: only the first statement of a contradiction is looked up.
Warnings_FirstOnly(cites, conflicts) == {c \in conflicts : c[1] \in cites}
Warnings(cites, conflicts) == {c \in conflicts : {c[1], c[2]} \cap cites # {}}

\* Whether a text names a high stake is a choice like the LLM's own flag.
Conclusion(draft, conflicts) ==
  [cites |-> draft.cites,
   warnings |-> Warnings(draft.cites, conflicts),
   support |-> [s \in draft.cites |-> Support(s)],
   oneSided |-> OneSided(Domains(draft.cites), draft.oneSided),
   review |-> draft.review]

\* The numbers of S in their order: there is one such sequence.
Increasing(S) ==
  {f \in [1 .. Cardinality(S) -> S] : \A i, j \in DOMAIN f : i < j => f[i] < f[j]}

\* A draft cites statements of the prompt, or 0, an id that is not in it; one
\* that cites nothing known is skipped.  All rows are one commit.
GenerateReport(e) ==
  /\ pc[e] = "conclude"
  /\ \E n \in 0 .. MaxDrafts :
     \E drafts \in [1 .. n -> [cites : SUBSET (todo[e] \cup {0}),
                               oneSided : Flags, review : Flags]] :
       LET known == [i \in 1 .. n |-> [drafts[i] EXCEPT !.cites = @ \cap todo[e]]]
           kept == {i \in 1 .. n : known[i].cites # {}}
       IN  \E order \in Increasing(kept) :
             /\ conclusions' = conclusions \o
                  [i \in DOMAIN order |-> Conclusion(known[order[i]], at[e][1])]
             /\ made' = Set(made, e, {Len(conclusions) + i : i \in DOMAIN order})
  /\ pc' = Set(pc, e, "report")
  /\ UNCHANGED <<statements, verdicts, findings, contradictions, outcome, left,
                 todo, at, faults>>

\* LocalBlobStore.put: nothing is written when the ref is present, and the
\* ref of the markdown does not depend on its content.
WriteMarkdown(e) ==
  /\ pc[e] = "report"
  /\ markdown' = IF markdown = <<>> THEN <<made[e]>> ELSE markdown
  /\ pc' = Set(pc, e, "checkpoint")
  /\ UNCHANGED <<rows, report, cps, mine, faults>>

CheckpointReport(e) ==
  /\ pc[e] = "checkpoint"
  /\ report' = made[e]
  /\ Complete(e, "conclude")
  /\ UNCHANGED <<rows, markdown, faults>>

-----------------------------------------------------------------------------

\* A crash, a pause, a service or the database failing at any await; also an
\* answer that cites an id twice (the evidence row's key is taken).
Interrupt(e) ==
  /\ pc[e] # "idle" /\ faults < MaxFaults
  /\ faults' = faults + 1
  /\ Stop(e)
  /\ UNCHANGED db

Progress(e) ==
  \/ Start(e) \/ FinishStage(e)
  \/ BeginExtract(e) \/ ExtractBlank(e)
  \/ \E p \in Passages : ExtractPassage(e, p)
  \/ BeginVerify(e) \/ JudgeStatement(e)
  \/ \E s \in Ids : MergeStatement(e, s)
  \/ BeginFind(e) \/ \E f \in todo[e] : AddFinding(e, f)
  \/ BeginDetect(e) \/ JudgePair(e)
  \/ \E pair \in todo[e] : CheckPair(e, pair)
  \/ BeginConclude(e) \/ NothingToConclude(e)
  \/ GenerateReport(e) \/ WriteMarkdown(e) \/ CheckpointReport(e)

Next == \E e \in Executors : Progress(e) \/ Interrupt(e)

Spec == Init /\ [][Next]_vars

\* The flow is scheduled, and resumed whenever it has stopped.
ResumedSpec == Spec /\ \A e \in Executors : WF_vars(Progress(e))

-----------------------------------------------------------------------------
(* Properties *)

Cited ==
  (UNION {findings[i].statements : i \in DOMAIN findings})
    \cup (UNION {{c[1], c[2]} : c \in Confirmed})
    \cup (UNION {conclusions[i].cites : i \in DOMAIN conclusions})

Items(point) ==
  CASE point = "extract" -> Passages
    [] point \in {"verify", "judge", "conclude", "report", "checkpoint"} -> Ids
    [] point = "find" -> [domain : {Domain[p] : p \in Passages},
                          tier : {"t1", "t2", "t3"}, statements : SUBSET Ids]
    [] point \in {"detect", "confirm"} -> Ids \X Ids
    [] OTHER -> {}

TypeOK ==
  /\ statements \in Seq([passage : Passages, claim : Claims,
                         status : {"draft", "verified", "quarantined"}])
  /\ verdicts \in Seq([statement : Nat, score : {"none", "partial", "full"},
                       decision : {"verified", "quarantined"}])
  /\ \A i \in DOMAIN verdicts : verdicts[i].statement \in Ids
  /\ findings \in Seq([domain : {Domain[p] : p \in Passages},
                       tier : {"t1", "t2", "t3"}, statements : SUBSET Nat])
  /\ \A i \in DOMAIN findings : findings[i].statements \subseteq Ids
  /\ contradictions \in Seq(Nat \X Nat) /\ Confirmed \subseteq Ids \X Ids
  /\ \A i \in DOMAIN conclusions :
       /\ conclusions[i].cites \in (SUBSET Ids) \ {{}}
       /\ conclusions[i].warnings \subseteq Ids \X Ids
       /\ DOMAIN conclusions[i].support = conclusions[i].cites
  /\ cps \subseteq StageSet
  /\ pc \in [Executors -> Points]
  /\ left \in [Executors -> SUBSET StageSet]
  /\ DOMAIN todo = Executors /\ DOMAIN at = Executors /\ DOMAIN made = Executors
  /\ \A e \in Executors : todo[e] \subseteq Items(pc[e])
  /\ report \subseteq DOMAIN conclusions
  /\ faults \in 0 .. MaxFaults

\* "Nothing enters the KB unsupported": whatever a finding, a contradiction
\* or a conclusion rests on was once verified, with lexical support, however
\* many executions race.
CitedWasVerified ==
  \A s \in Cited : \E i \in DOMAIN verdicts :
    /\ verdicts[i].statement = s /\ verdicts[i].decision = "verified"
    /\ verdicts[i].score # "none"

\* With one execution at a time it still is: no later stage, no resume and no
\* second verdict takes the ground from under a conclusion.
CitedIsVerified == Cited \subseteq Verified

\* The status a reader sees is the one the last audit row explains.
StatusIsLastVerdict ==
  \A s \in Ids :
    statements[s].status =
      IF VerdictsOf(s) = {} THEN "draft" ELSE LastVerdict(s).decision

\* verify is only checkpointed when no draft is left, or the cap was reached.
EveryDraftIsJudged ==
  "verify" \in cps => WithStatus("draft") = {} \/ Len(verdicts) >= MaxVerify

\* "Detection is idempotent": a resumed detect confirms no pair twice.
PairConfirmedOnce ==
  \A i, j \in DOMAIN contradictions :
    contradictions[i] = contradictions[j] => i = j

\* A conclusion warns of every contradiction that touches what it cites:
\* detect is over when conclude reads, so no conflict is silently merged.
ConflictsAreDisclosed ==
  \A i \in DOMAIN conclusions : \A c \in Confirmed :
    {c[1], c[2]} \cap conclusions[i].cites # {} => c \in conclusions[i].warnings

\* The support matrix shows, for everything a conclusion cites, the score that
\* let it into the knowledge base, however often verify was interrupted.
SupportIsEarned ==
  \A i \in DOMAIN conclusions : \A s \in conclusions[i].cites :
    /\ conclusions[i].support[s] = Score[statements[s].claim]
    /\ conclusions[i].support[s] # "none"

Shown(conclusion) == [cites |-> conclusion.cites, warnings |-> conclusion.warnings]

Ledger == INSTANCE EvidenceLedger WITH
  done <- cps,
  drafts <- WithStatus("draft"),
  accepted <- Verified,
  refused <- WithStatus("quarantined"),
  grounds <- {findings[i].statements : i \in DOMAIN findings},
  disputes <- Confirmed,
  published <- {Shown(conclusions[i]) : i \in DOMAIN conclusions},
  shown <- {Shown(conclusions[i]) : i \in report}

\* Of one execution at a time: however often a stage that has committed part of
\* its rows is interrupted and resumed, the rows are a ledger in which nothing
\* is judged twice, reopened, or published without its ground and its disputes.
ImplementsLedger == Ledger!Spec

\* The bound MaxStatements, not the code, stops an extraction.
AtBound ==
  /\ "extract" \notin cps
  /\ \E p \in Passages \ Blank : \A answer \in Answers[p] :
       Len(statements) + Len(answer) > MaxStatements

\* An execution comes to a passage that cannot be extracted.
MeetsBlank ==
  \E e \in Executors : pc[e] = "extract" /\ todo[e] \cap Blank # {}

\* Resumed often enough, the stages get through whatever the judges answer.
\* Two failures of the code are for ever: conclude's when nothing was verified
\* (report_generator.py:308), and extract's when every execution comes to a
\* blank passage (extractor.py:73).
KnowledgeCompletes ==
  \/ <>("conclude" \in cps \/ ("detect" \in cps /\ Verified = {}) \/ AtBound)
  \/ []<>MeetsBlank

\* A run that was resumed often enough has its report.  Refuted by either of
\* the two failures; by a run with nothing verified in EvidenceBase_nothing.cfg.
EveryRunConcludes == <>("conclude" \in cps \/ AtBound)

\* "Statements are skipped when an identical (passage_id, text) already
\* exists so resume never duplicates extractions" (extract.py:22).
NoDuplicateExtraction ==
  \A i, j \in Ids :
    /\ statements[i].passage = statements[j].passage
    /\ statements[i].claim = statements[j].claim
    => i = j

\* "content-addressed: same ref => same bytes, already stored"
\* (blob_store.py:46): the markdown is that of the checkpointed report.
MarkdownIsTheReport == "conclude" \in cps => markdown = <<report>>

\* "persist one Finding per domain" (find.py:10).
OneFindingPerDomain ==
  \A i, j \in DOMAIN findings : findings[i].domain = findings[j].domain => i = j

\* "in every failure case no contradiction row is written"
\* (contradiction_detector.py:285).
FailedDetectWritesNothing ==
  [][\A e \in Executors : pc[e] = "confirm" /\ Interrupt(e) => made[e] = {}]_vars

\* "One-sidedness check (G-07) sets `human_review_required` on conclusions that
\* lack opposing evidence" (docs/architecture.md:162).
OneSidedIsReviewed ==
  \A i \in DOMAIN conclusions :
    conclusions[i].oneSided => conclusions[i].review

\* "Verification is idempotent: non-draft statements are skipped"
\* (verifier.py:22).
VerdictIsFinal ==
  [][\A s \in Ids : statements[s].status # "draft" =>
       statements'[s].status = statements[s].status]_vars
=============================================================================
