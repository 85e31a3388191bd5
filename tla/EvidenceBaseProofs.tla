------------------------- MODULE EvidenceBaseProofs -------------------------
(***************************************************************************)
(* Proofs about EvidenceBase for any passages, claims, answers, caps and   *)
(* faults: for any executors first, then for executors of which no two are *)
(* different.                                                              *)
(***************************************************************************)
EXTENDS EvidenceBase, FiniteSetTheorems, SequenceTheorems, TLAPS

(***************************************************************************)
(* What a step leaves alone.                                               *)
(***************************************************************************)
MineType ==
  /\ pc \in [Executors -> Points]
  /\ left \in [Executors -> SUBSET StageSet]
  /\ DOMAIN todo = Executors /\ DOMAIN at = Executors /\ DOMAIN made = Executors

LEMMA Constants ==
  /\ \A c \in Claims : Score[c] \in {"none", "partial", "full"}
  /\ \A p \in Passages : Answers[p] \subseteq Seq(Claims)
  /\ MaxFaults \in Nat /\ MaxVerify \in Nat /\ MaxDrafts \in Nat
  BY EvidenceAssumption

\* A step of one executor leaves alone what the others keep.
LEMMA Others ==
  ASSUME MineType, NEW e \in Executors, Progress(e) \/ Interrupt(e)
  PROVE  /\ MineType'
         /\ \A f \in Executors \ {e} :
              /\ pc'[f] = pc[f] /\ left'[f] = left[f] /\ todo'[f] = todo[f]
              /\ at'[f] = at[f] /\ made'[f] = made[f]
<1>. USE DEF MineType, mine, Set, Points, Drop
<1>1. CASE Start(e)
  BY <1>1 DEF Start
<1>2. CASE BeginExtract(e) \/ BeginVerify(e)
  BY <1>2 DEF BeginExtract, BeginVerify, Begin
<1>3. CASE BeginFind(e) \/ BeginDetect(e) \/ BeginConclude(e)
  BY <1>3 DEF BeginFind, BeginDetect, BeginConclude, Begin
<1>4. CASE \/ \E p \in Passages : ExtractPassage(e, p)
           \/ \E s \in Ids : MergeStatement(e, s)
           \/ JudgeStatement(e)
  BY <1>4 DEF ExtractPassage, MergeStatement, JudgeStatement
<1>5. CASE \/ \E f \in todo[e] : AddFinding(e, f)
           \/ \E pair \in todo[e] : CheckPair(e, pair)
           \/ JudgePair(e)
  BY <1>5 DEF AddFinding, CheckPair, JudgePair
<1>6. CASE GenerateReport(e)
  <2>1. /\ pc' = [pc EXCEPT ![e] = "report"] /\ UNCHANGED <<left, todo, at>>
        /\ \E m : made' = [made EXCEPT ![e] = m]
    BY <1>6 DEF GenerateReport
  <2>. QED
    BY <2>1
<1>7. CASE WriteMarkdown(e)
  BY <1>7 DEF WriteMarkdown
<1>8. ASSUME NEW stage, Complete(e, stage)
      PROVE  /\ MineType'
             /\ \A f \in Executors \ {e} :
                  /\ pc'[f] = pc[f] /\ left'[f] = left[f] /\ todo'[f] = todo[f]
                  /\ at'[f] = at[f] /\ made'[f] = made[f]
  BY <1>8 DEF Complete
<1>9. CASE NothingToConclude(e) \/ ExtractBlank(e) \/ Interrupt(e)
  BY <1>9 DEF NothingToConclude, ExtractBlank, Interrupt, Stop
<1>. QED
  BY <1>1, <1>2, <1>3, <1>4, <1>5, <1>6, <1>7, <1>8, <1>9
     DEF Progress, FinishStage, CheckpointReport

(***************************************************************************)
(* What holds however many executions race.                                *)
(***************************************************************************)
FindingRows ==
  [domain : {Domain[p] : p \in Passages}, tier : {"t1", "t2", "t3"}, statements : SUBSET Ids]

LEMMA ItemsAt ==
  /\ Items("extract") = Passages /\ Items("find") = FindingRows
  /\ \A x \in {"verify", "judge", "conclude", "report", "checkpoint"} : Items(x) = Ids
  /\ \A x \in {"detect", "confirm"} : Items(x) = Ids \X Ids
  /\ \A x \in {"idle", "between"} : Items(x) = {}
  BY DEF Items, FindingRows

RowsType ==
  /\ statements \in Seq([passage : Passages, claim : Claims,
                         status : {"draft", "verified", "quarantined"}])
  /\ verdicts \in Seq([statement : Nat, score : {"none", "partial", "full"},
                       decision : {"verified", "quarantined"}])
  /\ \A i \in DOMAIN verdicts : verdicts[i].statement \in Ids
  /\ findings \in Seq([domain : {Domain[p] : p \in Passages},
                       tier : {"t1", "t2", "t3"}, statements : SUBSET Nat])
  /\ \A i \in DOMAIN findings : findings[i].statements \subseteq Ids
  /\ contradictions \in Seq(Nat \X Nat) /\ Confirmed \subseteq Ids \X Ids
  /\ \A i \in DOMAIN conclusions :
       /\ conclusions[i].cites \in (SUBSET Ids) \ {{}}
       /\ conclusions[i].warnings \subseteq Ids \X Ids
       /\ DOMAIN conclusions[i].support = conclusions[i].cites
  /\ \E S : conclusions \in Seq(S)

LEMMA Appended ==
  ASSUME NEW S, NEW seq \in Seq(S), NEW x \in S
  PROVE  /\ Append(seq, x) \in Seq(S)
         /\ DOMAIN seq \subseteq DOMAIN Append(seq, x)
         /\ Len(seq) \in Nat /\ DOMAIN seq = 1 .. Len(seq)
         /\ DOMAIN Append(seq, x) = 1 .. Len(seq) + 1
         /\ \A i \in DOMAIN seq : Append(seq, x)[i] = seq[i]
         /\ Append(seq, x)[Len(seq) + 1] = x
         /\ \A i \in DOMAIN Append(seq, x) : i \in DOMAIN seq \/ i = Len(seq) + 1
<1>1. Append(seq, x) \in Seq(S) /\ Len(Append(seq, x)) = Len(seq) + 1
      /\ \A i \in 1 .. Len(seq) : Append(seq, x)[i] = seq[i]
      /\ Append(seq, x)[Len(seq) + 1] = x
  BY AppendProperties
<1>2. Len(seq) \in Nat /\ DOMAIN seq = 1 .. Len(seq)
      /\ DOMAIN Append(seq, x) = 1 .. Len(Append(seq, x))
  BY <1>1, LenProperties
<1>. QED
  BY <1>1, <1>2

LEMMA StatementType ==
  ASSUME RowsType, NEW s \in Ids
  PROVE  /\ s \in Nat /\ statements[s].passage \in Passages /\ statements[s].claim \in Claims
         /\ statements[s].status \in {"draft", "verified", "quarantined"}
<1>. DEFINE T == [passage : Passages, claim : Claims,
                  status : {"draft", "verified", "quarantined"}]
<1>1. statements \in Seq(T)
  BY DEF RowsType
<1>2. s \in 1 .. Len(statements)
  BY <1>1, LenProperties DEF Ids
<1>3. statements[s] \in T
  BY <1>1, <1>2, ElementOfSeq
<1>4. s \in Nat
  BY <1>1, <1>2, LenProperties
<1>. QED
  BY <1>3, <1>4

\* The statement was found verified once, with lexical support.
Grounded(s) ==
  \E i \in DOMAIN verdicts :
    /\ verdicts[i].statement = s /\ verdicts[i].decision = "verified"
    /\ verdicts[i].score # "none"

\* Verdicts are appended and a claim never changes, so what is grounded stays
\* so, whatever becomes of its status.
RowsInv ==
  /\ \A i \in DOMAIN verdicts :
       /\ verdicts[i].score = Score[statements[verdicts[i].statement].claim]
       /\ verdicts[i].decision = "verified" => verdicts[i].score # "none"
  /\ \A s \in Verified : Grounded(s)
  /\ \A i \in DOMAIN findings : \A s \in findings[i].statements : Grounded(s)
  /\ \A c \in Confirmed : Grounded(c[1]) /\ Grounded(c[2])
  /\ \A i \in DOMAIN conclusions : \A s \in conclusions[i].cites : Grounded(s)
  /\ \A s \in Ids : VerdictsOf(s) # {} =>
       \E i \in VerdictsOf(s) : \A j \in VerdictsOf(s) : j <= i
  /\ SupportIsEarned

\* What an execution holds in memory is grounded when it is to be cited.
HeldInv(e) ==
  /\ todo[e] \subseteq Items(pc[e])
  /\ pc[e] = "judge" =>
       \E s \in todo[e], status \in {"draft", "verified", "quarantined"} : at[e] = <<s, status>>
  /\ pc[e] = "find" => \A f \in todo[e] : \A s \in f.statements : Grounded(s)
  /\ pc[e] \in {"detect", "confirm"} => \A c \in todo[e] : Grounded(c[1]) /\ Grounded(c[2])
  /\ pc[e] = "confirm" => at[e] \in Ids \X Ids /\ Grounded(at[e][1]) /\ Grounded(at[e][2])
  /\ pc[e] \in {"conclude", "report", "checkpoint"} => \A s \in todo[e] : Grounded(s)
  /\ pc[e] = "conclude" => at[e][1] \subseteq Ids \X Ids
  /\ pc[e] \in {"report", "checkpoint"} => made[e] \subseteq DOMAIN conclusions

\* The tables only grow.
Growth ==
  /\ Ids \subseteq Ids'
  /\ \A s : Grounded(s) => Grounded(s)'
  /\ DOMAIN conclusions \subseteq DOMAIN conclusions'

LEMMA HeldFrame ==
  ASSUME NEW e \in Executors, HeldInv(e), Growth, pc[e] \in Points,
         pc'[e] = pc[e], todo'[e] = todo[e], at'[e] = at[e], made'[e] = made[e]
  PROVE  HeldInv(e)'
<1>1. Items(pc[e]) \subseteq Items(pc[e])'
  <2>1. CASE pc[e] = "find"
    BY <2>1, ItemsAt DEF Growth, Items
  <2>2. CASE pc[e] # "find"
    BY <2>2 DEF Growth, Items
  <2>. QED
    BY <2>1, <2>2
<1>. QED
  BY <1>1 DEF HeldInv, Growth

LEMMA RowsFrame ==
  ASSUME RowsType, RowsInv, UNCHANGED rows
  PROVE  RowsType' /\ RowsInv' /\ Growth
<1>1. RowsType'
  BY DEF RowsType, rows, Ids, Confirmed
<1>2. RowsInv'
  BY DEF RowsInv, rows, Ids, Verified, WithStatus, Confirmed, VerdictsOf, Grounded,
         SupportIsEarned
<1>3. Growth
  BY DEF Growth, rows, Ids, Grounded
<1>. QED
  BY <1>1, <1>2, <1>3

LEMMA MaxIs ==
  ASSUME NEW S \in SUBSET Nat, NEW i \in S, \A j \in S : j <= i
  PROVE  Sets!Max(S) = i
<1>1. Sets!Max(S) \in S /\ \A j \in S : Sets!Max(S) >= j
  BY DEF Sets!Max
<1>. DEFINE m == Sets!Max(S)
<1>2. m \in Nat /\ i \in Nat /\ m <= i /\ m >= i
  BY <1>1
<1>. HIDE DEF m
<1>3. m = i
  BY <1>2
<1>. QED
  BY <1>3 DEF m

\* What the support matrix says of a grounded statement.
LEMMA SupportOfGrounded ==
  ASSUME RowsType, RowsInv, NEW s \in Ids, Grounded(s)
  PROVE  Support(s) = Score[statements[s].claim] /\ Support(s) # "none"
<1>1. PICK g \in VerdictsOf(s) : verdicts[g].score # "none"
  BY DEF Grounded, VerdictsOf
<1>2. PICK i \in VerdictsOf(s) : \A j \in VerdictsOf(s) : j <= i
  BY <1>1 DEF RowsInv
<1>3. VerdictsOf(s) \subseteq Nat
  BY DEF VerdictsOf, RowsType
<1>4. LastVerdict(s) = verdicts[i]
  BY <1>2, <1>3, MaxIs DEF LastVerdict
<1>5. verdicts[i].score = Score[statements[s].claim]
      /\ verdicts[g].score = Score[statements[s].claim]
  BY <1>1, <1>2 DEF RowsInv, VerdictsOf
<1>. QED
  BY <1>1, <1>4, <1>5 DEF Support

\* The steps that only change what the execution holds.
LEMMA LocalInv ==
  ASSUME RowsType, RowsInv, MineType, NEW e \in Executors, HeldInv(e),
         \/ Start(e) \/ BeginExtract(e) \/ BeginVerify(e) \/ BeginFind(e) \/ BeginDetect(e)
         \/ BeginConclude(e) \/ NothingToConclude(e) \/ ExtractBlank(e) \/ Interrupt(e)
         \/ \E s \in Ids : MergeStatement(e, s)
         \/ \E pair \in todo[e] : CheckPair(e, pair)
  PROVE  UNCHANGED rows /\ HeldInv(e)'
<1>. USE DEF db, Set
<1>1. UNCHANGED rows
  BY DEF Start, BeginExtract, BeginVerify, BeginFind, BeginDetect, BeginConclude,
         NothingToConclude, ExtractBlank, Interrupt, MergeStatement, CheckPair
<1>2. /\ Ids' = Ids /\ \A s : Grounded(s)' <=> Grounded(s)
      /\ DOMAIN conclusions' = DOMAIN conclusions /\ FindingRows' = FindingRows
  BY <1>1 DEF rows, Ids, Grounded, FindingRows
<1>3. /\ Items("extract")' = Passages /\ Items("find")' = FindingRows
      /\ \A x \in {"verify", "judge", "conclude", "report", "checkpoint"} : Items(x)' = Ids
      /\ \A x \in {"detect", "confirm"} : Items(x)' = Ids \X Ids
      /\ \A x \in {"idle", "between"} : Items(x)' = {}
  BY <1>2 DEF Items, FindingRows
<1>4. CASE pc'[e] \in {"idle", "between"} /\ todo'[e] = {}
  BY <1>1, <1>3, <1>4 DEF HeldInv
<1>5. CASE Start(e)
  BY <1>4, <1>5, ItemsAt DEF Start, MineType, HeldInv
<1>6. CASE NothingToConclude(e) \/ ExtractBlank(e) \/ Interrupt(e)
  BY <1>4, <1>6 DEF NothingToConclude, ExtractBlank, Interrupt, Stop, MineType
<1>7. CASE BeginExtract(e)
  <2>1. pc'[e] = "extract" /\ todo'[e] \subseteq Passages
    BY <1>7 DEF BeginExtract, Begin, FirstOf, MineType
  <2>. QED
    BY <1>1, <1>3, <2>1 DEF HeldInv
<1>8. CASE BeginVerify(e)
  <2>1. pc'[e] = "verify" /\ todo'[e] \subseteq Ids
    BY <1>8 DEF BeginVerify, Begin, FirstOf, WithStatus, MineType
  <2>. QED
    BY <1>1, <1>2, <1>3, <2>1 DEF HeldInv
<1>9. ASSUME NEW s \in Ids, MergeStatement(e, s)
      PROVE  HeldInv(e)'
  <2>1. /\ pc'[e] = "judge" /\ todo'[e] = todo[e] /\ s \in todo[e] /\ todo[e] \subseteq Ids
        /\ at'[e] = <<s, statements[s].status>>
        /\ statements[s].status \in {"draft", "verified", "quarantined"}
    BY <1>9, ItemsAt, StatementType DEF MergeStatement, HeldInv, MineType
  <2>. QED
    BY <1>1, <1>2, <1>3, <2>1 DEF HeldInv
<1>10. CASE BeginFind(e)
  <2>1. pc'[e] = "find"
    BY <1>10 DEF BeginFind, Begin, MineType
  <2>2. \A S : Tier(S) \in {"t1", "t2", "t3"}
    BY DEF Tier
  <2>3. ASSUME NEW f \in todo'[e]
        PROVE  f \in FindingRows /\ f.statements \subseteq Verified
    <3>. DEFINE domainOf(s) == Domain[statements[s].passage]
                cluster(d) == {s \in Verified : domainOf(s) = d}
    <3>1. PICK s \in Verified :
            f = [domain |-> domainOf(s), tier |-> Tier(cluster(domainOf(s))),
                 statements |-> cluster(domainOf(s))]
      BY <1>10, <2>3 DEF BeginFind, MineType
    <3>2. domainOf(s) \in {Domain[q] : q \in Passages}
      BY StatementType DEF Verified, WithStatus
    <3>3. cluster(domainOf(s)) \subseteq Verified /\ Verified \subseteq Ids
      BY DEF Verified, WithStatus
    <3>. HIDE DEF domainOf, cluster
    <3>. QED
      BY <2>2, <3>1, <3>2, <3>3 DEF FindingRows
  <2>4. \A s \in Verified : Grounded(s)
    BY DEF RowsInv
  <2>. QED
    BY <1>1, <1>2, <1>3, <2>1, <2>3, <2>4 DEF HeldInv
<1>11. CASE BeginDetect(e)
  <2>1. pc'[e] = "detect" /\ todo'[e] \subseteq Verified \X Verified
    BY <1>11 DEF BeginDetect, Begin, FirstOf, Candidates, MineType
  <2>2. Verified \subseteq Ids /\ \A s \in Verified : Grounded(s)
    BY DEF RowsInv, Verified, WithStatus
  <2>. QED
    BY <1>1, <1>2, <1>3, <2>1, <2>2 DEF HeldInv
<1>12. ASSUME NEW pair \in todo[e], CheckPair(e, pair)
       PROVE  HeldInv(e)'
  <2>1. /\ pc[e] = "detect" /\ todo[e] \subseteq Ids \X Ids
        /\ \A c \in todo[e] : Grounded(c[1]) /\ Grounded(c[2])
    BY <1>12, ItemsAt DEF CheckPair, HeldInv
  <2>2. /\ todo'[e] = todo[e] \ {pair}
        /\ \/ pc'[e] = "detect"
           \/ pc'[e] = "confirm" /\ at'[e] = pair
    BY <1>12 DEF CheckPair, Drop, MineType
  <2>. QED
    BY <1>1, <1>2, <1>3, <2>1, <2>2 DEF HeldInv
<1>13. CASE BeginConclude(e)
  <2>1. /\ pc'[e] = "conclude" /\ todo'[e] \subseteq Verified /\ at'[e] = <<Confirmed>>
    BY <1>13 DEF BeginConclude, Begin, FirstOf, MineType
  <2>2. Verified \subseteq Ids /\ \A s \in Verified : Grounded(s)
    BY DEF RowsInv, Verified, WithStatus
  <2>3. Confirmed \subseteq Ids \X Ids
    BY DEF RowsType
  <2>. QED
    BY <1>1, <1>2, <1>3, <2>1, <2>2, <2>3 DEF HeldInv
<1>. QED
  BY <1>1, <1>5, <1>6, <1>7, <1>8, <1>9, <1>10, <1>11, <1>12, <1>13

\* The steps that end a stage.
LEMMA OutcomeInv ==
  ASSUME RowsType, RowsInv, MineType, NEW e \in Executors, HeldInv(e),
         FinishStage(e) \/ WriteMarkdown(e) \/ CheckpointReport(e)
  PROVE  UNCHANGED rows /\ HeldInv(e)'
<1>. USE DEF Set, mine
<1>1. UNCHANGED rows
  BY DEF FinishStage, WriteMarkdown, CheckpointReport
<1>2. /\ Ids' = Ids /\ \A s : Grounded(s)' <=> Grounded(s)
      /\ DOMAIN conclusions' = DOMAIN conclusions
  BY <1>1 DEF rows, Ids, Grounded
<1>3. /\ \A x \in {"report", "checkpoint"} : Items(x)' = Ids
      /\ \A x \in {"idle", "between"} : Items(x)' = {}
  BY <1>2 DEF Items
<1>4. CASE WriteMarkdown(e)
  <2>1. /\ pc[e] = "report" /\ pc'[e] = "checkpoint" /\ todo'[e] = todo[e]
        /\ made'[e] = made[e]
    BY <1>4 DEF WriteMarkdown, MineType
  <2>. QED
    BY <1>1, <1>2, <1>3, <2>1, ItemsAt DEF HeldInv
<1>5. ASSUME NEW stage, Complete(e, stage)
      PROVE  HeldInv(e)'
  <2>1. pc'[e] \in {"idle", "between"} /\ todo'[e] = {}
    BY <1>5 DEF Complete, MineType
  <2>. QED
    BY <1>3, <2>1 DEF HeldInv
<1>. QED
  BY <1>1, <1>4, <1>5 DEF FinishStage, CheckpointReport

StatementRow ==
  [passage : Passages, claim : Claims, status : {"draft", "verified", "quarantined"}]

LEMMA StatementsAdded ==
  ASSUME RowsType, NEW p \in Passages, NEW e \in Executors, ExtractPassage(e, p)
  PROVE  /\ statements' \in Seq(StatementRow) /\ Ids \subseteq Ids'
         /\ \A s \in Ids : statements'[s] = statements[s]
         /\ \A s \in Ids' \ Ids : statements'[s].status = "draft"
<1>. DEFINE T == StatementRow
<1>0. PICK answer \in Answers[p] :
        statements' = statements \o
          [i \in DOMAIN answer |-> [passage |-> p, claim |-> answer[i], status |-> "draft"]]
  BY DEF ExtractPassage
<1>. DEFINE new == [i \in DOMAIN answer |->
                      [passage |-> p, claim |-> answer[i], status |-> "draft"]]
<1>1. answer \in Seq(Claims)
  BY Constants
<1>2. new \in Seq(T) /\ \A i \in DOMAIN new : new[i].status = "draft"
  <2>1. Len(answer) \in Nat /\ DOMAIN answer = 1 .. Len(answer)
    BY <1>1, LenProperties
  <2>2. \A i \in DOMAIN answer : answer[i] \in Claims
    BY <1>1, <2>1, ElementOfSeq
  <2>3. new \in [1 .. Len(answer) -> T]
    BY <2>1, <2>2 DEF StatementRow
  <2>4. new \in Seq(T)
    BY <2>1, <2>3
  <2>. QED
    BY <2>4
<1>3. statements \in Seq(T)
  BY DEF RowsType, StatementRow
<1>. HIDE DEF new
<1>4. statements' = statements \o new
  BY <1>0 DEF new
<1>5. /\ statements' \in Seq(T) /\ Len(statements') = Len(statements) + Len(new)
      /\ \A i \in 1 .. Len(statements) + Len(new) : statements'[i] =
           IF i <= Len(statements) THEN statements[i] ELSE new[i - Len(statements)]
  BY <1>2, <1>3, <1>4, ConcatProperties
<1>6. /\ Len(statements) \in Nat /\ Len(new) \in Nat
      /\ Ids = 1 .. Len(statements) /\ DOMAIN new = 1 .. Len(new)
      /\ Ids' = 1 .. Len(statements')
  BY <1>2, <1>3, <1>5, LenProperties DEF Ids
<1>. HIDE DEF T
<1>7. Ids \subseteq Ids' /\ \A s \in Ids : statements'[s] = statements[s]
  BY <1>5, <1>6
<1>8. ASSUME NEW s \in Ids' \ Ids
      PROVE  statements'[s].status = "draft"
  <2>1. s - Len(statements) \in DOMAIN new /\ ~(s <= Len(statements))
    BY <1>5, <1>6
  <2>2. statements'[s] = new[s - Len(statements)]
    BY <1>5, <1>6, <2>1
  <2>. QED
    BY <1>2, <2>1, <2>2
<1>. QED
  BY <1>5, <1>7, <1>8 DEF T

LEMMA ExtractInv ==
  ASSUME RowsType, RowsInv, MineType, NEW e \in Executors, HeldInv(e),
         NEW p \in Passages, ExtractPassage(e, p)
  PROVE  RowsType' /\ RowsInv' /\ Growth /\ HeldInv(e)'
<1>2. /\ UNCHANGED <<verdicts, findings, contradictions, conclusions>>
      /\ pc'[e] = pc[e] /\ pc[e] = "extract" /\ todo'[e] \subseteq todo[e]
  BY DEF ExtractPassage, Drop, Set, MineType
<1>3. /\ statements' \in Seq(StatementRow) /\ Ids \subseteq Ids'
      /\ \A s \in Ids : statements'[s] = statements[s]
      /\ \A s \in Ids' \ Ids : statements'[s].status = "draft"
  BY StatementsAdded
<1>4. RowsType'
  <2>1. RowsType!1'
    BY <1>3 DEF StatementRow
  <2>. QED
    BY <1>2, <1>3, <2>1 DEF RowsType, Confirmed
<1>5. Verified' = Verified /\ \A s : Grounded(s)' <=> Grounded(s)
  BY <1>2, <1>3 DEF Verified, WithStatus, Grounded
<1>6. RowsInv'
  <2>1. \A s : VerdictsOf(s)' = VerdictsOf(s)
    BY <1>2 DEF VerdictsOf
  <2>2. \A s \in Ids' \ Ids : VerdictsOf(s) = {}
    BY DEF VerdictsOf, RowsType
  <2>3. SupportIsEarned'
    <3>1. \A i \in DOMAIN conclusions : conclusions[i].cites \subseteq Ids
      BY DEF RowsType
    <3>2. \A s \in Ids : statements'[s].claim = statements[s].claim
      BY <1>3
    <3>. QED
      BY <1>2, <3>1, <3>2 DEF SupportIsEarned, RowsInv
  <2>. QED
    BY <1>2, <1>3, <1>5, <2>1, <2>2, <2>3 DEF RowsInv, RowsType, Confirmed
<1>7. Growth
  BY <1>2, <1>3, <1>5 DEF Growth
<1>8. HeldInv(e)'
  <2>1. Items("extract") = Passages /\ Items("extract")' = Passages
    BY DEF Items
  <2>. QED
    BY <1>2, <2>1 DEF HeldInv
<1>. QED
  BY <1>4, <1>6, <1>7, <1>8

LEMMA FindingAdded ==
  ASSUME RowsType, MineType, NEW e \in Executors, HeldInv(e), NEW f \in todo[e], AddFinding(e, f)
  PROVE  /\ f.statements \subseteq Ids
         /\ findings' \in Seq([domain : {Domain[p] : p \in Passages},
                               tier : {"t1", "t2", "t3"}, statements : SUBSET Nat])
         /\ \A i \in DOMAIN findings' :
              findings'[i] = f \/ \E k \in DOMAIN findings : findings'[i] = findings[k]
<1>1. findings' = Append(findings, f) /\ pc[e] = "find"
  BY DEF AddFinding
<1>2. f \in FindingRows /\ Ids \subseteq Nat
  BY <1>1, ItemsAt, StatementType DEF HeldInv
<1>3. f \in [domain : {Domain[q] : q \in Passages}, tier : {"t1", "t2", "t3"},
             statements : SUBSET Nat] /\ f.statements \subseteq Ids
  BY <1>2 DEF FindingRows
<1>. QED
  BY <1>1, <1>3, Appended DEF RowsType

LEMMA AddFindingInv ==
  ASSUME RowsType, RowsInv, MineType, NEW e \in Executors, HeldInv(e),
         NEW f \in todo[e], AddFinding(e, f)
  PROVE  RowsType' /\ RowsInv' /\ Growth /\ HeldInv(e)'
<1>1. /\ findings' = Append(findings, f) /\ pc[e] = "find" /\ pc'[e] = "find"
      /\ todo'[e] \subseteq todo[e]
      /\ UNCHANGED <<statements, verdicts, contradictions, conclusions>>
  BY DEF AddFinding, Drop, Set, MineType
<1>2. \A s \in f.statements : Grounded(s)
  BY <1>1 DEF HeldInv
<1>5. /\ f.statements \subseteq Ids
      /\ findings' \in Seq([domain : {Domain[p] : p \in Passages},
                            tier : {"t1", "t2", "t3"}, statements : SUBSET Nat])
      /\ \A i \in DOMAIN findings' :
           findings'[i] = f \/ \E k \in DOMAIN findings : findings'[i] = findings[k]
  BY FindingAdded
<1>6. Ids' = Ids /\ Confirmed' = Confirmed /\ Verified' = Verified
      /\ \A s : (Grounded(s)' <=> Grounded(s)) /\ VerdictsOf(s)' = VerdictsOf(s)
  BY <1>1 DEF Ids, Confirmed, Verified, WithStatus, Grounded, VerdictsOf
<1>7. RowsType'
  BY <1>1, <1>5, <1>6 DEF RowsType
<1>8. RowsInv'
  BY <1>1, <1>2, <1>5, <1>6 DEF RowsInv, SupportIsEarned
<1>9. Growth
  BY <1>1, <1>6 DEF Growth
<1>10. HeldInv(e)'
  <2>1. Items("find")' = Items("find")
    BY <1>6 DEF Items
  <2>. QED
    BY <1>1, <1>6, <2>1 DEF HeldInv
<1>. QED
  BY <1>7, <1>8, <1>9, <1>10

LEMMA PairAdded ==
  ASSUME RowsType, MineType, NEW e \in Executors, HeldInv(e), JudgePair(e)
  PROVE  /\ contradictions' \in Seq(Nat \X Nat)
         /\ contradictions \in Seq(Nat \X Nat) /\ at[e] \in Nat \X Nat
         /\ contradictions' \in {contradictions, Append(contradictions, at[e])}
         /\ Confirmed' \subseteq Confirmed \cup {at[e]}
<1>1. contradictions' \in {contradictions, Append(contradictions, at[e])} /\ pc[e] = "confirm"
  BY DEF JudgePair
<1>2. at[e] \in Nat \X Nat
  BY <1>1, StatementType DEF HeldInv
<1>3. contradictions \in Seq(Nat \X Nat)
  BY DEF RowsType
<1>4. /\ Append(contradictions, at[e]) \in Seq(Nat \X Nat)
      /\ \A i \in DOMAIN Append(contradictions, at[e]) :
           Append(contradictions, at[e])[i] \in Confirmed \cup {at[e]}
  BY <1>2, <1>3, Appended DEF Confirmed
<1>. QED
  BY <1>1, <1>2, <1>3, <1>4 DEF Confirmed

LEMMA JudgePairInv ==
  ASSUME RowsType, RowsInv, MineType, NEW e \in Executors, HeldInv(e), JudgePair(e)
  PROVE  RowsType' /\ RowsInv' /\ Growth /\ HeldInv(e)'
<1>1. /\ contradictions' \in {contradictions, Append(contradictions, at[e])}
      /\ pc[e] = "confirm" /\ pc'[e] = "detect" /\ todo'[e] = todo[e]
      /\ UNCHANGED <<statements, verdicts, findings, conclusions>>
  BY DEF JudgePair, Set, MineType
<1>2. at[e] \in Ids \X Ids /\ Grounded(at[e][1]) /\ Grounded(at[e][2])
  BY <1>1 DEF HeldInv
<1>4. contradictions' \in Seq(Nat \X Nat) /\ Confirmed' \subseteq Confirmed \cup {at[e]}
  BY PairAdded
<1>5. Ids' = Ids /\ Verified' = Verified
      /\ \A s : (Grounded(s)' <=> Grounded(s)) /\ VerdictsOf(s)' = VerdictsOf(s)
  BY <1>1 DEF Ids, Verified, WithStatus, Grounded, VerdictsOf
<1>6. RowsType'
  BY <1>1, <1>2, <1>4, <1>5 DEF RowsType
<1>7. RowsInv'
  BY <1>1, <1>2, <1>4, <1>5 DEF RowsInv, SupportIsEarned
<1>8. Growth
  BY <1>1, <1>5 DEF Growth
<1>9. HeldInv(e)'
  <2>1. Items("detect")' = Items("confirm")
    BY <1>5 DEF Items
  <2>. QED
    BY <1>1, <1>5, <2>1 DEF HeldInv
<1>. QED
  BY <1>6, <1>7, <1>8, <1>9

VerdictType ==
  [statement : Nat, score : {"none", "partial", "full"}, decision : {"verified", "quarantined"}]

VerdictOn(s, decision) ==
  [statement |-> s, score |-> Score[statements[s].claim], decision |-> decision]

\* What a judgement writes: one verdict, and a status of one statement.
Judges(e, s, decision) ==
  /\ s \in Ids /\ (decision = "verified" => Score[statements[s].claim] # "none")
  /\ VerdictOn(s, decision) \in VerdictType
  /\ at[e][1] = s
  /\ verdicts' = Append(verdicts, VerdictOn(s, decision))
  /\ statements' = IF decision = at[e][2] THEN statements
                   ELSE [statements EXCEPT ![s].status = decision]
  /\ pc[e] = "judge" /\ pc'[e] = "verify" /\ todo'[e] = todo[e] \ {s}
  /\ UNCHANGED <<findings, contradictions, conclusions>>

LEMMA Judged ==
  ASSUME RowsType, MineType, NEW e \in Executors, HeldInv(e), JudgeStatement(e)
  PROVE  \E s \in todo[e], decision \in {"verified", "quarantined"} : Judges(e, s, decision)
<1>1. PICK s \in todo[e], status \in {"draft", "verified", "quarantined"} :
        at[e] = <<s, status>>
  BY DEF HeldInv, JudgeStatement
<1>2. s \in Ids
  BY ItemsAt DEF HeldInv, JudgeStatement
<1>3. PICK decision \in Decisions(Score[statements[s].claim]) :
        /\ verdicts' = Append(verdicts,
             [statement |-> s, score |-> Score[statements[s].claim], decision |-> decision])
        /\ statements' = IF decision = status THEN statements
                         ELSE [statements EXCEPT ![s].status = decision]
        /\ Drop(e, s)
  BY <1>1 DEF JudgeStatement
<1>4. decision \in {"verified", "quarantined"}
      /\ (decision = "verified" => Score[statements[s].claim] # "none")
  BY <1>3 DEF Decisions
<1>5. s \in Nat /\ Score[statements[s].claim] \in {"none", "partial", "full"}
  BY <1>2, StatementType, Constants
<1>6. /\ pc[e] = "judge" /\ pc'[e] = "verify" /\ todo'[e] = todo[e] \ {s}
      /\ UNCHANGED <<findings, contradictions, conclusions>>
  BY <1>3 DEF JudgeStatement, Drop, Set, MineType
<1>7. at[e][1] = s /\ at[e][2] = status
  BY <1>1
<1>8. verdicts' = Append(verdicts, VerdictOn(s, decision)) /\ VerdictOn(s, decision) \in VerdictType
  BY <1>3, <1>4, <1>5 DEF VerdictOn, VerdictType
<1>9. Judges(e, s, decision)
  BY <1>2, <1>3, <1>4, <1>6, <1>7, <1>8 DEF Judges
<1>. QED
  BY <1>4, <1>9

\* The row of the statement and the appended verdict.
LEMMA VerdictAdded ==
  ASSUME RowsType, NEW e \in Executors, NEW s, NEW decision \in {"verified", "quarantined"},
         Judges(e, s, decision)
  PROVE  /\ statements' \in Seq(StatementRow) /\ Ids' = Ids
         /\ \A t \in Ids : statements'[t].claim = statements[t].claim
         /\ \A t \in Ids \ {s} : statements'[t] = statements[t]
         /\ at[e][2] = statements[s].status => statements'[s].status = decision
         /\ statements'[s].status \in {statements[s].status, decision}
         /\ verdicts' \in Seq(VerdictType) /\ DOMAIN verdicts \subseteq DOMAIN verdicts'
         /\ Len(verdicts) \in Nat /\ DOMAIN verdicts = 1 .. Len(verdicts)
         /\ Len(verdicts') = Len(verdicts) + 1
         /\ DOMAIN verdicts' = 1 .. Len(verdicts) + 1
         /\ \A i \in DOMAIN verdicts : verdicts'[i] = verdicts[i]
         /\ verdicts'[Len(verdicts) + 1].statement = s
         /\ verdicts'[Len(verdicts) + 1].decision = decision
         /\ verdicts'[Len(verdicts) + 1].score = Score[statements[s].claim]
         /\ \A t : t # s => VerdictsOf(t)' = VerdictsOf(t)
         /\ Len(verdicts) + 1 \in VerdictsOf(s)'
         /\ VerdictsOf(s)' \subseteq Nat
         /\ \A j \in VerdictsOf(s)' : j <= Len(verdicts) + 1
<1>1. /\ s \in Ids /\ VerdictOn(s, decision) \in VerdictType
      /\ verdicts' = Append(verdicts, VerdictOn(s, decision))
      /\ statements' = IF decision = at[e][2] THEN statements
                       ELSE [statements EXCEPT ![s].status = decision]
  BY DEF Judges
<1>2. /\ statements' \in Seq(StatementRow) /\ Ids' = Ids
      /\ \A t \in Ids : statements'[t].claim = statements[t].claim
      /\ \A t \in Ids \ {s} : statements'[t] = statements[t]
      /\ at[e][2] = statements[s].status => statements'[s].status = decision
      /\ statements'[s].status \in {statements[s].status, decision}
  <2>1. statements \in Seq(StatementRow)
    BY DEF RowsType, StatementRow
  <2>2. Ids = 1 .. Len(statements)
    BY <2>1, LenProperties DEF Ids
  <2>3. \A t \in Ids : statements[t] \in StatementRow
    BY <2>1, <2>2, ElementOfSeq
  <2>4. CASE decision = at[e][2]
    BY <1>1, <2>1, <2>4 DEF Ids
  <2>5. CASE decision # at[e][2]
    <3>0. statements' = [statements EXCEPT ![s].status = decision]
      BY <1>1, <2>5
    <3>1. [statements[s] EXCEPT !.status = decision] \in StatementRow
      BY <1>1, <2>3 DEF StatementRow
    <3>2. statements' = [statements EXCEPT ![s] = [statements[s] EXCEPT !.status = decision]]
      BY <3>0
    <3>3. statements' \in Seq(StatementRow)
      <4>1. s \in 1 .. Len(statements)
        BY <1>1, <2>2
      <4>. QED
        BY <2>1, <3>1, <3>2, <4>1, ExceptSeq
    <3>4. Ids' = Ids
      BY <3>0 DEF Ids
    <3>5. /\ \A t \in Ids \ {s} : statements'[t] = statements[t]
          /\ statements'[s].status = decision
          /\ statements'[s].claim = statements[s].claim
      BY <1>1, <2>3, <3>0 DEF Ids, StatementRow
    <3>. QED
      BY <3>3, <3>4, <3>5
  <2>. QED
    BY <2>4, <2>5
<1>. DEFINE new == Len(verdicts) + 1
<1>3. /\ verdicts' \in Seq(VerdictType) /\ DOMAIN verdicts \subseteq DOMAIN verdicts'
      /\ Len(verdicts) \in Nat /\ DOMAIN verdicts = 1 .. Len(verdicts)
      /\ DOMAIN verdicts' = 1 .. new
      /\ \A i \in DOMAIN verdicts : verdicts'[i] = verdicts[i]
      /\ verdicts'[new] = VerdictOn(s, decision)
  <2>1. verdicts \in Seq(VerdictType)
    BY DEF RowsType, VerdictType
  <2>. QED
    BY <1>1, <2>1, Appended
<1>4. /\ verdicts'[new].statement = s /\ verdicts'[new].decision = decision
      /\ verdicts'[new].score = Score[statements[s].claim]
  BY <1>3 DEF VerdictOn
<1>5. Len(verdicts') = new
  BY <1>3, LenProperties
<1>6. \A t : t # s => VerdictsOf(t)' = VerdictsOf(t)
  BY <1>3, <1>4 DEF VerdictsOf
<1>7. new \in VerdictsOf(s)' /\ VerdictsOf(s)' \subseteq 1 .. new
  BY <1>3, <1>4 DEF VerdictsOf
<1>8. VerdictsOf(s)' \subseteq Nat /\ \A j \in VerdictsOf(s)' : j <= new
  BY <1>3, <1>7
<1>. QED
  BY <1>2, <1>3, <1>4, <1>5, <1>6, <1>7, <1>8

LEMMA JudgeInv ==
  ASSUME RowsType, RowsInv, MineType, NEW e \in Executors, HeldInv(e), JudgeStatement(e)
  PROVE  RowsType' /\ RowsInv' /\ Growth /\ HeldInv(e)'
<1>0. PICK s \in todo[e], decision \in {"verified", "quarantined"} : Judges(e, s, decision)
  BY Judged
<1>1. /\ s \in Ids
      /\ (decision = "verified" => Score[statements[s].claim] # "none")
      /\ pc[e] = "judge" /\ pc'[e] = "verify" /\ todo'[e] = todo[e] \ {s}
      /\ UNCHANGED <<findings, contradictions, conclusions>>
  BY <1>0 DEF Judges
<1>. DEFINE new == Len(verdicts) + 1
<1>2. /\ statements' \in Seq(StatementRow) /\ Ids' = Ids
      /\ \A t \in Ids : statements'[t].claim = statements[t].claim
      /\ \A t \in Ids : statements'[t].status = "verified" =>
           statements[t].status = "verified" \/ (t = s /\ decision = "verified")
  BY <1>0, <1>1, VerdictAdded
<1>3. /\ verdicts' \in Seq(VerdictType) /\ DOMAIN verdicts \subseteq DOMAIN verdicts'
      /\ \A i \in DOMAIN verdicts : verdicts'[i] = verdicts[i]
      /\ \A i \in DOMAIN verdicts' : i \in DOMAIN verdicts \/ i = new
      /\ new \in DOMAIN verdicts'
      /\ \A t : t # s => VerdictsOf(t)' = VerdictsOf(t)
      /\ new \in VerdictsOf(s)' /\ \A j \in VerdictsOf(s)' : j <= new
  BY <1>0, VerdictAdded
<1>5. /\ verdicts'[new].statement = s /\ verdicts'[new].decision = decision
      /\ verdicts'[new].score = Score[statements[s].claim]
      /\ (decision = "verified" => verdicts'[new].score # "none")
  BY <1>0, <1>1, VerdictAdded
<1>. HIDE DEF new
<1>6. Confirmed' = Confirmed
  BY <1>1 DEF Confirmed
<1>7. RowsType'
  <2>1. \A i \in DOMAIN verdicts' : verdicts'[i].statement \in Ids'
    BY <1>1, <1>2, <1>3, <1>5 DEF RowsType
  <2>. QED
    BY <1>1, <1>2, <1>3, <1>6, <2>1 DEF RowsType, StatementRow, VerdictType
<1>8. \A t : Grounded(t) => Grounded(t)'
  BY <1>3 DEF Grounded
<1>9. RowsInv'
  <2>1. \A i \in DOMAIN verdicts' :
          /\ verdicts'[i].score = Score[statements'[verdicts'[i].statement].claim]
          /\ verdicts'[i].decision = "verified" => verdicts'[i].score # "none"
    <3>1. \A i \in DOMAIN verdicts : verdicts[i].statement \in Ids
      BY DEF RowsType
    <3>. QED
      BY <1>1, <1>2, <1>3, <1>5, <3>1 DEF RowsInv
  <2>2. \A t \in Verified' : Grounded(t)'
    <3>1. decision = "verified" => Grounded(s)'
      BY <1>3, <1>5 DEF Grounded
    <3>. QED
      BY <1>2, <1>8, <3>1 DEF RowsInv, Verified, WithStatus
  <2>3. \A t \in Ids' : VerdictsOf(t)' # {} =>
          \E i \in VerdictsOf(t)' : \A j \in VerdictsOf(t)' : j <= i
    <3>. SUFFICES ASSUME NEW t \in Ids, VerdictsOf(t)' # {}
                  PROVE  \E i \in VerdictsOf(t)' : \A j \in VerdictsOf(t)' : j <= i
      BY <1>2
    <3>. QED
      BY <1>3 DEF RowsInv
  <2>4. SupportIsEarned'
    <3>1. \A i \in DOMAIN conclusions : conclusions[i].cites \subseteq Ids
      BY DEF RowsType
    <3>. QED
      BY <1>1, <1>2, <3>1 DEF SupportIsEarned, RowsInv
  <2>. QED
    BY <1>1, <1>6, <1>8, <2>1, <2>2, <2>3, <2>4 DEF RowsInv
<1>10. Growth
  BY <1>1, <1>2, <1>8 DEF Growth
<1>11. HeldInv(e)'
  <2>1. Items("verify")' = Items("judge")
    BY <1>2 DEF Items
  <2>. QED
    BY <1>1, <2>1 DEF HeldInv
<1>. QED
  BY <1>7, <1>9, <1>10, <1>11

\* What a report adds: rows that cite what was read, and are warned of the
\* contradictions that were read.
Reports(e, new, k) ==
  /\ conclusions' = conclusions \o new /\ new = [i \in 1 .. k |-> new[i]]
  /\ made'[e] = {Len(conclusions) + i : i \in 1 .. k}
  /\ \A i \in 1 .. k :
       /\ new[i].cites \in (SUBSET todo[e]) \ {{}}
       /\ new[i].warnings = Warnings(new[i].cites, at[e][1])
       /\ new[i].support = [s \in new[i].cites |-> Support(s)]

LEMMA Generated ==
  ASSUME MineType, NEW e \in Executors, GenerateReport(e)
  PROVE  \E k \in Nat : \E new : Reports(e, new, k)
<1>n. PICK n \in 0 .. MaxDrafts :
        \E drafts \in [1 .. n -> [cites : SUBSET (todo[e] \cup {0}),
                                  oneSided : Flags, review : Flags]] :
        LET known == [i \in 1 .. n |-> [drafts[i] EXCEPT !.cites = @ \cap todo[e]]]
            kept == {i \in 1 .. n : known[i].cites # {}}
        IN  \E order \in Increasing(kept) :
              /\ conclusions' = conclusions \o
                   [i \in DOMAIN order |-> Conclusion(known[order[i]], at[e][1])]
              /\ made' = Set(made, e, {Len(conclusions) + i : i \in DOMAIN order})
  BY DEF GenerateReport
<1>1. PICK drafts \in [1 .. n -> [cites : SUBSET (todo[e] \cup {0}),
                                  oneSided : Flags, review : Flags]] :
        LET known == [i \in 1 .. n |-> [drafts[i] EXCEPT !.cites = @ \cap todo[e]]]
            kept == {i \in 1 .. n : known[i].cites # {}}
        IN  \E order \in Increasing(kept) :
              /\ conclusions' = conclusions \o
                   [i \in DOMAIN order |-> Conclusion(known[order[i]], at[e][1])]
              /\ made' = Set(made, e, {Len(conclusions) + i : i \in DOMAIN order})
  BY <1>n
<1>. DEFINE known == [i \in 1 .. n |-> [drafts[i] EXCEPT !.cites = @ \cap todo[e]]]
            kept == {i \in 1 .. n : known[i].cites # {}}
<1>2. PICK order \in Increasing(kept) :
        /\ conclusions' = conclusions \o
             [i \in DOMAIN order |-> Conclusion(known[order[i]], at[e][1])]
        /\ made' = Set(made, e, {Len(conclusions) + i : i \in DOMAIN order})
  BY <1>1
<1>3. n \in Nat
  BY <1>n, Constants
<1>4. Cardinality(kept) \in Nat
  <2>1. IsFiniteSet(1 .. n)
    BY <1>3, FS_Interval
  <2>2. IsFiniteSet(kept)
    BY <2>1, FS_Subset
  <2>. QED
    BY <2>2, FS_CardinalityType
<1>5. order \in [1 .. Cardinality(kept) -> kept]
  BY <1>2 DEF Increasing
<1>6. \A i \in kept : known[i].cites \in (SUBSET todo[e]) \ {{}}
  <2>. SUFFICES ASSUME NEW i \in kept
                PROVE  known[i].cites \subseteq todo[e]
    OBVIOUS
  <2>1. drafts[i] \in [cites : SUBSET (todo[e] \cup {0}), oneSided : Flags, review : Flags]
    BY <1>1
  <2>2. known[i].cites = drafts[i].cites \cap todo[e]
    BY <2>1
  <2>. QED
    BY <2>2
<1>. HIDE DEF known, kept
<1>. DEFINE k == Cardinality(kept)
            new == [i \in 1 .. k |-> Conclusion(known[order[i]], at[e][1])]
<1>7. DOMAIN order = 1 .. k
  BY <1>5
<1>8. conclusions' = conclusions \o new
  BY <1>2, <1>7
<1>9. made'[e] = {Len(conclusions) + i : i \in 1 .. k}
  BY <1>2, <1>7 DEF Set, MineType
<1>10. ASSUME NEW i \in 1 .. k
       PROVE  /\ new[i].cites \in (SUBSET todo[e]) \ {{}}
              /\ new[i].warnings = Warnings(new[i].cites, at[e][1])
              /\ new[i].support = [s \in new[i].cites |-> Support(s)]
  <2>1. order[i] \in kept
    BY <1>5
  <2>2. new[i] = Conclusion(known[order[i]], at[e][1])
    OBVIOUS
  <2>3. new[i].cites = known[order[i]].cites
    BY <2>2 DEF Conclusion
  <2>. HIDE DEF new
  <2>4. /\ new[i].warnings = Warnings(known[order[i]].cites, at[e][1])
        /\ new[i].support = [s \in known[order[i]].cites |-> Support(s)]
    BY <2>2 DEF Conclusion
  <2>. QED
    BY <1>6, <2>1, <2>3, <2>4
<1>11. Reports(e, new, k)
  BY <1>7, <1>8, <1>9, <1>10 DEF Reports
<1>. QED
  BY <1>4, <1>11

\* A row of the report cites what was read, and is warned of the contradictions
\* that were read.
Reported(e, row) ==
  /\ row.cites \in (SUBSET todo[e]) \ {{}}
  /\ row.warnings = Warnings(row.cites, at[e][1])
  /\ row.support = [s \in row.cites |-> Support(s)]

LEMMA ReportAdded ==
  ASSUME RowsType, MineType, NEW e \in Executors, GenerateReport(e)
  PROVE  /\ DOMAIN conclusions \subseteq DOMAIN conclusions'
         /\ made'[e] \subseteq DOMAIN conclusions' /\ \E S : conclusions' \in Seq(S)
         /\ \A i \in DOMAIN conclusions' :
              \/ i \in DOMAIN conclusions /\ conclusions'[i] = conclusions[i]
              \/ Reported(e, conclusions'[i])
         /\ \A i \in DOMAIN conclusions : conclusions'[i] = conclusions[i]
<1>k. PICK k \in Nat : \E new : Reports(e, new, k)
  BY Generated
<1>1. PICK new : Reports(e, new, k)
  BY <1>k
<1>4. /\ DOMAIN conclusions = 1 .. Len(conclusions) /\ Len(conclusions) \in Nat
      /\ DOMAIN conclusions' = 1 .. Len(conclusions) + k
      /\ \A i \in 1 .. Len(conclusions) + k : conclusions'[i] =
           IF i <= Len(conclusions) THEN conclusions[i] ELSE new[i - Len(conclusions)]
      /\ \E S : conclusions' \in Seq(S)
  <2>1. PICK S : conclusions \in Seq(S)
    BY DEF RowsType
  <2>. DEFINE U == S \cup {new[i] : i \in 1 .. k}
  <2>2. Len(conclusions) \in Nat /\ DOMAIN conclusions = 1 .. Len(conclusions)
        /\ \A i \in 1 .. Len(conclusions) : conclusions[i] \in S
    BY <2>1, LenProperties, ElementOfSeq
  <2>3. conclusions \in Seq(U)
    BY <2>1
  <2>4. new \in [1 .. k -> U]
    BY <1>1 DEF Reports
  <2>5. new \in Seq(U)
    BY <2>4
  <2>6. Len(new) = k
    BY <2>4, <2>5, LenProperties
  <2>. HIDE DEF U
  <2>7. /\ conclusions \o new \in Seq(U)
        /\ Len(conclusions \o new) = Len(conclusions) + k
        /\ \A i \in 1 .. Len(conclusions) + k : (conclusions \o new)[i] =
             IF i <= Len(conclusions) THEN conclusions[i] ELSE new[i - Len(conclusions)]
    BY <2>3, <2>5, <2>6, ConcatProperties
  <2>8. DOMAIN (conclusions \o new) = 1 .. Len(conclusions) + k
    BY <2>7, LenProperties
  <2>. QED
    BY <1>1, <2>2, <2>7, <2>8 DEF Reports
<1>5. \A i \in DOMAIN conclusions' :
        \/ i \in DOMAIN conclusions /\ conclusions'[i] = conclusions[i]
        \/ \E j \in 1 .. k : conclusions'[i] = new[j]
  <2>. SUFFICES ASSUME NEW i \in DOMAIN conclusions', i \notin DOMAIN conclusions
                PROVE  \E j \in 1 .. k : conclusions'[i] = new[j]
    BY <1>4
  <2>1. i - Len(conclusions) \in 1 .. k /\ conclusions'[i] = new[i - Len(conclusions)]
    BY <1>4
  <2>. QED
    BY <2>1
<1>6. \A j \in 1 .. k : Reported(e, new[j])
  BY <1>1 DEF Reports, Reported
<1>7. made'[e] \subseteq DOMAIN conclusions'
  BY <1>1, <1>4 DEF Reports
<1>8. DOMAIN conclusions \subseteq DOMAIN conclusions'
  BY <1>4
<1>. QED
  BY <1>4, <1>5, <1>6, <1>7, <1>8

LEMMA GenerateInv ==
  ASSUME RowsType, RowsInv, MineType, NEW e \in Executors, HeldInv(e), GenerateReport(e)
  PROVE  RowsType' /\ RowsInv' /\ Growth /\ HeldInv(e)'
<1>2. /\ pc[e] = "conclude" /\ pc'[e] = "report" /\ todo'[e] = todo[e]
      /\ UNCHANGED <<statements, verdicts, findings, contradictions>>
  BY DEF GenerateReport, Set, MineType
<1>3. /\ todo[e] \subseteq Ids /\ (\A s \in todo[e] : Grounded(s))
      /\ at[e][1] \subseteq Ids \X Ids
  BY <1>2, ItemsAt DEF HeldInv
<1>4. \A i \in DOMAIN conclusions' :
        \/ i \in DOMAIN conclusions /\ conclusions'[i] = conclusions[i]
        \/ Reported(e, conclusions'[i])
  BY ReportAdded
<1>5. ASSUME NEW row, Reported(e, row)
      PROVE  /\ row.cites \in (SUBSET Ids) \ {{}} /\ row.warnings \subseteq Ids \X Ids
             /\ DOMAIN row.support = row.cites
             /\ \A s \in row.cites :
                  /\ Grounded(s) /\ row.support[s] = Score[statements[s].claim]
                  /\ row.support[s] # "none"
  <2>1. /\ row.cites \in (SUBSET Ids) \ {{}} /\ row.warnings \subseteq Ids \X Ids
        /\ \A s \in row.cites : s \in Ids /\ Grounded(s)
    BY <1>3, <1>5 DEF Reported, Warnings
  <2>2. row.support = [s \in row.cites |-> Support(s)]
    BY <1>5 DEF Reported
  <2>3. \A s \in row.cites : Support(s) = Score[statements[s].claim] /\ Support(s) # "none"
    BY <2>1, SupportOfGrounded
  <2>. QED
    BY <2>1, <2>2, <2>3
<1>7. /\ Ids' = Ids /\ Confirmed' = Confirmed /\ Verified' = Verified
      /\ \A s : (Grounded(s)' <=> Grounded(s)) /\ VerdictsOf(s)' = VerdictsOf(s)
  BY <1>2 DEF Ids, Confirmed, Verified, WithStatus, Grounded, VerdictsOf
<1>8. RowsType'
  <2>1. \A i \in DOMAIN conclusions' :
          /\ conclusions'[i].cites \in (SUBSET Ids) \ {{}}
          /\ conclusions'[i].warnings \subseteq Ids \X Ids
          /\ DOMAIN conclusions'[i].support = conclusions'[i].cites
    BY <1>4, <1>5 DEF RowsType
  <2>. QED
    BY <1>2, <1>7, <2>1, ReportAdded DEF RowsType
<1>9. RowsInv'
  <2>1. \A i \in DOMAIN conclusions' : \A s \in conclusions'[i].cites :
          /\ Grounded(s)
          /\ conclusions'[i].support[s] = Score[statements[s].claim]
          /\ conclusions'[i].support[s] # "none"
    BY <1>4, <1>5 DEF RowsInv, SupportIsEarned
  <2>. QED
    BY <1>2, <1>7, <2>1 DEF RowsInv, SupportIsEarned
<1>10. Growth
  BY <1>7, ReportAdded DEF Growth
<1>11. HeldInv(e)'
  <2>1. Items("report")' = Items("conclude")
    BY <1>7 DEF Items
  <2>. QED
    BY <1>2, <1>7, <2>1, ReportAdded DEF HeldInv
<1>. QED
  BY <1>8, <1>9, <1>10, <1>11

(***************************************************************************)
(* The invariant for any executors.                                        *)
(***************************************************************************)
OutcomeType ==
  /\ cps \subseteq StageSet
  /\ report \subseteq DOMAIN conclusions
  /\ faults \in 0 .. MaxFaults

RaceInv ==
  /\ RowsType /\ RowsInv /\ MineType /\ OutcomeType
  /\ \A e \in Executors : HeldInv(e)

LEMMA StageNames == StageSet = {"extract", "verify", "find", "detect", "conclude"}
<1>1. /\ DOMAIN KnowledgeStages = 1 .. 5
      /\ KnowledgeStages[1] = "extract" /\ KnowledgeStages[2] = "verify"
      /\ KnowledgeStages[3] = "find" /\ KnowledgeStages[4] = "detect"
      /\ KnowledgeStages[5] = "conclude"
  BY DEF KnowledgeStages
<1>2. 1 .. 5 = {1, 2, 3, 4, 5}
  OBVIOUS
<1>. QED
  BY <1>1, <1>2 DEF StageSet

LEMMA RowsStep ==
  ASSUME RowsType, RowsInv, MineType, NEW e \in Executors, HeldInv(e), Progress(e) \/ Interrupt(e)
  PROVE  RowsType' /\ RowsInv' /\ Growth /\ HeldInv(e)'
<1>1. CASE UNCHANGED rows /\ HeldInv(e)'
  BY <1>1, RowsFrame
<1>. QED
  BY <1>1, LocalInv, OutcomeInv, ExtractInv, AddFindingInv, JudgePairInv, JudgeInv, GenerateInv
     DEF Progress

LEMMA OutcomeStep ==
  ASSUME MineType, OutcomeType, NEW e \in Executors, HeldInv(e), Growth,
         Progress(e) \/ Interrupt(e)
  PROVE  OutcomeType'
<1>1. CASE UNCHANGED <<outcome, faults>>
  BY <1>1 DEF OutcomeType, outcome, Growth
<1>2. CASE FinishStage(e)
  BY <1>2, StageNames DEF FinishStage, Complete, OutcomeType, Growth
<1>3. CASE WriteMarkdown(e)
  BY <1>3 DEF WriteMarkdown, OutcomeType, Growth
<1>4. CASE CheckpointReport(e)
  BY <1>4, StageNames DEF CheckpointReport, Complete, OutcomeType, Growth, HeldInv
<1>5. CASE Interrupt(e)
  BY <1>5, Constants DEF Interrupt, OutcomeType, Growth, db, outcome
<1>6. CASE Start(e) \/ BeginExtract(e) \/ BeginVerify(e) \/ BeginFind(e) \/ BeginDetect(e)
           \/ BeginConclude(e) \/ NothingToConclude(e) \/ ExtractBlank(e)
           \/ (\E s \in Ids : MergeStatement(e, s)) \/ (\E pair \in todo[e] : CheckPair(e, pair))
  BY <1>1, <1>6 DEF db, Start, BeginExtract, BeginVerify, BeginFind, BeginDetect, BeginConclude,
     NothingToConclude, ExtractBlank, MergeStatement, CheckPair
<1>7. CASE \/ \E p \in Passages : ExtractPassage(e, p)
           \/ \E f \in todo[e] : AddFinding(e, f)
           \/ JudgeStatement(e) \/ JudgePair(e) \/ GenerateReport(e)
  BY <1>1, <1>7 DEF ExtractPassage, AddFinding, JudgeStatement, JudgePair, GenerateReport
<1>. QED
  BY <1>2, <1>3, <1>4, <1>5, <1>6, <1>7 DEF Progress

LEMMA RaceInit == Init => RaceInv
<1>. SUFFICES ASSUME Init
              PROVE  RaceInv
  OBVIOUS
<1>. USE DEF Init
<1>1. /\ Ids = {} /\ DOMAIN verdicts = {} /\ DOMAIN findings = {} /\ DOMAIN contradictions = {}
      /\ DOMAIN conclusions = {} /\ Confirmed = {} /\ Verified = {}
  BY DEF Ids, Confirmed, Verified, WithStatus
<1>2. \A S : <<>> \in Seq(S)
  BY EmptySeq
<1>3. RowsType
  BY <1>1, <1>2 DEF RowsType
<1>4. RowsInv
  BY <1>1 DEF RowsInv, SupportIsEarned
<1>5. MineType
  BY DEF MineType, Points
<1>6. OutcomeType
  BY <1>1, Constants DEF OutcomeType
<1>7. \A e \in Executors : HeldInv(e)
  BY ItemsAt DEF HeldInv
<1>. QED
  BY <1>3, <1>4, <1>5, <1>6, <1>7 DEF RaceInv

LEMMA RaceStep == RaceInv /\ [Next]_vars => RaceInv'
<1>. SUFFICES ASSUME RaceInv, [Next]_vars
              PROVE  RaceInv'
  OBVIOUS
<1>1. CASE UNCHANGED vars
  <2>1. UNCHANGED <<rows, report, cps, pc, todo, left, at, made, faults>>
    BY <1>1 DEF vars, db, outcome, mine
  <2>2. RowsType' /\ RowsInv' /\ Growth
    BY <2>1, RowsFrame DEF RaceInv
  <2>3. MineType' /\ OutcomeType'
    BY <2>1 DEF RaceInv, MineType, OutcomeType, rows
  <2>4. \A e \in Executors : HeldInv(e)'
    BY <2>1, <2>2, HeldFrame DEF RaceInv, MineType
  <2>. QED
    BY <2>2, <2>3, <2>4 DEF RaceInv
<1>2. ASSUME NEW e \in Executors, Progress(e) \/ Interrupt(e)
      PROVE  RaceInv'
  <2>1. RowsType' /\ RowsInv' /\ Growth /\ HeldInv(e)'
    BY <1>2, RowsStep DEF RaceInv
  <2>2. MineType'
    BY <1>2, Others DEF RaceInv
  <2>3. OutcomeType'
    BY <1>2, <2>1, OutcomeStep DEF RaceInv
  <2>4. ASSUME NEW f \in Executors \ {e}
        PROVE  HeldInv(f)'
    <3>1. /\ pc'[f] = pc[f] /\ todo'[f] = todo[f]
          /\ at'[f] = at[f] /\ made'[f] = made[f]
      BY <1>2, Others DEF RaceInv
    <3>. QED
      BY <2>1, <3>1, HeldFrame DEF RaceInv, MineType
  <2>. QED
    BY <2>1, <2>2, <2>3, <2>4 DEF RaceInv
<1>. QED
  BY <1>1, <1>2 DEF Next

LEMMA RaceInvariance == Spec => []RaceInv
  BY RaceInit, RaceStep, PTL DEF Spec

\* Every table, checkpoint and program counter keeps its type, whatever the
\* stages of the pipeline read and write and however many executions race: in
\* particular a finding, a contradiction, a conclusion or a report refers only
\* to rows that exist (foreign keys of the tables, app/db/models.py).
THEOREM TypeCorrect == Spec => []TypeOK
<1>1. RaceInv => TypeOK
  BY DEF RaceInv, RowsType, MineType, OutcomeType, HeldInv, TypeOK
<1>. QED
  BY <1>1, RaceInvariance, PTL

\* "Nothing enters the KB unsupported": for any executors, whatever a finding,
\* a contradiction or a conclusion rests on was once found verified, with
\* lexical support (find, detect and conclude only read verified statements).
THEOREM NothingUnsupported == Spec => []CitedWasVerified
<1>1. ASSUME RaceInv
      PROVE  CitedWasVerified
  <2>. DEFINE F == UNION {findings[i].statements : i \in DOMAIN findings}
              C == UNION {{c[1], c[2]} : c \in Confirmed}
              R == UNION {conclusions[i].cites : i \in DOMAIN conclusions}
  <2>2. /\ \A s \in F : Grounded(s)
        /\ \A s \in C : Grounded(s)
        /\ \A s \in R : Grounded(s)
    BY <1>1 DEF RaceInv, RowsInv
  <2>3. Cited = F \cup C \cup R
    BY DEF Cited
  <2>. HIDE DEF F, C, R
  <2>1. \A s \in Cited : Grounded(s)
    BY <2>2, <2>3
  <2>. QED
    BY <2>1 DEF CitedWasVerified, Grounded
<1>. QED
  BY <1>1, RaceInvariance, PTL

\* For any executors, the support matrix of a conclusion (report_generator.py)
\* shows the score the verifier gave each cited statement, never none.
THEOREM SupportMatrix == Spec => []SupportIsEarned
<1>1. RaceInv => SupportIsEarned
  BY DEF RaceInv, RowsInv
<1>. QED
  BY <1>1, RaceInvariance, PTL
(***************************************************************************)
(* What holds of one execution at a time: the stages are executed in their *)
(* order, so what a stage reads is no longer written when it is used.      *)
(***************************************************************************)
Before(point) ==
  CASE point = "extract" -> {}
    [] point \in {"verify", "judge"} -> {"extract"}
    [] point = "find" -> {"extract", "verify"}
    [] point \in {"detect", "confirm"} -> {"extract", "verify", "find"}
    [] OTHER -> {"extract", "verify", "find", "detect"}

OrderInv(e) ==
  /\ cps \in {{}, {"extract"}, {"extract", "verify"}, {"extract", "verify", "find"},
              {"extract", "verify", "find", "detect"}, StageSet}
  /\ pc[e] # "idle" => left[e] = StageSet \ cps
  /\ pc[e] \notin {"idle", "between"} => cps = Before(pc[e])

\* What the stages to come have not written.
TablesInv ==
  /\ "verify" \notin cps => findings = <<>> /\ contradictions = <<>>
  /\ "detect" \notin cps => conclusions = <<>>

VerifiedInv(e) ==
  /\ \A i \in DOMAIN findings : findings[i].statements \subseteq Verified
  /\ Confirmed \subseteq Verified \X Verified
  /\ \A i \in DOMAIN conclusions : conclusions[i].cites \subseteq Verified
  /\ pc[e] = "find" => \A f \in todo[e] : f.statements \subseteq Verified
  /\ pc[e] \in {"detect", "confirm"} => todo[e] \subseteq Verified \X Verified
  /\ pc[e] = "confirm" => at[e] \in Verified \X Verified
  /\ pc[e] = "conclude" => todo[e] \subseteq Verified

StatusInv(e) ==
  /\ StatusIsLastVerdict
  /\ pc[e] = "judge" => at[e][2] = statements[at[e][1]].status

DraftsInv(e) ==
  /\ EveryDraftIsJudged
  /\ pc[e] \in {"verify", "judge"} =>
       \/ WithStatus("draft") \subseteq todo[e]
       \/ Len(verdicts) + Cardinality(todo[e]) >= MaxVerify

PairsInv(e) ==
  /\ PairConfirmedOnce
  /\ pc[e] = "confirm" => at[e] \notin Confirmed

DisclosedInv(e) ==
  /\ ConflictsAreDisclosed
  /\ pc[e] = "conclude" => at[e][1] = Confirmed

SoloInv ==
  /\ TablesInv
  /\ \A e \in Executors :
       /\ OrderInv(e) /\ VerifiedInv(e) /\ StatusInv(e) /\ DraftsInv(e)
       /\ PairsInv(e) /\ DisclosedInv(e)

\* Which point of control writes which table.
LEMMA Writers ==
  ASSUME NEW e \in Executors, Progress(e) \/ Interrupt(e)
  PROVE  /\ cps \subseteq cps'
         /\ pc[e] \notin {"extract", "judge"} => UNCHANGED statements
         /\ pc[e] # "judge" => UNCHANGED verdicts
         /\ pc[e] # "find" => UNCHANGED findings
         /\ pc[e] # "confirm" => UNCHANGED contradictions
         /\ pc[e] # "conclude" => UNCHANGED conclusions
<1>. USE DEF db, rows, outcome
<1>1. CASE \/ Start(e) \/ BeginExtract(e) \/ BeginVerify(e) \/ BeginFind(e) \/ BeginDetect(e)
           \/ BeginConclude(e) \/ NothingToConclude(e) \/ ExtractBlank(e) \/ Interrupt(e)
           \/ \E s \in Ids : MergeStatement(e, s)
           \/ \E pair \in todo[e] : CheckPair(e, pair)
  BY <1>1 DEF Start, BeginExtract, BeginVerify, BeginFind, BeginDetect, BeginConclude,
     NothingToConclude, ExtractBlank, Interrupt, MergeStatement, CheckPair
<1>2. CASE FinishStage(e) \/ WriteMarkdown(e) \/ CheckpointReport(e)
  BY <1>2 DEF FinishStage, WriteMarkdown, CheckpointReport, Complete
<1>3. CASE \/ \E p \in Passages : ExtractPassage(e, p)
           \/ \E f \in todo[e] : AddFinding(e, f)
           \/ JudgeStatement(e) \/ JudgePair(e) \/ GenerateReport(e)
  BY <1>3 DEF ExtractPassage, AddFinding, JudgeStatement, JudgePair, GenerateReport
<1>. QED
  BY <1>1, <1>2, <1>3 DEF Progress

\* A stage begins when those before it are checkpointed, and no other.
LEMMA UpcomingStage ==
  ASSUME NEW e \in Executors, OrderInv(e), pc[e] = "between",
         NEW stage, Upcoming(e, stage)
  PROVE  cps = Before(stage)
<1>1. /\ DOMAIN KnowledgeStages = 1 .. 5
      /\ KnowledgeStages[1] = "extract" /\ KnowledgeStages[2] = "verify"
      /\ KnowledgeStages[3] = "find" /\ KnowledgeStages[4] = "detect"
      /\ KnowledgeStages[5] = "conclude"
  BY DEF KnowledgeStages
<1>2. PICK i \in 1 .. 5 :
        /\ KnowledgeStages[i] = stage /\ stage \in left[e]
        /\ \A j \in 1 .. i - 1 : KnowledgeStages[j] \notin left[e]
  BY <1>1 DEF Upcoming
<1>3. left[e] = StageSet \ cps
  BY DEF OrderInv
<1>. USE StageNames
<1>4. CASE i = 1
  BY <1>1, <1>2, <1>3, <1>4 DEF OrderInv, Before
<1>5. CASE i = 2
  <2>1. "extract" \notin left[e]
    BY <1>1, <1>2, <1>5
  <2>. QED
    BY <1>1, <1>2, <1>3, <1>5, <2>1 DEF OrderInv, Before
<1>6. CASE i = 3
  <2>1. "extract" \notin left[e] /\ "verify" \notin left[e]
    BY <1>1, <1>2, <1>6
  <2>. QED
    BY <1>1, <1>2, <1>3, <1>6, <2>1 DEF OrderInv, Before
<1>7. CASE i = 4
  <2>1. "extract" \notin left[e] /\ "verify" \notin left[e] /\ "find" \notin left[e]
    BY <1>1, <1>2, <1>7
  <2>. QED
    BY <1>1, <1>2, <1>3, <1>7, <2>1 DEF OrderInv, Before
<1>8. CASE i = 5
  <2>1. /\ "extract" \notin left[e] /\ "verify" \notin left[e] /\ "find" \notin left[e]
        /\ "detect" \notin left[e]
    BY <1>1, <1>2, <1>8
  <2>. QED
    BY <1>1, <1>2, <1>3, <1>8, <2>1 DEF OrderInv, Before
<1>. QED
  BY <1>4, <1>5, <1>6, <1>7, <1>8

LEMMA OrderStep ==
  ASSUME MineType, NEW e \in Executors, OrderInv(e), Progress(e) \/ Interrupt(e)
  PROVE  OrderInv(e)'
<1>. USE DEF Set
<1>0. Before("between") = Before("between")' /\ \A x : Before(x)' = Before(x)
  BY DEF Before
<1>1. CASE Start(e)
  BY <1>1 DEF Start, OrderInv, MineType, db, outcome
<1>2. ASSUME NEW stage \in {"extract", "verify", "find", "detect", "conclude"},
             Begin(e, stage), UNCHANGED <<cps, left>>
      PROVE  OrderInv(e)'
  <2>1. pc[e] = "between" /\ cps = Before(stage) /\ pc'[e] = stage
    BY <1>2, UpcomingStage DEF Begin, MineType
  <2>. QED
    BY <1>0, <1>2, <2>1 DEF OrderInv
<1>3. CASE BeginExtract(e) \/ BeginVerify(e) \/ BeginFind(e) \/ BeginDetect(e) \/ BeginConclude(e)
  BY <1>2, <1>3 DEF BeginExtract, BeginVerify, BeginFind, BeginDetect, BeginConclude, db, outcome
<1>4. CASE NothingToConclude(e) \/ ExtractBlank(e) \/ Interrupt(e)
  BY <1>4 DEF NothingToConclude, ExtractBlank, Interrupt, Stop, OrderInv, MineType, db, outcome
<1>5. ASSUME NEW stage \in StageSet, Complete(e, stage), pc[e] \notin {"idle", "between"},
             \/ stage = pc[e] /\ stage # "conclude"
             \/ stage = "conclude" /\ pc[e] = "checkpoint"
      PROVE  OrderInv(e)'
  <2>1. left[e] = StageSet \ cps /\ cps = Before(pc[e]) /\ cps' = cps \cup {stage}
        /\ pc'[e] \in {"idle", "between"} /\ left'[e] = left[e] \ {stage}
    BY <1>5 DEF OrderInv, Complete, MineType
  <2>2. left'[e] = StageSet \ cps'
    BY <2>1
  <2>3. cps' \in {{"extract"}, {"extract", "verify"}, {"extract", "verify", "find"},
                  {"extract", "verify", "find", "detect"}, StageSet}
    BY <1>5, <2>1, StageNames DEF Before
  <2>. QED
    BY <2>1, <2>2, <2>3 DEF OrderInv
<1>6. CASE FinishStage(e)
  BY <1>5, <1>6, StageNames DEF FinishStage
<1>7. CASE CheckpointReport(e)
  BY <1>5, <1>7, StageNames DEF CheckpointReport
<1>8. ASSUME pc[e] \notin {"idle", "between"}, pc'[e] \notin {"idle", "between"},
             UNCHANGED <<cps, left>>, Before(pc'[e]) = Before(pc[e])
      PROVE  OrderInv(e)'
  BY <1>0, <1>8 DEF OrderInv
<1>9. CASE \/ \E p \in Passages : ExtractPassage(e, p)
           \/ \E s \in Ids : MergeStatement(e, s)
           \/ JudgeStatement(e)
  BY <1>8, <1>9 DEF ExtractPassage, MergeStatement, JudgeStatement, outcome, db, MineType, Before
<1>10. CASE \/ \E f \in todo[e] : AddFinding(e, f)
            \/ \E pair \in todo[e] : CheckPair(e, pair)
            \/ JudgePair(e)
  BY <1>8, <1>10 DEF AddFinding, CheckPair, JudgePair, outcome, db, MineType, Before
<1>11. CASE GenerateReport(e) \/ WriteMarkdown(e)
  BY <1>8, <1>11 DEF GenerateReport, WriteMarkdown, outcome, mine, MineType, Before
<1>. QED
  BY <1>1, <1>3, <1>4, <1>6, <1>7, <1>9, <1>10, <1>11 DEF Progress

LEMMA TablesStep ==
  ASSUME TablesInv, NEW e \in Executors, OrderInv(e), Progress(e) \/ Interrupt(e)
  PROVE  TablesInv'
<1>1. /\ cps \subseteq cps'
      /\ pc[e] # "find" => UNCHANGED findings
      /\ pc[e] # "confirm" => UNCHANGED contradictions
      /\ pc[e] # "conclude" => UNCHANGED conclusions
  BY Writers
<1>2. /\ pc[e] \in {"find", "confirm"} => "verify" \in cps
      /\ pc[e] = "conclude" => "detect" \in cps
  BY DEF OrderInv, Before
<1>. QED
  BY <1>1, <1>2 DEF TablesInv

LEMMA VerifiedStep ==
  ASSUME RowsType, MineType, TablesInv, NEW e \in Executors, HeldInv(e), OrderInv(e),
         VerifiedInv(e), Progress(e) \/ Interrupt(e)
  PROVE  VerifiedInv(e)'
<1>. USE DEF Set
<1>. DEFINE quiet == {"idle", "between", "extract", "verify", "judge", "report", "checkpoint"}
<1>1. CASE pc[e] \in {"extract", "verify", "judge"}
  <2>1. findings = <<>> /\ contradictions = <<>> /\ conclusions = <<>>
    BY <1>1 DEF OrderInv, Before, TablesInv
  <2>2. findings' = <<>> /\ contradictions' = <<>> /\ conclusions' = <<>>
    BY <1>1, <2>1, Writers
  <2>3. DOMAIN findings' = {} /\ Confirmed' = {} /\ DOMAIN conclusions' = {}
    BY <2>2 DEF Confirmed
  <2>4. pc'[e] \in quiet
    BY <1>1 DEF Progress, Interrupt, Stop, Start, FinishStage, Complete, Begin, BeginExtract,
       BeginVerify, BeginFind, BeginDetect, BeginConclude, NothingToConclude,
       ExtractBlank, ExtractPassage,
       MergeStatement, JudgeStatement, AddFinding, CheckPair, JudgePair, GenerateReport,
       WriteMarkdown, CheckpointReport, MineType
  <2>. QED
    BY <2>3, <2>4 DEF VerifiedInv
<1>2. CASE pc[e] \notin {"extract", "verify", "judge"}
  <2>1. UNCHANGED statements
    BY <1>2, Writers
  <2>2. Verified' = Verified
    BY <2>1 DEF Verified, WithStatus, Ids
  <2>3. CASE UNCHANGED <<findings, contradictions, conclusions>> /\ pc'[e] \in quiet
    BY <2>2, <2>3 DEF VerifiedInv, Confirmed
  <2>4. CASE Start(e) \/ BeginExtract(e) \/ BeginVerify(e) \/ NothingToConclude(e)
             \/ ExtractBlank(e) \/ Interrupt(e)
    BY <2>3, <2>4 DEF Start, BeginExtract, BeginVerify, NothingToConclude,
         ExtractBlank, Interrupt, Stop, Begin,
       MineType, db, rows
  <2>5. CASE FinishStage(e) \/ WriteMarkdown(e) \/ CheckpointReport(e)
    BY <2>3, <2>5 DEF FinishStage, WriteMarkdown, CheckpointReport, Complete, MineType, rows
  <2>6. CASE BeginFind(e)
    <3>1. pc'[e] = "find" /\ UNCHANGED <<findings, contradictions, conclusions>>
      BY <2>6 DEF BeginFind, Begin, MineType, db, rows
    <3>2. ASSUME NEW f \in todo'[e]
          PROVE  f.statements \subseteq Verified
      <4>. DEFINE cluster(d) == {s \in Verified : Domain[statements[s].passage] = d}
      <4>1. \E d : f = [domain |-> d, tier |-> Tier(cluster(d)), statements |-> cluster(d)]
        BY <2>6, <3>2 DEF BeginFind, MineType
      <4>. QED
        BY <4>1
    <3>. QED
      BY <2>2, <3>1, <3>2 DEF VerifiedInv, Confirmed
  <2>7. CASE BeginDetect(e)
    <3>1. /\ pc'[e] = "detect" /\ todo'[e] \subseteq Verified \X Verified
          /\ UNCHANGED <<findings, contradictions, conclusions>>
      BY <2>7 DEF BeginDetect, Begin, FirstOf, Candidates, MineType, db, rows
    <3>. QED
      BY <2>2, <3>1 DEF VerifiedInv, Confirmed
  <2>8. CASE BeginConclude(e)
    <3>1. /\ pc'[e] = "conclude" /\ todo'[e] \subseteq Verified
          /\ UNCHANGED <<findings, contradictions, conclusions>>
      BY <2>8 DEF BeginConclude, Begin, FirstOf, MineType, db, rows
    <3>. QED
      BY <2>2, <3>1 DEF VerifiedInv, Confirmed
  <2>9. ASSUME NEW f \in todo[e], AddFinding(e, f)
        PROVE  VerifiedInv(e)'
    <3>1. /\ pc[e] = "find" /\ pc'[e] = "find" /\ todo'[e] \subseteq todo[e]
          /\ UNCHANGED <<contradictions, conclusions>>
      BY <2>9 DEF AddFinding, Drop, MineType
    <3>2. \A i \in DOMAIN findings' :
            findings'[i] = f \/ \E k \in DOMAIN findings : findings'[i] = findings[k]
      BY <2>9, FindingAdded
    <3>3. \A i \in DOMAIN findings' : findings'[i].statements \subseteq Verified
      BY <3>1, <3>2 DEF VerifiedInv
    <3>. QED
      BY <2>2, <3>1, <3>3 DEF VerifiedInv, Confirmed
  <2>10. ASSUME NEW pair \in todo[e], CheckPair(e, pair)
         PROVE  VerifiedInv(e)'
    <3>1. /\ pc[e] = "detect" /\ todo'[e] \subseteq todo[e]
          /\ pc'[e] = "detect" \/ (pc'[e] = "confirm" /\ at'[e] = pair)
          /\ UNCHANGED <<findings, contradictions, conclusions>>
      BY <2>10 DEF CheckPair, Drop, MineType, db, rows
    <3>. QED
      BY <2>2, <3>1 DEF VerifiedInv, Confirmed
  <2>11. CASE JudgePair(e)
    <3>1. /\ pc[e] = "confirm" /\ pc'[e] = "detect" /\ todo'[e] = todo[e]
          /\ UNCHANGED <<findings, conclusions>>
      BY <2>11 DEF JudgePair, MineType
    <3>2. Confirmed' \subseteq Confirmed \cup {at[e]}
      BY <2>11, PairAdded
    <3>. QED
      BY <2>2, <3>1, <3>2 DEF VerifiedInv
  <2>12. CASE GenerateReport(e)
    <3>1. /\ pc[e] = "conclude" /\ pc'[e] = "report"
          /\ UNCHANGED <<findings, contradictions>>
      BY <2>12 DEF GenerateReport, MineType
    <3>2. \A i \in DOMAIN conclusions' : conclusions'[i].cites \subseteq Verified
      BY <2>12, <3>1, ReportAdded DEF Reported, VerifiedInv
    <3>. QED
      BY <2>2, <3>1, <3>2 DEF VerifiedInv, Confirmed
  <2>. QED
    BY <1>2, <2>4, <2>5, <2>6, <2>7, <2>8, <2>9, <2>10, <2>11, <2>12
       DEF Progress, ExtractPassage, MergeStatement, JudgeStatement
<1>. QED
  BY <1>1, <1>2

LEMMA PairsStep ==
  ASSUME RowsType, MineType, NEW e \in Executors, HeldInv(e), PairsInv(e),
         Progress(e) \/ Interrupt(e)
  PROVE  PairsInv(e)'
<1>1. ASSUME NEW pair \in todo[e], CheckPair(e, pair)
      PROVE  PairsInv(e)'
  <2>1. /\ contradictions' = contradictions
        /\ pc'[e] = "confirm" => at'[e] = pair /\ pair \notin Confirmed
    BY <1>1 DEF CheckPair, MineType, Set, db, rows
  <2>. QED
    BY <2>1 DEF PairsInv, PairConfirmedOnce, Confirmed
<1>2. CASE JudgePair(e)
  <2>1. pc[e] = "confirm" /\ pc'[e] = "detect"
    BY <1>2 DEF JudgePair, MineType, Set
  <2>2. CASE contradictions' = contradictions
    BY <2>1, <2>2 DEF PairsInv, PairConfirmedOnce
  <2>3. CASE contradictions' = Append(contradictions, at[e])
    <3>1. \A i \in DOMAIN contradictions' :
            \/ i \in DOMAIN contradictions /\ contradictions'[i] = contradictions[i]
            \/ i = Len(contradictions) + 1 /\ contradictions'[i] = at[e]
      BY <1>2, <2>3, PairAdded, Appended
    <3>2. \A i \in DOMAIN contradictions : contradictions[i] # at[e]
      BY <2>1 DEF PairsInv, Confirmed
    <3>3. PairConfirmedOnce'
      BY <3>1, <3>2 DEF PairsInv, PairConfirmedOnce
    <3>. QED
      BY <2>1, <3>3 DEF PairsInv
  <2>. QED
    BY <1>2, <2>2, <2>3, PairAdded
<1>3. CASE pc[e] # "confirm" /\ pc'[e] # "confirm"
  BY <1>3, Writers DEF PairsInv, PairConfirmedOnce
<1>4. CASE pc'[e] # "confirm" /\ UNCHANGED contradictions
  BY <1>4 DEF PairsInv, PairConfirmedOnce
<1>5. CASE Interrupt(e)
  BY <1>4, <1>5 DEF Interrupt, Stop, MineType, Set, db, rows
<1>6. ASSUME Progress(e), ~JudgePair(e), \A pair \in todo[e] : ~CheckPair(e, pair)
      PROVE  pc[e] # "confirm" /\ pc'[e] # "confirm"
  BY <1>6 DEF Progress, Set, Stop, Start, FinishStage, Complete, Begin, BeginExtract,
     BeginVerify, BeginFind, BeginDetect, BeginConclude, NothingToConclude,
     ExtractBlank, ExtractPassage,
     MergeStatement, JudgeStatement, AddFinding, GenerateReport,
     WriteMarkdown, CheckpointReport, MineType
<1>. QED
  BY <1>1, <1>2, <1>3, <1>5, <1>6

LEMMA DisclosedStep ==
  ASSUME RowsType, MineType, TablesInv, NEW e \in Executors, OrderInv(e), DisclosedInv(e),
         Progress(e) \/ Interrupt(e)
  PROVE  DisclosedInv(e)'
<1>1. CASE GenerateReport(e)
  <2>1. pc[e] = "conclude" /\ pc'[e] = "report" /\ UNCHANGED contradictions
    BY <1>1 DEF GenerateReport, MineType, Set
  <2>2. at[e][1] = Confirmed /\ Confirmed' = Confirmed
    BY <2>1 DEF DisclosedInv, Confirmed
  <2>3. ASSUME NEW row, Reported(e, row), NEW c \in Confirmed, {c[1], c[2]} \cap row.cites # {}
        PROVE  c \in row.warnings
    BY <2>2, <2>3 DEF Reported, Warnings
  <2>4. ConflictsAreDisclosed'
    BY <1>1, <2>2, <2>3, ReportAdded DEF DisclosedInv, ConflictsAreDisclosed
  <2>. QED
    BY <2>1, <2>4 DEF DisclosedInv
<1>2. CASE BeginConclude(e)
  BY <1>2 DEF BeginConclude, Begin, DisclosedInv, ConflictsAreDisclosed, Confirmed, MineType, Set, db, rows
<1>3. CASE pc[e] = "confirm"
  <2>1. conclusions = <<>> /\ conclusions' = <<>>
    BY <1>3, Writers DEF OrderInv, Before, TablesInv
  <2>2. pc'[e] # "conclude"
    BY <1>3 DEF Progress, Set, Stop, Start, FinishStage, Complete, Begin, BeginExtract,
     BeginVerify, BeginFind, BeginDetect, BeginConclude, NothingToConclude,
     ExtractBlank, ExtractPassage,
     MergeStatement, JudgeStatement, AddFinding, CheckPair, JudgePair, GenerateReport,
     WriteMarkdown, CheckpointReport, MineType, Interrupt
  <2>. QED
    BY <2>1, <2>2 DEF DisclosedInv, ConflictsAreDisclosed
<1>4. CASE pc[e] # "confirm" /\ ~GenerateReport(e) /\ ~BeginConclude(e)
  <2>1. pc'[e] # "conclude"
    BY <1>4 DEF Progress, Set, Stop, Start, FinishStage, Complete, Begin, BeginExtract,
     BeginVerify, BeginFind, BeginDetect, NothingToConclude, ExtractBlank, ExtractPassage,
     MergeStatement, JudgeStatement, AddFinding, CheckPair, JudgePair,
     WriteMarkdown, CheckpointReport, MineType, Interrupt
  <2>2. UNCHANGED <<contradictions, conclusions>>
    <3>1. pc[e] = "conclude" => Interrupt(e)
      BY <1>4 DEF Progress, Start, FinishStage, Begin, BeginExtract,
       BeginVerify, BeginFind, BeginDetect, NothingToConclude, ExtractBlank, ExtractPassage,
       MergeStatement, JudgeStatement, AddFinding, CheckPair, JudgePair,
       WriteMarkdown, CheckpointReport
    <3>2. Interrupt(e) => UNCHANGED conclusions
      BY DEF Interrupt, db, rows
    <3>. QED
      BY <1>4, <3>1, <3>2, Writers
  <2>. QED
    BY <2>1, <2>2 DEF DisclosedInv, ConflictsAreDisclosed, Confirmed
<1>. QED
  BY <1>1, <1>2, <1>3, <1>4

LEMMA LastIsOwn ==
  ASSUME RowsType, RowsInv, NEW s \in Ids, VerdictsOf(s) # {}
  PROVE  \E i \in VerdictsOf(s) : Sets!Max(VerdictsOf(s)) = i
<1>1. PICK i \in VerdictsOf(s) : \A j \in VerdictsOf(s) : j <= i
  BY DEF RowsInv
<1>2. VerdictsOf(s) \in SUBSET Nat
  BY DEF VerdictsOf, RowsType
<1>. QED
  BY <1>1, <1>2, MaxIs

LEMMA StatusStep ==
  ASSUME RowsType, RowsInv, MineType, NEW e \in Executors, HeldInv(e), StatusInv(e),
         Progress(e) \/ Interrupt(e)
  PROVE  StatusInv(e)'
<1>. USE DEF Set
<1>1. ASSUME NEW p \in Passages, ExtractPassage(e, p)
      PROVE  StatusInv(e)'
  <2>1. /\ \A s \in Ids : statements'[s] = statements[s]
        /\ \A s \in Ids' \ Ids : statements'[s].status = "draft"
    BY <1>1, StatementsAdded
  <2>2. pc'[e] = "extract" /\ verdicts' = verdicts
    BY <1>1 DEF ExtractPassage
  <2>3. \A s : VerdictsOf(s)' = VerdictsOf(s) /\ LastVerdict(s)' = LastVerdict(s)
    BY <2>2 DEF VerdictsOf, LastVerdict
  <2>4. \A s : s \notin Ids => VerdictsOf(s) = {}
    BY DEF RowsType, VerdictsOf
  <2>5. StatusIsLastVerdict'
    BY <2>1, <2>3, <2>4 DEF StatusInv, StatusIsLastVerdict
  <2>. QED
    BY <2>2, <2>5 DEF StatusInv
<1>2. CASE JudgeStatement(e)
  <2>1. PICK s \in todo[e], decision \in {"verified", "quarantined"} : Judges(e, s, decision)
    BY <1>2, Judged
  <2>2. at[e][1] = s /\ pc[e] = "judge" /\ pc'[e] = "verify"
    BY <2>1 DEF Judges
  <2>3. at[e][2] = statements[s].status
    BY <2>2 DEF StatusInv
  <2>4. /\ Ids' = Ids /\ \A t \in Ids \ {s} : statements'[t] = statements[t]
        /\ statements'[s].status = decision
        /\ \A i \in DOMAIN verdicts : verdicts'[i] = verdicts[i]
        /\ \A t : t # s => VerdictsOf(t)' = VerdictsOf(t)
    BY <2>1, <2>3, VerdictAdded
  <2>5. VerdictsOf(s)' # {} /\ LastVerdict(s)'.decision = decision
    <3>1. /\ Len(verdicts) + 1 \in VerdictsOf(s)' /\ VerdictsOf(s)' \subseteq Nat
          /\ \A j \in VerdictsOf(s)' : j <= Len(verdicts) + 1
          /\ verdicts'[Len(verdicts) + 1].decision = decision
      BY <2>1, VerdictAdded
    <3>2. Sets!Max(VerdictsOf(s)') = Len(verdicts) + 1
      BY <3>1, MaxIs
    <3>3. LastVerdict(s)' = verdicts'[Len(verdicts) + 1]
      BY <3>2 DEF LastVerdict
    <3>. QED
      BY <3>1, <3>3
  <2>6. ASSUME NEW t \in Ids \ {s}
        PROVE  statements'[t].status =
                 IF VerdictsOf(t)' = {} THEN "draft" ELSE LastVerdict(t)'.decision
    <3>1. VerdictsOf(t)' = VerdictsOf(t) /\ statements'[t] = statements[t]
      BY <2>4
    <3>2. statements[t].status =
            IF VerdictsOf(t) = {} THEN "draft" ELSE LastVerdict(t).decision
      BY DEF StatusInv, StatusIsLastVerdict
    <3>3. CASE VerdictsOf(t) # {}
      <4>1. PICK i \in VerdictsOf(t) : Sets!Max(VerdictsOf(t)) = i
        BY <3>3, LastIsOwn
      <4>2. LastVerdict(t)' = LastVerdict(t)
        BY <2>4, <3>1, <4>1 DEF LastVerdict, VerdictsOf
      <4>. QED
        BY <3>1, <3>2, <4>2
    <3>. QED
      BY <3>1, <3>2, <3>3
  <2>7. StatusIsLastVerdict'
    BY <2>4, <2>5, <2>6 DEF StatusIsLastVerdict
  <2>. QED
    BY <2>2, <2>7 DEF StatusInv
<1>3. ASSUME NEW s \in Ids, MergeStatement(e, s)
      PROVE  StatusInv(e)'
  BY <1>3 DEF MergeStatement, StatusInv, StatusIsLastVerdict, VerdictsOf, LastVerdict, Ids,
     MineType, db, rows
<1>4. CASE UNCHANGED <<statements, verdicts>> /\ pc'[e] # "judge"
  <2>1. /\ Ids' = Ids
        /\ \A s : VerdictsOf(s)' = VerdictsOf(s) /\ LastVerdict(s)' = LastVerdict(s)
    BY <1>4 DEF VerdictsOf, LastVerdict, Ids
  <2>. QED
    BY <1>4, <2>1 DEF StatusInv, StatusIsLastVerdict
<1>5. CASE Interrupt(e) \/ NothingToConclude(e) \/ ExtractBlank(e)
  BY <1>4, <1>5 DEF Interrupt, NothingToConclude, ExtractBlank, Stop, MineType, db, rows
<1>6. CASE \/ Start(e) \/ FinishStage(e) \/ BeginExtract(e) \/ BeginVerify(e) \/ BeginFind(e)
           \/ BeginDetect(e) \/ BeginConclude(e)
  BY <1>4, <1>6 DEF Start, FinishStage, Complete, Begin, BeginExtract, BeginVerify, BeginFind,
     BeginDetect, BeginConclude, MineType, db, rows
<1>7. CASE \/ \E f \in todo[e] : AddFinding(e, f)
           \/ \E pair \in todo[e] : CheckPair(e, pair)
           \/ JudgePair(e) \/ GenerateReport(e) \/ WriteMarkdown(e) \/ CheckpointReport(e)
  BY <1>4, <1>7 DEF AddFinding, CheckPair, JudgePair, GenerateReport, WriteMarkdown,
     CheckpointReport, Complete, MineType, db, rows
<1>. QED
  BY <1>1, <1>2, <1>3, <1>5, <1>6, <1>7 DEF Progress

LEMMA TodoIsFinite ==
  ASSUME RowsType, NEW e \in Executors, HeldInv(e), pc[e] \in {"verify", "judge"}
  PROVE  IsFiniteSet(todo[e]) /\ Cardinality(todo[e]) \in Nat
<1>1. Ids = 1 .. Len(statements) /\ Len(statements) \in Nat
  BY LenProperties DEF RowsType, Ids
<1>2. IsFiniteSet(Ids)
  BY <1>1, FS_Interval
<1>3. todo[e] \in SUBSET Ids
  BY ItemsAt DEF HeldInv
<1>4. IsFiniteSet(todo[e])
  BY <1>2, <1>3, FS_Subset
<1>. QED
  BY <1>4, FS_CardinalityType

\* verify reads every draft, or as many as its cap allows.
LEMMA DraftsRead ==
  ASSUME RowsType, MineType, NEW e \in Executors, BeginVerify(e)
  PROVE  /\ Cardinality(todo'[e]) \in Nat
         /\ \/ WithStatus("draft") \subseteq todo'[e]
            \/ Cardinality(todo'[e]) >= MaxVerify
<1>. DEFINE drafts == WithStatus("draft")
<1>1. PICK D \in FirstOf(MaxVerify, drafts) : todo' = Set(todo, e, D)
  BY DEF BeginVerify
<1>2. todo'[e] = D
  BY <1>1 DEF Set, MineType
<1>3. Ids = 1 .. Len(statements) /\ Len(statements) \in Nat
  BY LenProperties DEF RowsType, Ids
<1>4. IsFiniteSet(Ids)
  BY <1>3, FS_Interval
<1>5. drafts \in SUBSET Ids
  BY DEF WithStatus
<1>6. IsFiniteSet(drafts)
  BY <1>4, <1>5, FS_Subset
<1>. HIDE DEF drafts
<1>7. D \in SUBSET drafts
      /\ Cardinality(D) = (IF Cardinality(drafts) < MaxVerify THEN Cardinality(drafts) ELSE MaxVerify)
  BY <1>1 DEF FirstOf
<1>8. Cardinality(todo'[e]) \in Nat
  BY <1>2, <1>6, <1>7, FS_Subset, FS_CardinalityType
<1>9. drafts \subseteq todo'[e] \/ Cardinality(todo'[e]) >= MaxVerify
  <2>1. CASE Cardinality(drafts) < MaxVerify
    <3>1. drafts = D
      BY <1>6, <1>7, <2>1, FS_Subset
    <3>. QED
      BY <1>2, <3>1
  <2>2. CASE ~(Cardinality(drafts) < MaxVerify)
    BY <1>2, <1>7, <2>2, Constants
  <2>. QED
    BY <2>1, <2>2
<1>. QED
  BY <1>8, <1>9 DEF drafts

LEMMA DraftsStep ==
  ASSUME RowsType, MineType, NEW e \in Executors, HeldInv(e), OrderInv(e), StatusInv(e),
         DraftsInv(e), Progress(e) \/ Interrupt(e)
  PROVE  DraftsInv(e)'
<1>. USE DEF Set
<1>1. OrderInv(e)'
  BY OrderStep
<1>2. Len(verdicts) \in Nat /\ MaxVerify \in Nat
  BY LenProperties, Constants DEF RowsType
<1>3. CASE "verify" \in cps
  <2>1. pc[e] \notin {"extract", "verify", "judge"}
    BY <1>3 DEF OrderInv, Before
  <2>2. UNCHANGED <<statements, verdicts>> /\ "verify" \in cps'
    BY <1>3, <2>1, Writers
  <2>3. pc'[e] \notin {"verify", "judge"}
    BY <1>1, <2>2 DEF OrderInv, Before
  <2>. QED
    BY <1>3, <2>2, <2>3 DEF DraftsInv, EveryDraftIsJudged, WithStatus, Ids
<1>4. CASE "verify" \notin cps
  <2>1. CASE UNCHANGED cps /\ pc'[e] \notin {"verify", "judge"}
    BY <1>4, <2>1 DEF DraftsInv, EveryDraftIsJudged
  <2>2. CASE FinishStage(e)
    <3>1. UNCHANGED <<statements, verdicts>> /\ pc'[e] \in {"idle", "between"} /\ todo[e] = {}
      BY <2>2 DEF FinishStage, Complete, rows, MineType
    <3>2. CASE pc[e] # "verify"
      BY <1>4, <2>2, <3>1, <3>2 DEF FinishStage, Complete, DraftsInv, EveryDraftIsJudged
    <3>3. CASE pc[e] = "verify"
      <4>1. WithStatus("draft") = {} \/ Len(verdicts) >= MaxVerify
        BY <1>2, <3>1, <3>3, FS_EmptySet DEF DraftsInv
      <4>. QED
        BY <3>1, <4>1 DEF DraftsInv, EveryDraftIsJudged, WithStatus, Ids
    <3>. QED
      BY <3>2, <3>3
  <2>3. CASE BeginVerify(e)
    <3>1. UNCHANGED <<statements, verdicts, cps>> /\ pc'[e] = "verify"
      BY <2>3 DEF BeginVerify, Begin, MineType, db, rows, outcome
    <3>2. \/ WithStatus("draft") \subseteq todo'[e]
          \/ Cardinality(todo'[e]) >= MaxVerify
      BY <2>3, DraftsRead
    <3>3. WithStatus("draft")' = WithStatus("draft")
      BY <3>1 DEF WithStatus, Ids
    <3>5. Cardinality(todo'[e]) \in Nat
      BY <2>3, DraftsRead
    <3>. QED
      BY <1>2, <1>4, <3>1, <3>2, <3>3, <3>5 DEF DraftsInv, EveryDraftIsJudged
  <2>4. ASSUME NEW s \in Ids, MergeStatement(e, s)
        PROVE  DraftsInv(e)'
    <3>1. /\ UNCHANGED <<statements, verdicts, cps>> /\ pc[e] = "verify" /\ pc'[e] = "judge"
          /\ todo'[e] = todo[e]
      BY <2>4 DEF MergeStatement, MineType, db, rows, outcome
    <3>. QED
      BY <3>1 DEF DraftsInv, EveryDraftIsJudged, WithStatus, Ids
  <2>5. CASE JudgeStatement(e)
    <3>1. PICK s \in todo[e], decision \in {"verified", "quarantined"} : Judges(e, s, decision)
      BY <2>5, Judged
    <3>2. /\ at[e][1] = s /\ pc[e] = "judge" /\ pc'[e] = "verify" /\ todo'[e] = todo[e] \ {s}
      BY <3>1 DEF Judges
    <3>3. at[e][2] = statements[s].status
      BY <3>2 DEF StatusInv
    <3>4. /\ Ids' = Ids /\ \A t \in Ids \ {s} : statements'[t] = statements[t]
          /\ statements'[s].status = decision /\ Len(verdicts') = Len(verdicts) + 1
      BY <3>1, <3>3, VerdictAdded
    <3>5. WithStatus("draft")' \subseteq WithStatus("draft") \ {s}
      BY <3>4 DEF WithStatus
    <3>6. Cardinality(todo'[e]) = Cardinality(todo[e]) - 1 /\ Cardinality(todo[e]) \in Nat
      <4>1. IsFiniteSet(todo[e]) /\ Cardinality(todo[e]) \in Nat
        BY <3>2, TodoIsFinite
      <4>2. Cardinality(todo[e] \ {s}) = Cardinality(todo[e]) - 1
        BY <4>1, FS_RemoveElement
      <4>. QED
        BY <3>2, <4>1, <4>2
    <3>7. \/ WithStatus("draft")' \subseteq todo'[e]
          \/ Len(verdicts') + Cardinality(todo'[e]) >= MaxVerify
      BY <1>2, <3>2, <3>4, <3>5, <3>6 DEF DraftsInv
    <3>8. cps' = cps
      BY <2>5 DEF JudgeStatement, outcome
    <3>. QED
      BY <1>4, <3>7, <3>8 DEF DraftsInv, EveryDraftIsJudged
  <2>6. CASE CheckpointReport(e)
    BY <1>4, <2>6 DEF CheckpointReport, OrderInv, Before
  <2>7. CASE \/ Start(e) \/ BeginExtract(e) \/ BeginFind(e) \/ BeginDetect(e)
             \/ BeginConclude(e) \/ NothingToConclude(e) \/ ExtractBlank(e) \/ Interrupt(e)
    BY <2>1, <2>7 DEF Start, Begin, BeginExtract, BeginFind, BeginDetect, BeginConclude,
       NothingToConclude, ExtractBlank, Interrupt, Stop, MineType, db, outcome
  <2>8. CASE \/ \E p \in Passages : ExtractPassage(e, p)
             \/ \E f \in todo[e] : AddFinding(e, f)
             \/ \E pair \in todo[e] : CheckPair(e, pair)
             \/ JudgePair(e) \/ GenerateReport(e) \/ WriteMarkdown(e)
    BY <2>1, <2>8 DEF ExtractPassage, AddFinding, CheckPair, JudgePair, GenerateReport,
       WriteMarkdown, MineType, db, outcome
  <2>. QED
    BY <2>2, <2>3, <2>4, <2>5, <2>6, <2>7, <2>8 DEF Progress
<1>. QED
  BY <1>3, <1>4

LEMMA SoloInit == Init => SoloInv
<1>. SUFFICES ASSUME Init
              PROVE  SoloInv
  OBVIOUS
<1>. USE DEF Init
<1>1. /\ Ids = {} /\ Confirmed = {} /\ DOMAIN findings = {} /\ DOMAIN contradictions = {}
      /\ DOMAIN conclusions = {}
  BY DEF Ids, Confirmed
<1>2. TablesInv
  BY DEF TablesInv
<1>. SUFFICES ASSUME NEW e \in Executors
              PROVE  /\ OrderInv(e) /\ VerifiedInv(e) /\ StatusInv(e) /\ DraftsInv(e)
                     /\ PairsInv(e) /\ DisclosedInv(e)
  BY <1>2 DEF SoloInv
<1>3. pc[e] = "idle" /\ cps = {}
  OBVIOUS
<1>4. OrderInv(e)
  BY <1>3 DEF OrderInv
<1>5. VerifiedInv(e) /\ StatusInv(e) /\ DraftsInv(e)
  BY <1>1, <1>3 DEF VerifiedInv, StatusInv, StatusIsLastVerdict, DraftsInv, EveryDraftIsJudged
<1>6. PairsInv(e) /\ DisclosedInv(e)
  BY <1>1, <1>3 DEF PairsInv, PairConfirmedOnce, DisclosedInv, ConflictsAreDisclosed
<1>. QED
  BY <1>4, <1>5, <1>6

LEMMA SoloFrame ==
  ASSUME SoloInv, UNCHANGED vars
  PROVE  SoloInv'
<1>. USE DEF vars, db, rows, outcome, mine
<1>1. /\ Ids' = Ids /\ Confirmed' = Confirmed
      /\ \A x : WithStatus(x)' = WithStatus(x)
      /\ \A s : VerdictsOf(s)' = VerdictsOf(s) /\ LastVerdict(s)' = LastVerdict(s)
  BY DEF Ids, Confirmed, WithStatus, VerdictsOf, LastVerdict
<1>2. TablesInv'
  BY DEF SoloInv, TablesInv
<1>. SUFFICES ASSUME NEW e \in Executors
              PROVE  (/\ OrderInv(e) /\ VerifiedInv(e) /\ StatusInv(e) /\ DraftsInv(e)
                      /\ PairsInv(e) /\ DisclosedInv(e))'
  BY <1>2 DEF SoloInv
<1>3. OrderInv(e)' /\ VerifiedInv(e)'
  BY <1>1 DEF SoloInv, OrderInv, VerifiedInv, Verified, Before
<1>4. StatusInv(e)' /\ DraftsInv(e)'
  BY <1>1 DEF SoloInv, StatusInv, StatusIsLastVerdict, DraftsInv, EveryDraftIsJudged
<1>5. PairsInv(e)' /\ DisclosedInv(e)'
  BY <1>1 DEF SoloInv, PairsInv, PairConfirmedOnce, DisclosedInv, ConflictsAreDisclosed
<1>. QED
  BY <1>3, <1>4, <1>5

LEMMA SoloStep ==
  ASSUME NEW e, Executors = {e}
  PROVE  RaceInv /\ SoloInv /\ [Next]_vars => SoloInv'
<1>. SUFFICES ASSUME RaceInv, SoloInv, [Next]_vars
              PROVE  SoloInv'
  OBVIOUS
<1>1. CASE Progress(e) \/ Interrupt(e)
  <2>1. /\ RowsType /\ RowsInv /\ MineType /\ HeldInv(e)
        /\ TablesInv /\ OrderInv(e) /\ VerifiedInv(e) /\ StatusInv(e) /\ DraftsInv(e)
        /\ PairsInv(e) /\ DisclosedInv(e)
    BY DEF RaceInv, SoloInv
  <2>2. TablesInv' /\ OrderInv(e)' /\ VerifiedInv(e)'
    BY <1>1, <2>1, TablesStep, OrderStep, VerifiedStep
  <2>3. StatusInv(e)' /\ DraftsInv(e)'
    BY <1>1, <2>1, StatusStep, DraftsStep
  <2>4. PairsInv(e)' /\ DisclosedInv(e)'
    BY <1>1, <2>1, PairsStep, DisclosedStep
  <2>. QED
    BY <2>2, <2>3, <2>4 DEF SoloInv
<1>. QED
  BY <1>1, SoloFrame DEF Next

LEMMA SoloInvariance ==
  ASSUME NEW e, Executors = {e}
  PROVE  Spec => []SoloInv
<1>1. RaceInv /\ SoloInv /\ [Next]_vars => SoloInv'
  BY SoloStep
<1>. QED
  BY <1>1, SoloInit, RaceInvariance, PTL DEF Spec

\* Of one execution at a time, interrupted and resumed at will: what a finding,
\* a contradiction or a conclusion rests on is verified, still: verify alone
\* writes a status (verifier.py), and is over when the rest begins (run_flow).
THEOREM CitedStaysVerified ==
  ASSUME NEW e, Executors = {e}
  PROVE  Spec => []CitedIsVerified
<1>1. ASSUME SoloInv
      PROVE  CitedIsVerified
  <2>. DEFINE F == UNION {findings[i].statements : i \in DOMAIN findings}
              C == UNION {{c[1], c[2]} : c \in Confirmed}
              R == UNION {conclusions[i].cites : i \in DOMAIN conclusions}
  <2>1. VerifiedInv(e)
    BY <1>1 DEF SoloInv
  <2>2. F \subseteq Verified /\ C \subseteq Verified /\ R \subseteq Verified
    BY <2>1 DEF VerifiedInv
  <2>3. Cited = F \cup C \cup R
    BY DEF Cited
  <2>. HIDE DEF F, C, R
  <2>. QED
    BY <2>2, <2>3 DEF CitedIsVerified
<1>. QED
  BY <1>1, SoloInvariance, PTL

\* Of one execution at a time, the status of a statement is what its last audit
\* row decided, draft without one (verifier.py commits both together).
THEOREM StatusExplained ==
  ASSUME NEW e, Executors = {e}
  PROVE  Spec => []StatusIsLastVerdict
<1>1. SoloInv => StatusIsLastVerdict
  BY DEF SoloInv, StatusInv
<1>. QED
  BY <1>1, SoloInvariance, PTL

\* Of one execution at a time, verify is checkpointed only when every draft was
\* judged, or as many as its cap allows (verify.py, verifier.py).
THEOREM DraftsJudged ==
  ASSUME NEW e, Executors = {e}
  PROVE  Spec => []EveryDraftIsJudged
<1>1. SoloInv => EveryDraftIsJudged
  BY DEF SoloInv, DraftsInv
<1>. QED
  BY <1>1, SoloInvariance, PTL

\* Of one execution at a time, a pair is confirmed once, however often detect is
\* interrupted and resumed (contradiction_detector.py looks the pair up first).
THEOREM DetectionIdempotent ==
  ASSUME NEW e, Executors = {e}
  PROVE  Spec => []PairConfirmedOnce
<1>1. SoloInv => PairConfirmedOnce
  BY DEF SoloInv, PairsInv
<1>. QED
  BY <1>1, SoloInvariance, PTL

\* Of one execution at a time, a conclusion warns of every contradiction that
\* touches what it cites: generate reads them when detect is over
\* (report_generator.py).
THEOREM NoSilentMerge ==
  ASSUME NEW e, Executors = {e}
  PROVE  Spec => []ConflictsAreDisclosed
<1>1. SoloInv => ConflictsAreDisclosed
  BY DEF SoloInv, DisclosedInv
<1>. QED
  BY <1>1, SoloInvariance, PTL

-----------------------------------------------------------------------------
(***************************************************************************)
(* Of one execution at a time EvidenceBase implements EvidenceLedger.      *)
(***************************************************************************)

(***************************************************************************)
(* What a stage has still to do is what the ledger lets it do: verify has  *)
(* drafts, find no empty cluster, detect pairs of different statements.    *)
(***************************************************************************)
Drafts == WithStatus("draft")
Refused == WithStatus("quarantined")

TodoInv(e) ==
  /\ pc[e] \in {"verify", "judge"} => todo[e] \subseteq Drafts
  /\ pc[e] = "find" => \A f \in todo[e] : f.statements # {}
  /\ pc[e] \in {"detect", "confirm"} => \A c \in todo[e] : c[1] # c[2]
  /\ pc[e] = "confirm" => at[e][1] # at[e][2]

LEMMA TodoBegins ==
  ASSUME RowsType, MineType, NEW e \in Executors,
         BeginVerify(e) \/ BeginFind(e) \/ BeginDetect(e)
  PROVE  TodoInv(e)'
<1>. USE DEF Set
<1>1. Drafts' = Drafts
  BY DEF BeginVerify, BeginFind, BeginDetect, Drafts, WithStatus, Ids, db, rows
<1>2. CASE BeginVerify(e)
  <2>1. pc'[e] = "verify" /\ todo'[e] \subseteq Drafts
    BY <1>2 DEF BeginVerify, Begin, FirstOf, Drafts, MineType
  <2>. QED
    BY <1>1, <2>1 DEF TodoInv
<1>3. CASE BeginFind(e)
  <2>1. pc'[e] = "find"
    BY <1>3 DEF BeginFind, Begin, MineType
  <2>2. ASSUME NEW f \in todo'[e]
        PROVE  f.statements # {}
    <3>. DEFINE domainOf(s) == Domain[statements[s].passage]
                cluster(d) == {s \in Verified : domainOf(s) = d}
    <3>1. PICK s \in Verified :
            f = [domain |-> domainOf(s), tier |-> Tier(cluster(domainOf(s))),
                 statements |-> cluster(domainOf(s))]
      BY <1>3, <2>2 DEF BeginFind, MineType
    <3>2. s \in cluster(domainOf(s))
      OBVIOUS
    <3>. QED
      BY <3>1, <3>2
  <2>. QED
    BY <2>1, <2>2 DEF TodoInv
<1>4. CASE BeginDetect(e)
  <2>1. pc'[e] = "detect" /\ \E V \in SUBSET Verified : todo'[e] \subseteq Candidates(V)
    BY <1>4 DEF BeginDetect, Begin, FirstOf, MineType
  <2>2. PICK V \in SUBSET Verified : todo'[e] \subseteq Candidates(V)
    BY <2>1
  <2>3. V \subseteq Nat
    BY StatementType DEF Verified, WithStatus
  <2>4. ASSUME NEW c \in todo'[e]
        PROVE  c[1] # c[2]
    <3>1. c \in V \X V /\ c[1] < c[2]
      BY <2>2 DEF Candidates
    <3>2. c[1] \in Nat /\ c[2] \in Nat
      BY <2>3, <3>1
    <3>. QED
      BY <3>1, <3>2
  <2>. QED
    BY <2>1, <2>4 DEF TodoInv
<1>. QED
  BY <1>2, <1>3, <1>4

LEMMA TodoStep ==
  ASSUME RowsType, MineType, NEW e \in Executors, HeldInv(e), TodoInv(e),
         Progress(e) \/ Interrupt(e)
  PROVE  TodoInv(e)'
<1>. USE DEF Set
<1>. DEFINE quiet == {"idle", "between", "extract", "conclude", "report", "checkpoint"}
<1>1. CASE pc'[e] \in quiet
  BY <1>1 DEF TodoInv
<1>2. CASE BeginVerify(e) \/ BeginFind(e) \/ BeginDetect(e)
  BY <1>2, TodoBegins
<1>3. ASSUME NEW s \in Ids, MergeStatement(e, s)
      PROVE  TodoInv(e)'
  <2>1. /\ pc[e] = "verify" /\ pc'[e] = "judge" /\ todo'[e] = todo[e]
        /\ statements' = statements
    BY <1>3 DEF MergeStatement, MineType, db, rows
  <2>. QED
    BY <2>1 DEF TodoInv, Drafts, WithStatus, Ids
<1>4. CASE JudgeStatement(e)
  <2>1. PICK s \in todo[e], decision \in {"verified", "quarantined"} : Judges(e, s, decision)
    BY <1>4, Judged
  <2>2. /\ pc[e] = "judge" /\ pc'[e] = "verify" /\ todo'[e] = todo[e] \ {s}
    BY <2>1 DEF Judges
  <2>3. Ids' = Ids /\ \A t \in Ids \ {s} : statements'[t] = statements[t]
    BY <2>1, VerdictAdded
  <2>. QED
    BY <2>2, <2>3 DEF TodoInv, Drafts, WithStatus
<1>5. ASSUME NEW f \in todo[e], AddFinding(e, f)
      PROVE  TodoInv(e)'
  BY <1>5 DEF AddFinding, Drop, MineType, TodoInv
<1>6. ASSUME NEW pair \in todo[e], CheckPair(e, pair)
      PROVE  TodoInv(e)'
  <2>1. /\ pc[e] = "detect" /\ todo'[e] \subseteq todo[e]
        /\ pc'[e] = "detect" \/ (pc'[e] = "confirm" /\ at'[e] = pair)
    BY <1>6 DEF CheckPair, Drop, MineType
  <2>. QED
    BY <2>1 DEF TodoInv
<1>7. CASE JudgePair(e)
  BY <1>7 DEF JudgePair, MineType, TodoInv
<1>8. CASE \/ Start(e) \/ BeginExtract(e) \/ BeginConclude(e) \/ NothingToConclude(e)
           \/ ExtractBlank(e)
           \/ Interrupt(e) \/ FinishStage(e) \/ CheckpointReport(e)
  BY <1>1, <1>8 DEF Start, BeginExtract, BeginConclude, NothingToConclude,
       ExtractBlank, Interrupt, Stop,
     Begin, FinishStage, CheckpointReport, Complete, MineType
<1>9. CASE \/ \E p \in Passages : ExtractPassage(e, p)
           \/ GenerateReport(e) \/ WriteMarkdown(e)
  BY <1>1, <1>9 DEF ExtractPassage, GenerateReport, WriteMarkdown, MineType
<1>. QED
  BY <1>2, <1>3, <1>4, <1>5, <1>6, <1>7, <1>8, <1>9 DEF Progress

(***************************************************************************)
(* Each step is one of the ledger, or leaves it alone.                     *)
(***************************************************************************)
Grounds == {findings[i].statements : i \in DOMAIN findings}
Published == {Shown(conclusions[i]) : i \in DOMAIN conclusions}
InReport == {Shown(conclusions[i]) : i \in report}

LEMMA Stutters ==
  ASSUME UNCHANGED <<rows, report, cps>>
  PROVE  UNCHANGED Ledger!ledgerVars
<1>1. \A status : WithStatus(status)' = WithStatus(status)
  BY DEF rows, WithStatus, Ids
<1>2. Drafts' = Drafts /\ Verified' = Verified /\ Refused' = Refused
  BY <1>1 DEF Drafts, Verified, Refused
<1>3. Grounds' = Grounds /\ Confirmed' = Confirmed
  BY DEF rows, Grounds, Confirmed
<1>4. Published' = Published /\ InReport' = InReport
  BY DEF rows, Published, InReport, Shown
<1>. QED
  BY <1>2, <1>3, <1>4
     DEF rows, Ledger!ledgerVars, Ledger!judged, Drafts, Refused, Grounds, Published, InReport

LEMMA OpenAt ==
  ASSUME NEW stage \in StageSet, cps = Before(stage)
  PROVE  Ledger!Open(stage)
  BY StageNames DEF Before, Ledger!Open, Ledger!Earlier

\* The statuses, when only rows other than those of the statements change.
LEMMA SameStatuses ==
  ASSUME UNCHANGED statements
  PROVE  Drafts' = Drafts /\ Verified' = Verified /\ Refused' = Refused
  BY DEF Drafts, Verified, Refused, WithStatus, Ids

LEMMA ExtractStep ==
  ASSUME RowsType, NEW e \in Executors, OrderInv(e), NEW p \in Passages, ExtractPassage(e, p)
  PROVE  Ledger!Extract
<1>1. /\ pc[e] = "extract" /\ UNCHANGED <<cps, report, findings, contradictions, conclusions>>
  BY DEF ExtractPassage, outcome
<1>2. Ledger!Open("extract")
  BY <1>1, OpenAt, StageNames DEF OrderInv, Before
<1>3. /\ Ids \subseteq Ids' /\ \A s \in Ids : statements'[s] = statements[s]
      /\ \A s \in Ids' \ Ids : statements'[s].status = "draft"
  BY StatementsAdded
<1>4. Drafts \subseteq Drafts' /\ Verified' = Verified /\ Refused' = Refused
  BY <1>3 DEF Drafts, Verified, Refused, WithStatus
<1>5. Grounds' = Grounds /\ Confirmed' = Confirmed /\ Published' = Published /\ InReport' = InReport
  BY <1>1 DEF Grounds, Confirmed, Published, InReport, Shown
<1>. QED
  BY <1>1, <1>2, <1>4, <1>5
     DEF Ledger!Extract, Ledger!judged, Drafts, Refused, Grounds, Published, InReport

LEMMA JudgeStep ==
  ASSUME RowsType, MineType, NEW e \in Executors, HeldInv(e), OrderInv(e), StatusInv(e),
         TodoInv(e), JudgeStatement(e)
  PROVE  Ledger!Judge
<1>1. PICK s \in todo[e], decision \in {"verified", "quarantined"} : Judges(e, s, decision)
  BY Judged
<1>2. /\ pc[e] = "judge" /\ at[e][1] = s /\ s \in Ids
      /\ UNCHANGED <<cps, report, findings, contradictions, conclusions>>
  BY <1>1 DEF Judges, JudgeStatement, outcome
<1>3. Ledger!Open("verify")
  BY <1>2, OpenAt, StageNames DEF OrderInv, Before
<1>4. s \in Drafts /\ at[e][2] = statements[s].status
  BY <1>2 DEF TodoInv, StatusInv
<1>5. /\ Ids' = Ids /\ \A t \in Ids \ {s} : statements'[t] = statements[t]
      /\ statements'[s].status = decision
  BY <1>1, <1>4, VerdictAdded
<1>6. statements[s].status = "draft"
  BY <1>4 DEF Drafts, WithStatus
<1>7. Drafts' = Drafts \ {s}
  BY <1>5 DEF Drafts, WithStatus
<1>8. \/ Verified' = Verified \cup {s} /\ Refused' = Refused
      \/ Refused' = Refused \cup {s} /\ Verified' = Verified
  <2>1. CASE decision = "verified"
    BY <1>2, <1>5, <1>6, <2>1 DEF Verified, Refused, WithStatus
  <2>2. CASE decision = "quarantined"
    BY <1>2, <1>5, <1>6, <2>2 DEF Verified, Refused, WithStatus
  <2>. QED
    BY <2>1, <2>2
<1>9. Grounds' = Grounds /\ Confirmed' = Confirmed /\ Published' = Published /\ InReport' = InReport
  BY <1>2 DEF Grounds, Confirmed, Published, InReport, Shown
<1>. QED
  BY <1>2, <1>3, <1>4, <1>7, <1>8, <1>9
     DEF Ledger!Judge, Drafts, Refused, Grounds, Published, InReport

LEMMA FindStep ==
  ASSUME RowsType, MineType, NEW e \in Executors, HeldInv(e), OrderInv(e), VerifiedInv(e),
         TodoInv(e), NEW f \in todo[e], AddFinding(e, f)
  PROVE  Ledger!Find
<1>1. /\ pc[e] = "find" /\ findings' = Append(findings, f)
      /\ UNCHANGED <<statements, contradictions, conclusions, cps, report>>
  BY DEF AddFinding, outcome
<1>2. Ledger!Open("find")
  BY <1>1, OpenAt, StageNames DEF OrderInv, Before
<1>3. f.statements \in (SUBSET Verified) \ {{}}
  BY <1>1 DEF VerifiedInv, TodoInv
<1>4. Grounds' = Grounds \cup {f.statements}
  <2>1. f \in FindingRows /\ Ids \subseteq Nat
    BY <1>1, ItemsAt, StatementType DEF HeldInv
  <2>2. f \in [domain : {Domain[q] : q \in Passages}, tier : {"t1", "t2", "t3"},
                statements : SUBSET Nat]
    BY <2>1 DEF FindingRows
  <2>3. /\ DOMAIN findings' = DOMAIN findings \cup {Len(findings) + 1}
        /\ \A i \in DOMAIN findings : findings'[i] = findings[i]
        /\ findings'[Len(findings) + 1] = f
    BY <1>1, <2>2, Appended DEF RowsType
  <2>. QED
    BY <2>3 DEF Grounds
<1>5. Drafts' = Drafts /\ Verified' = Verified /\ Refused' = Refused
  BY <1>1, SameStatuses
<1>6. Confirmed' = Confirmed /\ Published' = Published /\ InReport' = InReport
  BY <1>1 DEF Confirmed, Published, InReport, Shown
<1>. QED
  BY <1>1, <1>2, <1>3, <1>4, <1>5, <1>6
     DEF Ledger!Find, Ledger!judged, Drafts, Refused, Grounds, Published, InReport

LEMMA DisputeStep ==
  ASSUME RowsType, MineType, NEW e \in Executors, HeldInv(e), OrderInv(e), VerifiedInv(e),
         PairsInv(e), TodoInv(e), JudgePair(e)
  PROVE  Ledger!Dispute \/ UNCHANGED Ledger!ledgerVars
<1>1. /\ pc[e] = "confirm"
      /\ UNCHANGED <<statements, verdicts, findings, conclusions, cps, report>>
  BY DEF JudgePair, outcome
<1>2. /\ contradictions' \in {contradictions, Append(contradictions, at[e])}
      /\ contradictions \in Seq(Nat \X Nat) /\ at[e] \in Nat \X Nat
  BY PairAdded
<1>3. CASE contradictions' = contradictions
  BY <1>1, <1>3, Stutters DEF rows
<1>4. CASE contradictions' = Append(contradictions, at[e])
  <2>1. Ledger!Open("detect")
    BY <1>1, OpenAt, StageNames DEF OrderInv, Before
  <2>2. at[e] \in Verified \X Verified /\ at[e][1] # at[e][2] /\ at[e] \notin Confirmed
    BY <1>1 DEF VerifiedInv, TodoInv, PairsInv
  <2>3. Confirmed' = Confirmed \cup {at[e]}
    <3>1. /\ DOMAIN contradictions' = DOMAIN contradictions \cup {Len(contradictions) + 1}
          /\ \A i \in DOMAIN contradictions : contradictions'[i] = contradictions[i]
          /\ contradictions'[Len(contradictions) + 1] = at[e]
      BY <1>2, <1>4, Appended
    <3>. QED
      BY <3>1 DEF Confirmed
  <2>4. Drafts' = Drafts /\ Verified' = Verified /\ Refused' = Refused
    BY <1>1, SameStatuses
  <2>5. Grounds' = Grounds /\ Published' = Published /\ InReport' = InReport
    BY <1>1 DEF Grounds, Published, InReport, Shown
  <2>6. PICK s \in Verified, t \in Verified : at[e] = <<s, t>>
    BY <2>2
  <2>7. s # t /\ <<s, t>> \notin Confirmed /\ Confirmed' = Confirmed \cup {<<s, t>>}
    BY <2>2, <2>3, <2>6
  <2>8. Ledger!Dispute
    BY <1>1, <2>1, <2>4, <2>5, <2>7
       DEF Ledger!Dispute, Ledger!judged, Drafts, Refused, Grounds, Published, InReport
  <2>. QED
    BY <2>8
<1>. QED
  BY <1>2, <1>3, <1>4

\* What is published cites what was read, and warns of the disputes it touches.
LEMMA PublishStep ==
  ASSUME RowsType, MineType, NEW e \in Executors, OrderInv(e), VerifiedInv(e),
         DisclosedInv(e), report \subseteq DOMAIN conclusions, GenerateReport(e)
  PROVE  Ledger!Publish
<1>1. /\ pc[e] = "conclude"
      /\ UNCHANGED <<statements, findings, contradictions, cps, report>>
  BY DEF GenerateReport, outcome
<1>2. Ledger!Open("conclude")
  BY <1>1, OpenAt, StageNames DEF OrderInv, Before
<1>3. /\ DOMAIN conclusions \subseteq DOMAIN conclusions'
      /\ \A i \in DOMAIN conclusions : conclusions'[i] = conclusions[i]
      /\ \A i \in DOMAIN conclusions' :
           (i \in DOMAIN conclusions /\ conclusions'[i] = conclusions[i])
             \/ Reported(e, conclusions'[i])
  BY ReportAdded
<1>4. Published \subseteq Published' /\ InReport' = InReport
  BY <1>1, <1>3 DEF Published, InReport, Shown
<1>5. todo[e] \subseteq Verified /\ at[e][1] = Confirmed
  BY <1>1 DEF VerifiedInv, DisclosedInv
<1>6. ASSUME NEW c \in Published' \ Published
      PROVE  c.cites \in (SUBSET Verified) \ {{}} /\ c.warnings = Ledger!Touching(c.cites)
  <2>1. PICK i \in DOMAIN conclusions' : c = Shown(conclusions'[i])
    BY <1>6 DEF Published, Shown
  <2>2. Reported(e, conclusions'[i])
    BY <1>3, <1>6, <2>1 DEF Published
  <2>3. c.cites = conclusions'[i].cites /\ c.warnings = conclusions'[i].warnings
    BY <2>1 DEF Shown
  <2>4. c.cites \in (SUBSET todo[e]) \ {{}} /\ c.warnings = Warnings(c.cites, at[e][1])
    BY <2>2, <2>3 DEF Reported
  <2>. QED
    BY <1>5, <2>4 DEF Warnings, Ledger!Touching
<1>7. Drafts' = Drafts /\ Verified' = Verified /\ Refused' = Refused
  BY <1>1, SameStatuses
<1>8. Grounds' = Grounds /\ Confirmed' = Confirmed
  BY <1>1 DEF Grounds, Confirmed
<1>. QED
  BY <1>1, <1>2, <1>4, <1>6, <1>7, <1>8
     DEF Ledger!Publish, Ledger!judged, Drafts, Refused, Grounds, Published, InReport

LEMMA FinishStep ==
  ASSUME MineType, NEW e \in Executors, HeldInv(e), OrderInv(e), report \subseteq DOMAIN conclusions,
         FinishStage(e) \/ CheckpointReport(e)
  PROVE  \E stage \in Ledger!Stages : Ledger!Finish(stage)
<1>1. PICK stage \in StageSet :
        /\ cps = Before(stage) /\ cps' = cps \cup {stage}
        /\ report' \subseteq DOMAIN conclusions
        /\ stage # "conclude" => report' = report
        /\ UNCHANGED rows
  <2>1. CASE FinishStage(e)
    <3>1. /\ pc[e] \in {"extract", "verify", "find", "detect"} /\ cps' = cps \cup {pc[e]}
          /\ report' = report /\ UNCHANGED rows
      BY <2>1 DEF FinishStage, Complete
    <3>. QED
      BY <3>1, StageNames DEF OrderInv
  <2>2. CASE CheckpointReport(e)
    <3>1. /\ pc[e] = "checkpoint" /\ cps' = cps \cup {"conclude"}
          /\ report' = made[e] /\ UNCHANGED rows
      BY <2>2 DEF CheckpointReport, Complete
    <3>2. cps = Before("conclude")
      BY <3>1 DEF OrderInv, Before
    <3>. QED
      BY <3>1, <3>2, StageNames DEF HeldInv
  <2>. QED
    BY <2>1, <2>2
<1>2. Ledger!Open(stage) /\ stage \in Ledger!Stages
  BY <1>1, OpenAt, StageNames DEF Ledger!Stages, Ledger!Earlier
<1>3. Drafts' = Drafts /\ Verified' = Verified /\ Refused' = Refused
  BY <1>1, SameStatuses DEF rows
<1>4. Grounds' = Grounds /\ Confirmed' = Confirmed /\ Published' = Published
  BY <1>1 DEF rows, Grounds, Confirmed, Published, Shown
<1>5. InReport' \subseteq Published /\ (stage # "conclude" => InReport' = InReport)
  BY <1>1 DEF rows, InReport, Published, Shown
<1>6. Ledger!Finish(stage)
  BY <1>1, <1>2, <1>3, <1>4, <1>5
     DEF Ledger!Finish, Ledger!judged, Drafts, Refused, Grounds, Published, InReport
<1>. QED
  BY <1>2, <1>6

LEMMA QuietStep ==
  ASSUME NEW e \in Executors,
         \/ Start(e) \/ BeginExtract(e) \/ BeginVerify(e) \/ BeginFind(e) \/ BeginDetect(e)
         \/ BeginConclude(e) \/ NothingToConclude(e)
         \/ ExtractBlank(e) \/ WriteMarkdown(e) \/ Interrupt(e)
         \/ \E s \in Ids : MergeStatement(e, s)
         \/ \E pair \in todo[e] : CheckPair(e, pair)
  PROVE  UNCHANGED Ledger!ledgerVars
<1>1. UNCHANGED <<rows, report, cps>>
  BY DEF Start, BeginExtract, BeginVerify, BeginFind, BeginDetect, BeginConclude,
     NothingToConclude,
     ExtractBlank, WriteMarkdown, Interrupt, MergeStatement, CheckPair, db, outcome
<1>. QED
  BY <1>1, Stutters

LEMMA LedgerStep ==
  ASSUME NEW e, Executors = {e}
  PROVE  RaceInv /\ SoloInv /\ TodoInv(e) /\ [Next]_vars => [Ledger!Next]_(Ledger!ledgerVars)
<1>. SUFFICES ASSUME RaceInv, SoloInv, TodoInv(e), [Next]_vars
              PROVE  Ledger!Next \/ UNCHANGED Ledger!ledgerVars
  OBVIOUS
<1>1. /\ RowsType /\ MineType /\ HeldInv(e) /\ report \subseteq DOMAIN conclusions
      /\ OrderInv(e) /\ VerifiedInv(e) /\ StatusInv(e) /\ PairsInv(e) /\ DisclosedInv(e)
  BY DEF RaceInv, SoloInv, OutcomeType
<1>2. CASE UNCHANGED vars
  BY <1>2, Stutters DEF vars, db, outcome
<1>3. ASSUME NEW p \in Passages, ExtractPassage(e, p)
      PROVE  Ledger!Next
  BY <1>1, <1>3, ExtractStep DEF Ledger!Next
<1>4. CASE JudgeStatement(e)
  BY <1>1, <1>4, JudgeStep DEF Ledger!Next
<1>5. ASSUME NEW f \in todo[e], AddFinding(e, f)
      PROVE  Ledger!Next
  BY <1>1, <1>5, FindStep DEF Ledger!Next
<1>6. CASE JudgePair(e)
  BY <1>1, <1>6, DisputeStep DEF Ledger!Next
<1>7. CASE GenerateReport(e)
  BY <1>1, <1>7, PublishStep DEF Ledger!Next
<1>8. CASE FinishStage(e) \/ CheckpointReport(e)
  BY <1>1, <1>8, FinishStep DEF Ledger!Next
<1>. QED
  BY <1>2, <1>3, <1>4, <1>5, <1>6, <1>7, <1>8, QuietStep DEF Next, Progress

LEMMA LedgerInit == Init => Ledger!Init
<1>. SUFFICES ASSUME Init
              PROVE  Ledger!Init
  OBVIOUS
<1>1. Ids = {} /\ DOMAIN findings = {} /\ DOMAIN conclusions = {} /\ Confirmed = {}
  BY DEF Init, Ids, Confirmed
<1>2. \A status : WithStatus(status) = {}
  BY <1>1 DEF WithStatus
<1>. QED
  BY <1>1, <1>2 DEF Init, Ledger!Init, Verified

LEMMA TodoInvariance ==
  ASSUME NEW e, Executors = {e}
  PROVE  Spec => []TodoInv(e)
<1>1. Init => TodoInv(e)
  BY DEF Init, TodoInv
<1>2. RaceInv /\ TodoInv(e) /\ [Next]_vars => TodoInv(e)'
  <2>. SUFFICES ASSUME RaceInv, TodoInv(e), [Next]_vars
                PROVE  TodoInv(e)'
    OBVIOUS
  <2>1. CASE UNCHANGED vars
    BY <2>1 DEF vars, db, rows, mine, TodoInv, Drafts, WithStatus, Ids
  <2>2. CASE Progress(e) \/ Interrupt(e)
    BY <2>2, TodoStep DEF RaceInv
  <2>. QED
    BY <2>1, <2>2 DEF Next
<1>. QED
  BY <1>1, <1>2, RaceInvariance, PTL DEF Spec

\* Of one execution at a time, interrupted and resumed at will, the stages are a
\* ledger: each stage writes in its turn, which run_flow never reopens, verify
\* judges a draft once (verifier.py), detect disputes a pair once
\* (contradiction_detector.py), and generate publishes what cites accepted
\* statements, with their disputes (report_generator.py).
THEOREM LedgerImplemented ==
  ASSUME NEW e, Executors = {e}
  PROVE  Spec => ImplementsLedger
<1>1. RaceInv /\ SoloInv /\ TodoInv(e) /\ [Next]_vars => [Ledger!Next]_(Ledger!ledgerVars)
  BY LedgerStep
<1>2. Spec => []RaceInv /\ []SoloInv /\ []TodoInv(e)
  BY RaceInvariance, SoloInvariance, TodoInvariance
<1>. QED
  BY <1>1, <1>2, LedgerInit, PTL DEF Spec, ImplementsLedger, Ledger!Spec

LEMMA VerdictStep ==
  ASSUME RowsType, MineType, NEW e \in Executors, HeldInv(e), TodoInv(e),
         Progress(e) \/ Interrupt(e),
         NEW s \in Ids, statements[s].status # "draft"
  PROVE  statements'[s].status = statements[s].status
<1>1. CASE UNCHANGED statements
  BY <1>1
<1>2. ASSUME NEW p \in Passages, ExtractPassage(e, p)
      PROVE  statements'[s].status = statements[s].status
  BY <1>2, StatementsAdded
<1>3. CASE JudgeStatement(e)
  <2>1. PICK t \in todo[e], decision \in {"verified", "quarantined"} : Judges(e, t, decision)
    BY <1>3, Judged
  <2>2. t \in Drafts
    BY <2>1 DEF Judges, TodoInv
  <2>3. s # t
    BY <2>2 DEF Drafts, WithStatus
  <2>. QED
    BY <2>1, <2>3, VerdictAdded
<1>4. CASE Interrupt(e)
  BY <1>1, <1>4 DEF Interrupt, db, rows
<1>5. CASE pc[e] \notin {"extract", "judge"}
  BY <1>1, <1>5, Writers
<1>6. CASE Progress(e) /\ pc[e] \in {"extract", "judge"}
  <2>1. FinishStage(e) => UNCHANGED statements
    BY DEF FinishStage, rows
  <2>2. \/ FinishStage(e) \/ JudgeStatement(e) \/ \E p \in Passages : ExtractPassage(e, p)
        \/ ExtractBlank(e)
    BY <1>6 DEF Progress, Start, Begin, BeginExtract, BeginVerify, BeginFind, BeginDetect,
       BeginConclude, NothingToConclude, MergeStatement, AddFinding, CheckPair, JudgePair,
       GenerateReport, WriteMarkdown, CheckpointReport
  <2>3. ExtractBlank(e) => UNCHANGED statements
    BY DEF ExtractBlank, db, rows
  <2>. QED
    BY <1>1, <1>2, <1>3, <2>1, <2>2, <2>3
<1>. QED
  BY <1>4, <1>5, <1>6

\* What verifier.py:22 promises, "non-draft statements are skipped", holds of one
\* execution at a time: verify reads drafts (verify.py) and judges each of them
\* once.  Two executions may overwrite each other's verdicts.
THEOREM VerdictsAreFinalAlone ==
  ASSUME NEW e, Executors = {e}
  PROVE  Spec => VerdictIsFinal
<1>1. RaceInv /\ TodoInv(e) /\ [Next]_vars =>
        [\A s \in Ids : statements[s].status # "draft" =>
           statements'[s].status = statements[s].status]_vars
  <2>. SUFFICES ASSUME RaceInv, TodoInv(e), Next,
                       NEW s \in Ids, statements[s].status # "draft"
                PROVE  statements'[s].status = statements[s].status
    OBVIOUS
  <2>. QED
    BY VerdictStep DEF RaceInv, Next
<1>. QED
  BY <1>1, RaceInvariance, TodoInvariance, PTL DEF Spec, VerdictIsFinal
=============================================================================
