-------------------------- MODULE RunReportsProofs --------------------------
(***************************************************************************)
(* Proofs about RunReports for any number of executors, readers and        *)
(* connections, any faults and whatever expires when.                      *)
(***************************************************************************)
EXTENDS RunReports, FiniteSetTheorems, TLAPS

(***************************************************************************)
(* Type correctness.                                                       *)
(***************************************************************************)
LEMMA InitTypeOK == Init => TypeOK
<1>1. Init => kv \in [Keys -> [state : {"none", "fresh", "expired"}, report : Nat]]
  BY DEF Init, None, Entry
<1>2. Init => /\ pc \in [Executors -> {"idle", "plan", "lookup", "conclude", "load", "save",
                                        "traceSelect"} \cup InSession]
              /\ rpc \in [Readers -> {"idle", "trace", "drop", "checkpoint", "rows",
                                       "links", "answered"}]
  BY DEF Init
<1>3. MaxFaults \in Nat
  BY ReportsAssumption
<1>4. Init => planLost \in BOOLEAN /\ supported \in BOOLEAN /\ overlap \in BOOLEAN
  BY Zenon DEF Init
<1>. QED
  BY <1>1, <1>2, <1>3, <1>4 DEF Init, TypeOK

\* Where an executor is in the loop: the stages before the one it executes are
\* checkpointed, as are those it has found completed; its step is one of its
\* stage's; a report it is about to checkpoint is one it has generated.
FlowInv ==
  \A e \in Executors :
    pc[e] # "idle" =>
      /\ cur[e] \in Stages /\ \A u \in Stages : u < cur[e] => u \in saved
      /\ done[e] \subseteq saved
      /\ pc[e] \in {"plan", "planWrite"} => cur[e] = 1
      /\ pc[e] \in {"lookup", "planDrop"} => cur[e] = 2
      /\ pc[e] = "conclude" => cur[e] = 3
      /\ pc[e] \in {"load", "traceSelect", "traceWrite"} => cur[e] = 4
      /\ pc[e] = "save" /\ cur[e] = 3 => held[e] # 0

\* The loop goes to the first step of the first stage that is left, or ends.
LEMMA ProceedType ==
  ASSUME TypeOK, NEW e \in Executors, NEW s, NEW completed \in SUBSET Stages,
         Proceed(e, s, completed)
  PROVE  /\ pc' \in [Executors -> {"idle", "plan", "lookup", "conclude", "load", "save",
                                    "traceSelect"} \cup InSession]
         /\ cur' \in [Executors -> Stages \cup {0}]
         /\ done' \in [Executors -> SUBSET Stages]
         /\ seen' \in [Executors -> BOOLEAN] /\ held' \in [Executors -> Nat]
<1>1. \A t \in Stages : FirstStep[t] \in {"plan", "lookup", "conclude", "load"}
  BY DEF Stages, FirstStep
<1>2. CASE Stop(e)
  BY <1>2 DEF Stop, TypeOK
<1>3. ASSUME NEW t \in Stages,
             pc' = [pc EXCEPT ![e] = FirstStep[t]], cur' = [cur EXCEPT ![e] = t],
             done' = [done EXCEPT ![e] = completed],
             seen' = [seen EXCEPT ![e] = FALSE], held' = [held EXCEPT ![e] = 0]
      PROVE  /\ pc' \in [Executors -> {"idle", "plan", "lookup", "conclude", "load", "save",
                                         "traceSelect"} \cup InSession]
             /\ cur' \in [Executors -> Stages \cup {0}]
             /\ done' \in [Executors -> SUBSET Stages]
             /\ seen' \in [Executors -> BOOLEAN] /\ held' \in [Executors -> Nat]
  BY <1>1, <1>3 DEF TypeOK
<1>. QED
  BY <1>2, <1>3 DEF Proceed

LEMMA StopType ==
  ASSUME TypeOK, NEW e \in Executors, Stop(e)
  PROVE  /\ pc' \in [Executors -> {"idle", "plan", "lookup", "conclude", "load", "save",
                                    "traceSelect"} \cup InSession]
         /\ cur' \in [Executors -> Stages \cup {0}]
         /\ done' \in [Executors -> SUBSET Stages]
         /\ seen' \in [Executors -> BOOLEAN] /\ held' \in [Executors -> Nat]
  BY DEF Stop, TypeOK

LEMMA FlowTypeOK ==
  ASSUME TypeOK, FlowInv, NEW e \in Executors, Flow(e) \/ Fail(e)
  PROVE  TypeOK'
<1>. USE ReportsAssumption DEF artifacts, executor, reader, history, Goto, Keys, InSession
<1>1. CASE Enter(e)
  <2>1. saved \in SUBSET Stages /\ Proceed(e, 0, saved)
    BY <1>1 DEF Enter, TypeOK
  <2>. QED
    BY <1>1, <2>1, ProceedType DEF Enter, TypeOK
<1>2. ASSUME NEW k \in Keys, NEW from, NEW to \in InSession, SelectRow(e, k, from, to)
      PROVE  TypeOK'
  BY <1>2 DEF SelectRow, TypeOK
<1>3. ASSUME NEW k \in Keys, NEW from, NEW version \in Nat,
             WriteRow(e, k, from, version)
      PROVE  TypeOK'
  <2>1. kv' \in [Keys -> [state : {"none", "fresh", "expired"}, report : Nat]]
    BY <1>3 DEF WriteRow, TypeOK, Entry
  <2>. QED
    BY <1>3, <2>1, StopType DEF WriteRow, TypeOK
<1>4. CASE LookupPlan(e)
  BY <1>4, StopType DEF LookupPlan, TypeOK
<1>5. CASE DropPlan(e)
  <2>1. kv' \in [Keys -> [state : {"none", "fresh", "expired"}, report : Nat]]
    BY <1>5 DEF DropPlan, TypeOK, Entry, None
  <2>. QED
    BY <1>5, <2>1, StopType DEF DropPlan, TypeOK
<1>6. CASE Conclude(e)
  BY <1>6 DEF Conclude, TypeOK
<1>7. CASE LoadReport(e)
  BY <1>7 DEF LoadReport, TypeOK
<1>11. CASE ConcludeRaises(e)
  BY <1>11, StopType DEF ConcludeRaises, TypeOK
<1>8. CASE Save(e)
  <2>1. cur[e] \in Stages /\ done[e] \in SUBSET Stages
    BY <1>8 DEF Save, TypeOK, FlowInv
  <2>. QED
    BY <1>8, <2>1, ProceedType DEF Save, TypeOK
<1>9. CASE Fail(e)
  BY <1>9, StopType DEF Fail, TypeOK
<1>10. held[e] \in Nat /\ 0 \in Nat
  BY DEF TypeOK
<1>. QED
  BY <1>1, <1>2, <1>3, <1>4, <1>5, <1>6, <1>7, <1>8, <1>9, <1>10,
     <1>11 DEF Flow

\* The two statements of the fallback: the conclusions, then their evidence.
LEMMA GetRowsSteps ==
  ASSUME NEW r \in Readers, GetRows(r)
  PROVE  /\ \/ /\ rpc[r] = "rows" /\ rpc' = [rpc EXCEPT ![r] = "links"]
               /\ answer' = [answer EXCEPT ![r] = rows] /\ linked' = linked
            \/ /\ rpc[r] = "links" /\ rpc' = [rpc EXCEPT ![r] = "answered"]
               /\ linked' = [linked EXCEPT ![r] = cited] /\ answer' = answer
         /\ UNCHANGED <<artifacts, executor, began, history>>
<1>1. PICK i \in 1 .. 2 : GetRows(r)!(i)
  BY DEF GetRows
<1>2. CASE i = 1
  BY <1>1, <1>2 DEF Queries
<1>3. CASE i = 2
  BY <1>1, <1>3 DEF Queries
<1>. QED
  BY <1>1, <1>2, <1>3

LEMMA ReaderTypeOK ==
  ASSUME TypeOK, UNCHANGED <<artifacts, executor, began, history>>,
         answer' \in [Readers -> SUBSET Nat], linked' \in [Readers -> SUBSET Nat],
         rpc' \in [Readers -> {"idle", "trace", "drop", "checkpoint", "rows",
                               "links", "answered"}]
  PROVE  TypeOK'
<1>. USE DEF artifacts, executor, history
<1>1. planLost' \in BOOLEAN /\ supported' \in BOOLEAN /\ overlap' \in BOOLEAN
  BY Zenon DEF TypeOK
<1>2. /\ UNCHANGED <<kv, saved, report, rows, cited, made>>
      /\ UNCHANGED <<pc, cur, done, seen, held, began, faults>>
  OBVIOUS
<1>. QED
  BY <1>1, <1>2 DEF TypeOK

LEMMA ReadTypeOK ==
  ASSUME TypeOK, NEW r \in Readers, Request(r) \/ Read(r)
  PROVE  TypeOK'
<1>. USE DEF artifacts, executor, reader, history, Keys
<1>1. kv["trace"].report \in Nat
  BY DEF TypeOK
<1>2. CASE Request(r)
  BY <1>2 DEF Request, TypeOK
<1>3. CASE GetTrace(r)
  <2>1. /\ answer' \in {answer, [answer EXCEPT ![r] = {kv["trace"].report}]}
        /\ linked' \in {linked, [linked EXCEPT ![r] = {kv["trace"].report}]}
    BY <1>3 DEF GetTrace, Answer
  <2>2. answer' \in [Readers -> SUBSET Nat] /\ linked' \in [Readers -> SUBSET Nat]
    BY <1>1, <2>1 DEF TypeOK
  <2>3. rpc' \in [Readers -> {"idle", "trace", "drop", "checkpoint", "rows",
                              "links", "answered"}]
    BY <1>3 DEF GetTrace, Answer, TypeOK
  <2>4. UNCHANGED <<artifacts, executor, began, history>>
    BY <1>3 DEF GetTrace
  <2>. HIDE DEF artifacts, executor, history
  <2>. QED
    BY <2>2, <2>3, <2>4, ReaderTypeOK
<1>4. CASE DropTrace(r)
  <2>1. kv' \in [Keys -> [state : {"none", "fresh", "expired"}, report : Nat]]
    BY <1>4 DEF DropTrace, TypeOK, Entry, None
  <2>. QED
    BY <1>4, <2>1 DEF DropTrace, TypeOK
<1>5. CASE GetCheckpoint(r)
  <2>1. /\ answer' \in {answer, [answer EXCEPT ![r] = {report}]}
        /\ linked' \in {linked, [linked EXCEPT ![r] = {report}]}
        /\ rpc' \in {[rpc EXCEPT ![r] = "answered"], [rpc EXCEPT ![r] = "rows"]}
    BY <1>5 DEF GetCheckpoint, Answer
  <2>2. answer' \in [Readers -> SUBSET Nat] /\ linked' \in [Readers -> SUBSET Nat]
    BY <2>1 DEF TypeOK
  <2>3. rpc' \in [Readers -> {"idle", "trace", "drop", "checkpoint", "rows",
                              "links", "answered"}]
    BY <2>1 DEF TypeOK
  <2>4. UNCHANGED <<artifacts, executor, began, history>>
    BY <1>5 DEF GetCheckpoint
  <2>. HIDE DEF artifacts, executor, history
  <2>. QED
    BY <2>2, <2>3, <2>4, ReaderTypeOK
<1>6. CASE GetRows(r)
  <2>1. /\ answer' \in {answer, [answer EXCEPT ![r] = rows]}
        /\ linked' \in {linked, [linked EXCEPT ![r] = cited]}
        /\ rpc' \in {[rpc EXCEPT ![r] = "links"], [rpc EXCEPT ![r] = "answered"]}
        /\ UNCHANGED <<artifacts, executor, began, history>>
    BY <1>6, GetRowsSteps
  <2>2. answer' \in [Readers -> SUBSET Nat] /\ linked' \in [Readers -> SUBSET Nat]
    BY <2>1 DEF TypeOK
  <2>3. rpc' \in [Readers -> {"idle", "trace", "drop", "checkpoint", "rows",
                              "links", "answered"}]
    BY <2>1 DEF TypeOK
  <2>. HIDE DEF artifacts, executor, history
  <2>. QED
    BY <2>1, <2>2, <2>3, ReaderTypeOK
<1>7. CASE Finish(r)
  BY <1>7 DEF Finish, TypeOK
<1>. QED
  BY <1>2, <1>3, <1>4, <1>5, <1>6, <1>7 DEF Read

LEMMA ExpireTypeOK ==
  ASSUME TypeOK, NEW k \in Keys, Expire(k)
  PROVE  TypeOK'
<1>1. kv' \in [Keys -> [state : {"none", "fresh", "expired"}, report : Nat]]
  BY DEF Expire, TypeOK
<1>. QED
  BY <1>1 DEF Expire, TypeOK, executor, reader

(***************************************************************************)
(* No conclusion without its evidence.                                     *)
(***************************************************************************)

\* Conclusions and their evidence are committed together and stay; so what a
\* reader saw of the conclusions still has its evidence at the second statement.
NakedInv ==
  /\ rows \subseteq cited
  /\ \A r \in Readers : rpc[r] = "links" => answer[r] \subseteq rows
  /\ NoConclusionIsNaked

LEMMA NakedStep ==
  ASSUME TypeOK, NakedInv, [Next]_vars
  PROVE  NakedInv'
<1>. USE DEF TypeOK, NakedInv, NoConclusionIsNaked, artifacts, executor, reader, history
<1>1. ASSUME NEW e \in Executors, Conclude(e)
      PROVE  NakedInv'
  BY <1>1 DEF Conclude
<1>2. ASSUME NEW e \in Executors, Flow(e) \/ Fail(e), ~Conclude(e)
      PROVE  UNCHANGED <<rows, cited, reader>>
  BY <1>2 DEF Flow, Fail, Enter, SelectRow, WriteRow, LookupPlan, DropPlan, ConcludeRaises,
              LoadReport, Save
<1>3. ASSUME NEW r \in Readers, NEW versions, Answer(r, versions), UNCHANGED artifacts
      PROVE  NakedInv'
  BY <1>3 DEF Answer
<1>4. ASSUME NEW r \in Readers, GetTrace(r) \/ GetCheckpoint(r) \/ DropTrace(r)
      PROVE  NakedInv'
  <2>1. CASE \E to \in {"drop", "checkpoint", "rows"} :
               /\ rpc' = [rpc EXCEPT ![r] = to]
               /\ UNCHANGED <<rows, cited, answer, linked>>
    BY <2>1
  <2>. QED
    BY <1>3, <1>4, <2>1 DEF GetTrace, GetCheckpoint, DropTrace
<1>5. ASSUME NEW r \in Readers, Request(r) \/ Finish(r)
      PROVE  NakedInv'
  BY <1>5 DEF Request, Finish
<1>6. ASSUME NEW r \in Readers, GetRows(r)
      PROVE  NakedInv'
  <2>1. CASE rpc[r] = "rows" /\ rpc' = [rpc EXCEPT ![r] = "links"]
             /\ answer' = [answer EXCEPT ![r] = rows] /\ linked' = linked
             /\ UNCHANGED <<rows, cited>>
    BY <2>1
  <2>2. CASE rpc[r] = "links" /\ rpc' = [rpc EXCEPT ![r] = "answered"]
             /\ linked' = [linked EXCEPT ![r] = cited] /\ answer' = answer
             /\ UNCHANGED <<rows, cited>>
    BY <2>2
  <2>. QED
    BY <1>6, <2>1, <2>2, GetRowsSteps
<1>7. ASSUME NEW k \in Keys, Expire(k)
      PROVE  NakedInv'
  BY <1>7 DEF Expire
<1>8. CASE UNCHANGED vars
  BY <1>8 DEF vars
<1>. QED
  BY <1>1, <1>2, <1>4, <1>5, <1>6, <1>7, <1>8 DEF Next, Read

(***************************************************************************)
(* Where executors are.                                                    *)
(***************************************************************************)

\* The loop goes on to a stage all of whose predecessors are checkpointed.
LEMMA ProceedInv ==
  ASSUME TypeOK, FlowInv, NEW e \in Executors, NEW s \in Stages \cup {0},
         NEW completed \in SUBSET Stages, Proceed(e, s, completed),
         saved \subseteq saved', saved' \subseteq Stages, completed \subseteq saved',
         \A u \in Stages : u <= s => u \in saved'
  PROVE  FlowInv'
<1>1. CASE Stop(e)
  BY <1>1 DEF Stop, FlowInv, TypeOK
<1>2. ASSUME NEW t \in Stages, t > s, t \notin completed,
             \A u \in {v \in Stages : v > s /\ v \notin completed} : t <= u,
             pc' = [pc EXCEPT ![e] = FirstStep[t]], cur' = [cur EXCEPT ![e] = t],
             done' = [done EXCEPT ![e] = completed],
             seen' = [seen EXCEPT ![e] = FALSE], held' = [held EXCEPT ![e] = 0]
      PROVE  FlowInv'
  <2>1. \A u \in Stages : u < t => u \in saved'
    BY <1>2 DEF Stages
  <2>2. /\ t = 1 => FirstStep[t] = "plan"
        /\ t = 2 => FirstStep[t] = "lookup"
        /\ t = 3 => FirstStep[t] = "conclude"
        /\ t = 4 => FirstStep[t] = "load"
    BY DEF FirstStep
  <2>3. t \in {1, 2, 3, 4}
    BY DEF Stages
  <2>4. /\ cur'[e] = t /\ done'[e] = completed /\ pc'[e] = FirstStep[t]
        /\ \A f \in Executors \ {e} :
             pc'[f] = pc[f] /\ cur'[f] = cur[f] /\ done'[f] = done[f] /\ held'[f] = held[f]
    BY <1>2 DEF TypeOK
  <2>5. /\ t \in Stages /\ completed \subseteq saved'
        /\ pc'[e] \in {"plan", "planWrite"} => t = 1
        /\ pc'[e] \in {"lookup", "planDrop"} => t = 2
        /\ pc'[e] = "conclude" => t = 3
        /\ pc'[e] \in {"load", "traceSelect", "traceWrite"} => t = 4
        /\ pc'[e] # "save"
    BY <2>2, <2>3, <2>4
  <2>6. ASSUME NEW f \in Executors \ {e}, pc[f] # "idle"
        PROVE  /\ \A u \in Stages : u < cur[f] => u \in saved'
               /\ done[f] \subseteq saved'
    BY <2>6 DEF FlowInv
  <2>. QED
    BY <2>1, <2>4, <2>5, <2>6 DEF FlowInv
<1>. QED
  BY <1>1, <1>2 DEF Proceed

LEMMA FlowStep ==
  ASSUME TypeOK, FlowInv, [Next]_vars
  PROVE  FlowInv'
<1>. USE DEF TypeOK, FlowInv, artifacts, executor, reader, history, Goto
<1>1. ASSUME NEW e \in Executors, Enter(e)
      PROVE  FlowInv'
  <2>1. Proceed(e, 0, saved) /\ saved' = saved
    BY <1>1 DEF Enter
  <2>2. \A u \in Stages : u <= 0 => u \in saved'
    BY DEF Stages
  <2>3. saved \in SUBSET Stages /\ 0 \in Stages \cup {0}
    OBVIOUS
  <2>. HIDE DEF TypeOK, FlowInv
  <2>. QED
    BY <2>1, <2>2, <2>3, ProceedInv
<1>3. ASSUME NEW e \in Executors,
             \/ SelectRow(e, "plan", "plan", "planWrite")
             \/ SelectRow(e, "trace", "traceSelect", "traceWrite")
      PROVE  FlowInv'
  BY <1>3 DEF SelectRow
<1>4. ASSUME NEW e \in Executors,
             WriteRow(e, "plan", "planWrite", 0) \/ WriteRow(e, "trace", "traceWrite", held[e])
      PROVE  FlowInv'
  <2>1. CASE Stop(e) /\ saved' = saved
    BY <2>1 DEF Stop
  <2>2. CASE /\ \/ pc[e] = "planWrite" \/ pc[e] = "traceWrite"
             /\ pc' = [pc EXCEPT ![e] = "save"]
             /\ UNCHANGED <<saved, cur, done, held>>
    BY <2>2
  <2>. QED
    BY <1>4, <2>1, <2>2 DEF WriteRow
<1>5. ASSUME NEW e \in Executors, LookupPlan(e) \/ DropPlan(e) \/ ConcludeRaises(e)
      PROVE  FlowInv'
  BY <1>5 DEF LookupPlan, DropPlan, ConcludeRaises, Stop
<1>6. ASSUME NEW e \in Executors, Conclude(e) \/ LoadReport(e)
      PROVE  FlowInv'
  BY <1>6 DEF Conclude, LoadReport
<1>7. ASSUME NEW e \in Executors, Save(e)
      PROVE  FlowInv'
  <2>1. cur[e] \in Stages /\ saved' = saved \cup {cur[e]} /\ done[e] \subseteq saved
    BY <1>7 DEF Save
  <2>2. \A u \in Stages : u <= cur[e] => u \in saved'
    BY <1>7, <2>1 DEF Save, Stages
  <2>. QED
    BY <1>7, <2>1, <2>2, ProceedInv DEF Save
<1>8. ASSUME NEW e \in Executors, Fail(e)
      PROVE  FlowInv'
  BY <1>8 DEF Fail, Stop
<1>9. ASSUME NEW r \in Readers, Request(r) \/ GetTrace(r) \/ DropTrace(r)
                                \/ GetCheckpoint(r) \/ GetRows(r) \/ Finish(r)
      PROVE  UNCHANGED <<saved, executor>>
  BY <1>9, GetRowsSteps DEF Request, GetTrace, DropTrace, GetCheckpoint, Finish
<1>10. ASSUME NEW k \in Keys, Expire(k)
      PROVE  UNCHANGED <<saved, executor>>
  BY <1>10 DEF Expire
<1>11. CASE UNCHANGED vars
  BY <1>11 DEF vars
<1>. QED
  BY <1>1, <1>3, <1>4, <1>5, <1>6, <1>7, <1>8, <1>9, <1>10, <1>11 DEF Next, Flow, Read

(***************************************************************************)
(* The report that is served.                                              *)
(***************************************************************************)

\* There is a report exactly when conclude is checkpointed, and an artifact only
\* then; a reader that asked when there was one is answered with one.
ReportInv ==
  /\ 3 \in saved <=> report # 0
  /\ kv["trace"].state # "none" => 3 \in saved
  /\ \A r \in Readers : began[r] # 0 =>
       /\ 3 \in saved /\ rpc[r] \notin {"idle", "rows", "links"}
       /\ rpc[r] = "answered" => \E v \in Nat : answer[r] = {v}

LEMMA ReportStep ==
  ASSUME TypeOK, FlowInv, ReportInv, [Next]_vars
  PROVE  ReportInv'
<1>. USE DEF TypeOK, ReportInv, artifacts, executor, reader, history, Goto, None, Entry
<1>1. ASSUME NEW e \in Executors, WriteRow(e, "trace", "traceWrite", held[e])
      PROVE  ReportInv'
  <2>1. 3 \in saved
    BY <1>1 DEF WriteRow, FlowInv, Stages
  <2>. QED
    BY <1>1, <2>1 DEF WriteRow
<1>2. ASSUME NEW e \in Executors, WriteRow(e, "plan", "planWrite", 0) \/ DropPlan(e)
      PROVE  ReportInv'
  <2>1. kv'["trace"] = kv["trace"]
    BY <1>2 DEF WriteRow, DropPlan, Keys
  <2>. QED
    BY <1>2, <2>1 DEF WriteRow, DropPlan
<1>3. ASSUME NEW e \in Executors, Save(e)
      PROVE  ReportInv'
  <2>1. /\ saved' = saved \cup {cur[e]} /\ (cur[e] = 3 => held[e] # 0)
        /\ report' = IF cur[e] = 3 THEN held[e] ELSE report
        /\ UNCHANGED <<kv, reader>>
    BY <1>3 DEF Save, FlowInv
  <2>. QED
    BY <2>1
<1>4. ASSUME NEW e \in Executors,
             \/ Enter(e) \/ SelectRow(e, "plan", "plan", "planWrite") \/ LookupPlan(e)
             \/ Conclude(e) \/ ConcludeRaises(e) \/ LoadReport(e) \/ Fail(e)
             \/ SelectRow(e, "trace", "traceSelect", "traceWrite")
      PROVE  UNCHANGED <<saved, report, kv, reader>>
  BY <1>4 DEF Enter, SelectRow, LookupPlan, Conclude, ConcludeRaises, LoadReport, Fail
<1>5. ASSUME NEW r \in Readers, Request(r) \/ Finish(r)
      PROVE  ReportInv'
  BY <1>5 DEF Request, Finish
<1>6. ASSUME NEW r \in Readers, NEW v \in Nat, Answer(r, {v}),
             UNCHANGED <<kv, saved, report, began>>, rpc[r] # "idle"
      PROVE  ReportInv'
  <2>1. /\ rpc'[r] = "answered" /\ answer'[r] = {v}
        /\ \A q \in Readers \ {r} : rpc'[q] = rpc[q] /\ answer'[q] = answer[q]
    BY <1>6 DEF Answer
  <2>2. ASSUME NEW q \in Readers, began'[q] # 0
        PROVE  /\ 3 \in saved' /\ rpc'[q] \notin {"idle", "rows", "links"}
               /\ rpc'[q] = "answered" => \E u \in Nat : answer'[q] = {u}
    <3>1. began[q] # 0 /\ saved' = saved
      BY <1>6, <2>2
    <3>2. 3 \in saved /\ rpc[q] \notin {"idle", "rows", "links"}
          /\ (rpc[q] = "answered" => \E u \in Nat : answer[q] = {u})
      BY <3>1
    <3>. QED
      BY <2>1, <3>1, <3>2
  <2>3. (3 \in saved <=> report # 0)' /\ (kv["trace"].state # "none" => 3 \in saved)'
    BY <1>6
  <2>. QED
    BY <2>2, <2>3
<1>7. ASSUME NEW r \in Readers, GetTrace(r) \/ GetCheckpoint(r) \/ DropTrace(r)
      PROVE  ReportInv'
  <2>1. ASSUME rpc' = [rpc EXCEPT ![r] = "drop"] \/ rpc' = [rpc EXCEPT ![r] = "checkpoint"],
               rpc[r] # "idle",
               kv' \in {kv, [kv EXCEPT !["trace"] = None]},
               UNCHANGED <<saved, report, began, answer>>
        PROVE  ReportInv'
    BY <2>1 DEF Keys
  <2>2. ASSUME report = 0, rpc' = [rpc EXCEPT ![r] = "rows"],
               UNCHANGED <<kv, saved, report, began, answer>>
        PROVE  ReportInv'
    BY <2>2
  <2>3. CASE GetTrace(r)
    <3>1. kv["trace"].report \in Nat /\ rpc[r] # "idle"
          /\ UNCHANGED <<kv, saved, report, began>>
      BY <2>3 DEF GetTrace, Keys
    <3>2. \/ Answer(r, {kv["trace"].report})
          \/ rpc' = [rpc EXCEPT ![r] = "checkpoint"] /\ UNCHANGED answer
          \/ rpc' = [rpc EXCEPT ![r] = "drop"] /\ UNCHANGED answer
      BY <2>3 DEF GetTrace
    <3>3. CASE Answer(r, {kv["trace"].report})
      BY ONLY <1>6, <3>1, <3>3
    <3>4. CASE rpc' = [rpc EXCEPT ![r] = "checkpoint"] /\ UNCHANGED answer
      BY ONLY <2>1, <3>1, <3>4
    <3>5. CASE rpc' = [rpc EXCEPT ![r] = "drop"] /\ UNCHANGED answer
      BY ONLY <2>1, <3>1, <3>5
    <3>. QED
      BY ONLY <3>2, <3>3, <3>4, <3>5
  <2>4. CASE GetCheckpoint(r)
    <3>1. rpc[r] # "idle" /\ UNCHANGED <<kv, saved, report, began>>
      BY <2>4 DEF GetCheckpoint
    <3>2. \/ Answer(r, {report})
          \/ report = 0 /\ rpc' = [rpc EXCEPT ![r] = "rows"] /\ UNCHANGED answer
      BY <2>4 DEF GetCheckpoint
    <3>3. CASE Answer(r, {report})
      BY <1>6, <3>1, <3>3
    <3>4. CASE report = 0 /\ rpc' = [rpc EXCEPT ![r] = "rows"] /\ UNCHANGED answer
      BY ONLY <2>2, <3>1, <3>4
    <3>. QED
      BY ONLY <3>2, <3>3, <3>4
  <2>5. CASE DropTrace(r)
    <3>1. /\ rpc' = [rpc EXCEPT ![r] = "checkpoint"] /\ rpc[r] # "idle"
          /\ kv' = [kv EXCEPT !["trace"] = None]
          /\ UNCHANGED <<saved, report, began, answer>>
      BY <2>5 DEF DropTrace
    <3>. QED
      BY ONLY <2>1, <3>1
  <2>. QED
    BY ONLY <1>7, <2>3, <2>4, <2>5
<1>8. ASSUME NEW r \in Readers, GetRows(r)
      PROVE  ReportInv'
  <2>1. rpc[r] \in {"rows", "links"} /\ began[r] = 0
    BY <1>8, GetRowsSteps
  <2>2. /\ UNCHANGED <<kv, saved, report, began>>
        /\ \A q \in Readers \ {r} : rpc'[q] = rpc[q] /\ answer'[q] = answer[q]
    BY <1>8, GetRowsSteps
  <2>. QED
    BY <2>1, <2>2
<1>9. ASSUME NEW k \in Keys, Expire(k)
      PROVE  ReportInv'
  <2>1. kv'["trace"].state # "none" => kv["trace"].state # "none"
    BY <1>9 DEF Expire, Keys
  <2>. QED
    BY <1>9, <2>1 DEF Expire
<1>10. CASE UNCHANGED vars
  BY <1>10 DEF vars
<1>. QED
  BY <1>1, <1>2, <1>3, <1>4, <1>5, <1>7, <1>8, <1>9, <1>10 DEF Next, Flow, Read

\* As long as executions follow each other, none executes a stage that is
\* checkpointed, so conclude's report never changes: the artifact, what the
\* executor has loaded and what readers found when they asked are that report.
SoleInv ==
  ~ overlap =>
    /\ \A e, f \in Executors : pc[e] # "idle" /\ pc[f] # "idle" => e = f
    /\ \A e \in Executors : pc[e] # "idle" =>
         /\ cur[e] \notin saved
         /\ \A s \in saved : s > cur[e] => s \in done[e]
         /\ pc[e] \in {"traceSelect", "traceWrite"} => held[e] = report
    /\ kv["trace"].state # "none" => kv["trace"].report = report
    /\ \A r \in Readers : began[r] # 0 =>
         /\ began[r] = report
         /\ rpc[r] = "answered" => answer[r] = {report}

\* The part of it about the executor that goes on with the loop.
LEMMA ProceedSole ==
  ASSUME TypeOK, NEW e \in Executors, NEW s \in Stages \cup {0},
         NEW completed \in SUBSET Stages, Proceed(e, s, completed),
         saved' \subseteq Stages, \A u \in saved' : u > s => u \in completed
  PROVE  /\ pc'[e] # "idle" =>
              /\ cur'[e] \notin saved'
              /\ \A u \in saved' : u > cur'[e] => u \in done'[e]
              /\ pc'[e] \notin {"traceSelect", "traceWrite"}
         /\ \A f \in Executors \ {e} :
              /\ pc'[f] = pc[f] /\ cur'[f] = cur[f] /\ done'[f] = done[f]
              /\ held'[f] = held[f]
<1>1. CASE Stop(e)
  BY <1>1 DEF Stop, TypeOK
<1>2. ASSUME NEW t \in Stages, t > s, t \notin completed,
             pc' = [pc EXCEPT ![e] = FirstStep[t]], cur' = [cur EXCEPT ![e] = t],
             done' = [done EXCEPT ![e] = completed], held' = [held EXCEPT ![e] = 0]
      PROVE  /\ cur'[e] \notin saved'
             /\ \A u \in saved' : u > cur'[e] => u \in done'[e]
             /\ pc'[e] \notin {"traceSelect", "traceWrite"}
             /\ \A f \in Executors \ {e} :
                  /\ pc'[f] = pc[f] /\ cur'[f] = cur[f] /\ done'[f] = done[f]
                  /\ held'[f] = held[f]
  <2>1. FirstStep[t] \notin {"traceSelect", "traceWrite"}
    BY DEF FirstStep, Stages
  <2>2. cur'[e] = t /\ done'[e] = completed /\ pc'[e] = FirstStep[t]
    BY <1>2 DEF TypeOK
  <2>. QED
    BY <1>2, <2>1, <2>2 DEF TypeOK, Stages
<1>. QED
  BY <1>1, <1>2 DEF Proceed

\* A step of an executor that changes neither checkpoints nor artifacts.
LEMMA ExecutorSole ==
  ASSUME TypeOK, SoleInv, NEW e \in Executors, pc[e] # "idle",
         UNCHANGED <<saved, report, reader, overlap>>,
         \A f \in Executors \ {e} :
           pc'[f] = pc[f] /\ cur'[f] = cur[f] /\ done'[f] = done[f] /\ held'[f] = held[f],
         pc'[e] # "idle" => cur'[e] = cur[e] /\ done'[e] = done[e],
         ~ overlap => kv'["trace"] = kv["trace"] \/ kv'["trace"].report = report,
         ~ overlap => (pc'[e] \in {"traceSelect", "traceWrite"} => held'[e] = report)
  PROVE  SoleInv'
  BY DEF SoleInv, reader

LEMMA SoleStep ==
  ASSUME TypeOK, FlowInv, ReportInv, SoleInv, [Next]_vars
  PROVE  SoleInv'
<1>. USE DEF TypeOK, artifacts, executor, reader, history, Goto
<1>1. ASSUME NEW e \in Executors, Enter(e)
      PROVE  SoleInv'
  <2>1. Proceed(e, 0, saved) /\ saved' = saved /\ UNCHANGED <<kv, report, reader>>
    BY <1>1 DEF Enter
  <2>2. ~overlap' => ~overlap /\ \A o \in Executors : pc[o] = "idle"
    BY <1>1 DEF Enter
  <2>3. saved \in SUBSET Stages /\ 0 \in Stages \cup {0}
    OBVIOUS
  <2>. HIDE DEF TypeOK
  <2>4. /\ pc'[e] # "idle" =>
             /\ cur'[e] \notin saved
             /\ \A u \in saved : u > cur'[e] => u \in done'[e]
             /\ pc'[e] \notin {"traceSelect", "traceWrite"}
        /\ \A f \in Executors \ {e} : pc'[f] = pc[f]
    BY <2>1, <2>3, ProceedSole
  <2>. QED
    BY <2>1, <2>2, <2>4 DEF SoleInv
<1>2. ASSUME NEW e \in Executors,
             \/ SelectRow(e, "plan", "plan", "planWrite")
             \/ SelectRow(e, "trace", "traceSelect", "traceWrite")
             \/ LookupPlan(e) \/ DropPlan(e) \/ Conclude(e) \/ ConcludeRaises(e)
             \/ LoadReport(e)
      PROVE  SoleInv'
  <2>1. kv'["trace"] = kv["trace"]
    BY <1>2 DEF SelectRow, LookupPlan, DropPlan, Conclude, ConcludeRaises, LoadReport, Keys
  <2>2. /\ pc[e] # "idle" /\ UNCHANGED <<saved, report, reader, overlap>>
        /\ \A f \in Executors \ {e} :
             pc'[f] = pc[f] /\ cur'[f] = cur[f] /\ done'[f] = done[f] /\ held'[f] = held[f]
        /\ pc'[e] # "idle" => cur'[e] = cur[e] /\ done'[e] = done[e]
    BY <1>2 DEF SelectRow, LookupPlan, DropPlan, Conclude, ConcludeRaises, LoadReport, Stop
  <2>3. ~overlap /\ pc'[e] \in {"traceSelect", "traceWrite"} => held'[e] = report
    BY <1>2 DEF SelectRow, LookupPlan, DropPlan, Conclude, ConcludeRaises, LoadReport, Stop, SoleInv
  <2>. HIDE DEF TypeOK
  <2>. QED
    BY <2>1, <2>2, <2>3, ExecutorSole
<1>3. ASSUME NEW e \in Executors,
             WriteRow(e, "plan", "planWrite", 0) \/ WriteRow(e, "trace", "traceWrite", held[e])
      PROVE  SoleInv'
  <2>1. /\ pc[e] # "idle" /\ UNCHANGED <<saved, report, reader, overlap>>
        /\ \A f \in Executors \ {e} :
             pc'[f] = pc[f] /\ cur'[f] = cur[f] /\ done'[f] = done[f] /\ held'[f] = held[f]
        /\ pc'[e] # "idle" => cur'[e] = cur[e] /\ done'[e] = done[e]
        /\ pc'[e] \notin {"traceSelect", "traceWrite"}
    BY <1>3 DEF WriteRow, Stop
  <2>2. ~overlap => kv'["trace"] = kv["trace"] \/ kv'["trace"].report = report
    BY <1>3 DEF WriteRow, SoleInv, Keys, Entry
  <2>. HIDE DEF TypeOK
  <2>. QED
    BY <2>1, <2>2, ExecutorSole
<1>4. ASSUME NEW e \in Executors, Save(e)
      PROVE  SoleInv'
  <2>1. /\ pc[e] # "idle" /\ cur[e] \in Stages /\ done[e] \in SUBSET Stages
        /\ Proceed(e, cur[e], done[e]) /\ saved' = saved \cup {cur[e]}
        /\ report' = IF cur[e] = 3 THEN held[e] ELSE report
        /\ UNCHANGED <<kv, reader, overlap>>
    BY <1>4 DEF Save, FlowInv
  <2>2. SUFFICES ASSUME ~overlap PROVE SoleInv'
    BY <2>1 DEF SoleInv
  <2>3. \A u \in saved' : u > cur[e] => u \in done[e]
    BY <2>1, <2>2 DEF SoleInv, Stages
  <2>4. saved' \subseteq Stages
    BY <2>1
  <2>. HIDE DEF TypeOK
  <2>5. /\ pc'[e] # "idle" =>
             /\ cur'[e] \notin saved'
             /\ \A u \in saved' : u > cur'[e] => u \in done'[e]
             /\ pc'[e] \notin {"traceSelect", "traceWrite"}
        /\ \A f \in Executors \ {e} : pc'[f] = pc[f]
    BY <2>1, <2>3, <2>4, ProceedSole
  <2>6. \A f \in Executors \ {e} : pc'[f] = "idle"
    BY <2>1, <2>2, <2>5 DEF SoleInv
  <2>7. cur[e] = 3 => kv["trace"].state = "none" /\ \A r \in Readers : began[r] = 0
    BY <2>1, <2>2 DEF SoleInv, ReportInv
  <2>. QED
    BY <2>1, <2>2, <2>5, <2>6, <2>7 DEF SoleInv
<1>5. ASSUME NEW e \in Executors, Fail(e)
      PROVE  SoleInv'
  <2>1. /\ pc[e] # "idle" /\ UNCHANGED <<saved, kv, report, reader, overlap>>
        /\ \A f \in Executors \ {e} :
             pc'[f] = pc[f] /\ cur'[f] = cur[f] /\ done'[f] = done[f] /\ held'[f] = held[f]
        /\ pc'[e] = "idle"
    BY <1>5 DEF Fail, Stop
  <2>. HIDE DEF TypeOK
  <2>. QED
    BY <2>1, ExecutorSole
<1>6. ASSUME NEW r \in Readers, Request(r) \/ Finish(r)
      PROVE  SoleInv'
  BY <1>6 DEF Request, Finish, SoleInv
<1>7. ASSUME NEW r \in Readers, NEW v, Answer(r, {v}), ~overlap => v = report,
             UNCHANGED <<artifacts, executor, began, history>>
      PROVE  SoleInv'
  BY <1>7 DEF Answer, SoleInv
<1>8. ASSUME NEW r \in Readers, GetTrace(r) \/ GetCheckpoint(r) \/ DropTrace(r)
      PROVE  SoleInv'
  <2>1. CASE /\ \E to \in {"drop", "checkpoint", "rows"} : rpc' = [rpc EXCEPT ![r] = to]
             /\ kv'["trace"] = kv["trace"] \/ kv'["trace"].state = "none"
             /\ UNCHANGED <<saved, report, executor, began, answer, overlap>>
    BY <2>1 DEF SoleInv
  <2>2. ~overlap /\ kv["trace"].state = "fresh" => kv["trace"].report = report
    BY DEF SoleInv
  <2>3. DropTrace(r) => kv'["trace"].state = "none"
    BY DEF DropTrace, Keys, None, Entry
  <2>. QED
    BY <1>7, <1>8, <2>1, <2>2, <2>3 DEF GetTrace, GetCheckpoint, DropTrace
<1>9. ASSUME NEW r \in Readers, GetRows(r)
      PROVE  SoleInv'
  <2>1. rpc[r] \in {"rows", "links"} /\ began[r] = 0
    BY <1>9, GetRowsSteps DEF ReportInv
  <2>2. /\ UNCHANGED <<kv, saved, report, began, executor, overlap>>
        /\ \A q \in Readers \ {r} : rpc'[q] = rpc[q] /\ answer'[q] = answer[q]
    BY <1>9, GetRowsSteps
  <2>. QED
    BY <2>1, <2>2 DEF SoleInv
<1>10. ASSUME NEW k \in Keys, Expire(k)
      PROVE  SoleInv'
  <2>1. /\ kv'["trace"].report = kv["trace"].report
        /\ kv'["trace"].state # "none" => kv["trace"].state # "none"
    BY <1>10 DEF Expire, Keys
  <2>. QED
    BY <1>10, <2>1 DEF Expire, SoleInv
<1>11. CASE UNCHANGED vars
  BY <1>11 DEF vars, SoleInv
<1>. QED
  BY <1>1, <1>2, <1>3, <1>4, <1>5, <1>6, <1>8, <1>9, <1>10, <1>11 DEF Next, Flow, Read

(***************************************************************************)
(* The theorems.                                                           *)
(***************************************************************************)
Inv == TypeOK /\ FlowInv /\ NakedInv /\ ReportInv /\ SoleInv

LEMMA InitInv == Init => Inv
<1>1. Init => FlowInv /\ NakedInv /\ ReportInv /\ SoleInv
  BY DEF Init, FlowInv, NakedInv, NoConclusionIsNaked, ReportInv, SoleInv, None, Entry, Keys
<1>. QED
  BY <1>1, InitTypeOK DEF Inv

LEMMA NextInv == Inv /\ [Next]_vars => Inv'
<1>. SUFFICES ASSUME Inv, [Next]_vars PROVE Inv'
  OBVIOUS
<1>1. TypeOK /\ FlowInv /\ NakedInv /\ ReportInv /\ SoleInv
  BY DEF Inv
<1>2. CASE UNCHANGED vars
  <2>1. planLost' \in BOOLEAN /\ supported' \in BOOLEAN /\ overlap' \in BOOLEAN
    BY <1>1, <1>2, Zenon DEF vars, history, TypeOK
  <2>2. TypeOK'
    BY <1>1, <1>2, <2>1 DEF vars, artifacts, executor, reader, history, TypeOK
  <2>. QED
    BY <1>1, <2>2, FlowStep, NakedStep, ReportStep, SoleStep DEF Inv
<1>3. CASE Next
  <2>1. TypeOK'
    BY <1>1, <1>3, FlowTypeOK, ReadTypeOK, ExpireTypeOK DEF Next
  <2>. QED
    BY <1>1, <2>1, FlowStep, NakedStep, ReportStep, SoleStep DEF Inv
<1>. QED
  BY <1>2, <1>3

LEMMA Invariance == Spec => []Inv
<1>. QED
  BY InitInv, NextInv, PTL DEF Spec

\* The variables of the executors, of the readers and of what they share keep
\* their types: the versions of reports, which never stop growing, too.
THEOREM TypeCorrect == Spec => []TypeOK
<1>1. Inv => TypeOK
  BY DEF Inv
<1>. QED
  BY <1>1, Invariance, PTL

\* However many executions of conclude commit between a request's two SELECTs,
\* every conclusion it is served comes with its evidence (get_conclusions and
\* _report_from_rows in src/app/api/routes.py).
THEOREM NoNakedConclusion == Spec => []NoConclusionIsNaked
<1>1. Inv => NoConclusionIsNaked
  BY DEF Inv, NakedInv
<1>. QED
  BY <1>1, Invariance, PTL

\* get_report, asked once conclude is checkpointed, answers with one whole
\* report whatever fails, expires or is executed again meanwhile; with the
\* checkpointed one as long as no two executors execute the run at once.
THEOREM ServedReport == Spec => []ServedIsCheckpointed
<1>1. Inv => ServedIsCheckpointed
  <2>. SUFFICES ASSUME Inv, NEW r \in Readers, rpc[r] = "answered", began[r] # 0
                PROVE  /\ Cardinality(answer[r]) = 1
                       /\ overlap \/ answer[r] = {began[r]}
    BY DEF ServedIsCheckpointed
  <2>1. PICK v \in Nat : answer[r] = {v}
    BY DEF Inv, ReportInv
  <2>2. Cardinality(answer[r]) = 1
    BY <2>1, FS_Singleton
  <2>3. overlap \/ answer[r] = {began[r]}
    BY DEF Inv, SoleInv
  <2>. QED
    BY <2>2, <2>3
<1>. QED
  BY <1>1, Invariance, PTL
=============================================================================
