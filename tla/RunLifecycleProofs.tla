------------------------- MODULE RunLifecycleProofs -------------------------
(***************************************************************************)
(* Proofs about RunLifecycle: what PipelineRunProofs shows of the          *)
(* executions of a run still holds when they are started by requests and   *)
(* workers, and when _persist_start_failure writes the run's row itself;   *)
(* and a run that still reads "submitted" is untouched.  For any number of *)
(* stages, requests, workers and executions, and any bounds.               *)
(***************************************************************************)
EXTENDS RunLifecycle, PipelineRunProofs, FiniteSetTheorems

(***************************************************************************)
(* The steps of the lifecycle, seen from the run.                          *)
(***************************************************************************)

\* A failed operation of a request touches nothing of the run.
Counted == Fault /\ UNCHANGED <<row, durable, pc, locals, charged>>

\* _persist_start_failure writes the row.
StartFailure ==
  /\ status' = "failed" /\ failedRows' = failedRows + 1
  /\ UNCHANGED <<rowStage, spent, budget, durable, pc, locals, charged, faults>>

\* Requests, the queue and the workers do nothing else to the run.
LEMMA LifecycleStep ==
  ASSUME submits \in Modes, [LifecycleNext]_lifecycleVars
  PROVE  submits' \in Modes /\ ([Next]_vars \/ Counted \/ StartFailure)
<1>. USE DEF Counted, StartFailure
<1>1. ASSUME NEW r \in Requests,
             ResumeRequest(r) \/ FlowReturns(r) \/ Submit(r) \/ LookUpRun(r)
      PROVE  UNCHANGED <<vars, submits>>
  BY <1>1 DEF ResumeRequest, FlowReturns, Submit, LookUpRun
<1>2. ASSUME NEW r \in Requests, StartFlow(r)
      PROVE  Next /\ submits' = submits
  <2>1. r \in Executors
    BY <1>2, RequestAssumption DEF StartFlow
  <2>. QED
    BY <1>2, <2>1 DEF StartFlow, Next
<1>3. ASSUME NEW r \in Requests, PersistFailure(r)
      PROVE  StartFailure /\ submits' = submits
  BY <1>3 DEF PersistFailure
<1>4. ASSUME NEW r \in Requests, BuildFails(r) \/ SubmitRaises(r) \/ PersistError(r)
      PROVE  Counted /\ submits' = submits
  BY <1>4 DEF BuildFails, SubmitRaises, PersistError
<1>5. ASSUME NEW e \in Executors,
             Dequeue(e) \/ FlowStep(e) \/ FlowRaises(e) \/ FlowVanishes(e)
      PROVE  Next /\ submits' = submits
  BY <1>5 DEF Dequeue, FlowStep, FlowRaises, FlowVanishes, api, Next
<1>6. ASSUME NEW e \in Executors, WorkerBuildFails(e)
      PROVE  Vanish(e) /\ submits' = submits
  BY <1>6 DEF WorkerBuildFails, Vanish
<1>7. CASE UNCHANGED lifecycleVars
  BY <1>7 DEF lifecycleVars, api
<1>. QED
  BY <1>1, <1>2, <1>3, <1>4, <1>5, <1>6, <1>7 DEF LifecycleNext, RequestStep, Next

\* Both extra steps leave the executors and the checkpoints alone.
LEMMA OwnStepIInv ==
  ASSUME IInv, Counted \/ StartFailure
  PROVE  IInv'
<1>. USE DEF Counted, StartFailure, row, durable, locals, IInv
<1>1. TypeOK'
  <2>1. CASE Counted
    BY <2>1, BoundsAssumption DEF TypeOK, Fault
  <2>2. CASE StartFailure
    BY <2>2 DEF TypeOK, Statuses
  <2>. QED
    BY <2>1, <2>2
<1>2. LoopInv'
  BY DEF LoopInv, ExecutorInv
<1>3. CheckpointsArePrefix' /\ MirrorIsDurable' /\ MeterNeverOvercounts'
  BY DEF CheckpointsArePrefix, MirrorIsDurable, MeterNeverOvercounts
<1>4. CompletedMeansStagesDurable'
  BY DEF CompletedMeansStagesDurable
<1>5. FailedHasAuditRow'
  BY DEF FailedHasAuditRow, TypeOK
<1>. QED
  BY <1>1, <1>2, <1>3, <1>4, <1>5

(***************************************************************************)
(* A submitted run is untouched: until an execution publishes its first    *)
(* stage, none is past the start of it.                                    *)
(***************************************************************************)
SubmittedInv ==
  status = "submitted" =>
    /\ checkpoints = {} /\ spent = 0 /\ failedRows = 0
    /\ \A e \in Executors :
         pc[e] \in {"idle", "enter", "readBudget", "start", "failing"}

\* With no stage checkpointed, the loop cannot be over when it begins.
LEMMA SubmittedStep ==
  ASSUME IInv, SubmittedInv, [Next]_vars
  PROVE  SubmittedInv'
<1>. SUFFICES ASSUME status' = "submitted" PROVE SubmittedInv'
  BY DEF SubmittedInv
<1>. USE DEF row, durable, locals, SubmittedInv
<1>0. TypeOK /\ LoopInv
  BY DEF IInv
<1>1. ASSUME NEW e \in Executors, Step(e) PROVE SubmittedInv'
  <2>0. status = "submitted"
    BY <1>1 DEF Step, ReadCompleted, ReadBudget, MarkStageStart, Call, RecordCall,
       FinishTask, SelectCheckpoint, InsertCheckpoint, InsertConflict, UpdateCheckpoint,
       ListCheckpoints, WriteMirror, CheckBreaker, Pause, Fail, Finish
  <2>1. \/ ReadCompleted(e) \/ ReadBudget(e)
    BY <1>1, <2>0 DEF Step, MarkStageStart, Call, RecordCall,
       FinishTask, SelectCheckpoint, InsertCheckpoint, InsertConflict, UpdateCheckpoint,
       ListCheckpoints, WriteMirror, CheckBreaker, Pause, Fail, Finish, Goto
  <2>2. CASE ReadCompleted(e)
    BY <1>0, <2>0, <2>2 DEF ReadCompleted, Goto, TypeOK
  <2>3. CASE ReadBudget(e)
    <3>1. cur[e] = 0 /\ completed[e] = {} /\ 1 \in Remaining(e, cur[e])
      BY <1>0, <2>0, <2>3, StagesAssumption
         DEF ReadBudget, LoopInv, ExecutorInv, Remaining, Stages
    <3>2. pc' = [pc EXCEPT ![e] = "start"]
      BY <2>3, <3>1 DEF ReadBudget, NextStage
    <3>. QED
      BY <1>0, <2>0, <2>3, <3>2 DEF ReadBudget, TypeOK
  <2>. QED
    BY <2>1, <2>2, <2>3
<1>2. ASSUME NEW e \in Executors, Enter(e) PROVE SubmittedInv'
  BY <1>0, <1>2 DEF Enter, Goto, TypeOK
<1>3. ASSUME NEW e \in Executors, StageRaises(e) PROVE SubmittedInv'
  BY <1>0, <1>3 DEF StageRaises, TypeOK
<1>4. ASSUME NEW e \in Executors, Vanish(e) PROVE SubmittedInv'
  BY <1>0, <1>4 DEF Vanish, Leave, TypeOK
<1>5. CASE RaiseBudget \/ UNCHANGED vars
  BY <1>5 DEF RaiseBudget, vars
<1>. QED
  BY <1>1, <1>2, <1>3, <1>4, <1>5 DEF Next

(***************************************************************************)
(* A run at rest is settled.  Somebody always owes the run an outcome: as  *)
(* long as nothing died silently and no start was given up, an active run  *)
(* has an execution that will still write its status, and a submitted run  *)
(* whose execution was asked for has a request, a flow run or an execution *)
(* on its way.                                                             *)
(***************************************************************************)

\* The set an execution read is a prefix, so it skips nothing above its stage.
SkipInv ==
  \A e \in Executors :
    /\ \A s, t \in Stages : t \in completed[e] /\ s <= t => s \in completed[e]
    /\ pc[e] \in Guarded => cur[e] \notin completed[e]

\* Before it is done with trace, an execution ends in a write of the status.
WillWrite(e) ==
  \/ pc[e] \in {"start", "task", "meter", "pausing", "failing"}
  \/ pc[e] \in Guarded /\ cur[e] # Trace

AskPending ==
  \/ \E r \in Requests : req[r] \in {"run", "resume", "lookup", "write"}
  \/ queue > 0
  \/ \E e \in Executors : pc[e] # "idle"

PendingInv ==
  ~ silent /\ ~ refused =>
    /\ status = "active" => \E e \in Executors : WillWrite(e)
    /\ status = "submitted" /\ asks > 0 => AskPending

RequestTypes ==
  /\ req \in [Requests -> RequestPoints]
  /\ queue \in Nat /\ asks \in Nat

\* The loop ends only behind trace: below it there is a stage left to start.
LEMMA NextStageGoesOn ==
  ASSUME TypeOK, SkipInv, NEW e \in Executors, NextStage(e)
  PROVE  /\ pc'[e] \in {"start", "finish"}
         /\ pc'[e] = "start" => cur'[e] \notin completed[e]
         /\ pc[e] \in Guarded /\ cur[e] \in Stages /\ cur[e] # Trace => pc'[e] = "start"
         /\ \A f \in Executors \ {e} : pc'[f] = pc[f] /\ cur'[f] = cur[f]
<1>1. CASE /\ Remaining(e, cur[e]) = {}
           /\ pc' = [pc EXCEPT ![e] = "finish"]
           /\ UNCHANGED cur
  <2>1. ASSUME pc[e] \in Guarded, cur[e] \in Stages, cur[e] # Trace PROVE FALSE
    <3>1. Trace \in Stages /\ cur[e] < Trace /\ Trace \in completed[e]
      BY <1>1, <2>1, StagesAssumption DEF Remaining, Stages, Trace
    <3>. QED
      BY <2>1, <3>1 DEF SkipInv, Stages
  <2>. QED
    BY <1>1, <2>1 DEF TypeOK
<1>2. ASSUME NEW s \in Remaining(e, cur[e]),
             pc' = [pc EXCEPT ![e] = "start"], cur' = [cur EXCEPT ![e] = s]
      PROVE  /\ pc'[e] = "start"
             /\ cur'[e] \notin completed[e]
             /\ \A f \in Executors \ {e} : pc'[f] = pc[f] /\ cur'[f] = cur[f]
  BY <1>2 DEF TypeOK, Remaining
<1>. QED
  BY <1>1, <1>2 DEF NextStage

\* An execution skips what it read as completed, and nothing else.
LEMMA SkipStep ==
  ASSUME IInv, SkipInv, [Next]_vars \/ Counted \/ StartFailure
  PROVE  SkipInv'
<1>. USE DEF row, durable, locals
<1>0. TypeOK /\ LoopInv /\ CheckpointsArePrefix
  BY DEF IInv
<1>1. ASSUME NEW e \in Executors, Step(e) PROVE SkipInv'
  <2>1. CASE ReadCompleted(e)
    BY <1>0, <2>1 DEF ReadCompleted, Goto, SkipInv, TypeOK, CheckpointsArePrefix, Guarded
  <2>2. ASSUME NextStage(e), completed' = completed PROVE SkipInv'
    BY <1>0, <2>2, NextStageGoesOn DEF SkipInv, Guarded
  <2>3. ASSUME pc[e] \in Guarded, completed' = completed, cur' = cur,
               NEW to, pc' = [pc EXCEPT ![e] = to]
        PROVE  SkipInv'
    BY <1>0, <2>3 DEF SkipInv, TypeOK
  <2>4. CASE ReadBudget(e)
    BY <2>2, <2>4 DEF ReadBudget
  <2>5. CASE MarkStageStart(e) \/ RecordCall(e) \/ FinishTask(e) \/ SelectCheckpoint(e)
    BY <2>3, <2>5 DEF MarkStageStart, RecordCall, FinishTask, SelectCheckpoint, Goto, Guarded
  <2>6. ASSUME NEW c \in Costs, Call(e, c) PROVE SkipInv'
    BY <2>3, <2>6 DEF Call, Goto, Guarded
  <2>7. CASE InsertCheckpoint(e) \/ InsertConflict(e) \/ UpdateCheckpoint(e) \/ ListCheckpoints(e)
    BY <2>3, <2>7 DEF InsertCheckpoint, InsertConflict, UpdateCheckpoint, ListCheckpoints,
       Goto, Guarded
  <2>8. CASE WriteMirror(e) \/ CheckBreaker(e)
    BY <2>2, <2>3, <2>8 DEF WriteMirror, CheckBreaker, Goto, Guarded
  <2>9. CASE Pause(e) \/ Fail(e) \/ Finish(e)
    <3>1. Leave(e)
      BY <2>9 DEF Pause, Fail, Finish
    <3>. QED
      BY <1>0, <3>1 DEF Leave, SkipInv, TypeOK, Guarded
  <2>. QED
    BY <1>1, <2>1, <2>4, <2>5, <2>6, <2>7, <2>8, <2>9 DEF Step
<1>2. ASSUME NEW e \in Executors, Enter(e) PROVE SkipInv'
  BY <1>0, <1>2 DEF Enter, Goto, SkipInv, TypeOK, Guarded
<1>3. ASSUME NEW e \in Executors, StageRaises(e) PROVE SkipInv'
  BY <1>0, <1>3 DEF StageRaises, SkipInv, TypeOK, Guarded
<1>4. ASSUME NEW e \in Executors, Vanish(e) PROVE SkipInv'
  BY <1>0, <1>4 DEF Vanish, Leave, SkipInv, TypeOK, Guarded
<1>5. CASE RaiseBudget \/ UNCHANGED vars \/ Counted \/ StartFailure
  BY <1>5 DEF RaiseBudget, vars, Counted, StartFailure, SkipInv
<1>. QED
  BY <1>1, <1>2, <1>3, <1>4, <1>5 DEF Next

\* A step of an execution that owes an outcome leaves it owing, or pays; only
\* the start of a stage makes the run active, and its execution then owes.
LEMMA OwingStep ==
  ASSUME IInv, SkipInv, NEW e \in Executors, Step(e) \/ StageRaises(e)
  PROVE  /\ status' \in {status, "completed", "failed", "paused"} \/ WillWrite(e)'
         /\ WillWrite(e) => WillWrite(e)' \/ status' \in {"completed", "failed", "paused"}
         /\ \A f \in Executors \ {e} : WillWrite(f) => WillWrite(f)'
<1>. DEFINE Owing ==
       /\ status' \in {status, "completed", "failed", "paused"} \/ WillWrite(e)'
       /\ WillWrite(e) => WillWrite(e)' \/ status' \in {"completed", "failed", "paused"}
       /\ \A f \in Executors \ {e} : WillWrite(f) => WillWrite(f)'
<1>. USE DEF row, durable, locals, WillWrite, Guarded
<1>0. TypeOK /\ ExecutorInv(e)
  BY DEF IInv, LoopInv
<1>1. ASSUME NextStage(e), pc[e] \in {"readBudget", "mirrorWrite", "breaker"},
             pc[e] = "mirrorWrite" => cur[e] = Trace,
             status' = status
      PROVE  Owing
  <2>1. pc[e] = "breaker" => cur[e] \in Stages
    BY <1>0 DEF ExecutorInv
  <2>. QED
    BY <1>0, <1>1, <2>1, NextStageGoesOn
<1>2. ASSUME NEW to \in Guarded \cup {"pausing", "failing"},
             pc' = [pc EXCEPT ![e] = to], cur' = cur,
             WillWrite(e) => to \in {"task", "meter", "pausing", "failing"} \/ cur[e] # Trace,
             status' = status
      PROVE  Owing
  BY <1>0, <1>2 DEF TypeOK
<1>3. ASSUME Leave(e), WillWrite(e) => status' \in {"paused", "failed"},
             status' \in {status, "paused", "failed"}
      PROVE  Owing
  BY <1>0, <1>3 DEF Leave, TypeOK
<1>4. CASE ReadCompleted(e)
  BY <1>0, <1>4 DEF ReadCompleted, Goto, TypeOK
<1>5. CASE ReadBudget(e)
  BY <1>1, <1>5 DEF ReadBudget
<1>6. CASE MarkStageStart(e)
  BY <1>0, <1>6 DEF MarkStageStart, Goto, TypeOK
<1>7. ASSUME NEW c \in Costs, Call(e, c) PROVE Owing
  BY <1>2, <1>7 DEF Call, Goto
<1>8. CASE RecordCall(e)
  BY <1>2, <1>8 DEF RecordCall, Goto
<1>9. CASE FinishTask(e)
  BY <1>0, <1>9 DEF FinishTask, Goto, TypeOK
<1>10. CASE SelectCheckpoint(e) \/ InsertCheckpoint(e) \/ InsertConflict(e)
  BY <1>2, <1>10 DEF SelectCheckpoint, InsertCheckpoint, InsertConflict, Goto
<1>11. CASE UpdateCheckpoint(e) \/ ListCheckpoints(e)
  BY <1>2, <1>11 DEF UpdateCheckpoint, ListCheckpoints, Goto
<1>12. CASE WriteMirror(e) \/ CheckBreaker(e)
  BY <1>1, <1>2, <1>12 DEF WriteMirror, CheckBreaker, Goto
<1>13. CASE Pause(e) \/ Fail(e) \/ Finish(e)
  BY <1>3, <1>13 DEF Pause, Fail, Finish
<1>14. CASE StageRaises(e)
  BY <1>2, <1>14 DEF StageRaises
<1>. QED
  BY <1>4, <1>5, <1>6, <1>7, <1>8, <1>9, <1>10, <1>11, <1>12, <1>13, <1>14 DEF Step

\* An execution of a submitted run does not end before the run is active.
LEMMA SubmittedGoesOn ==
  ASSUME IInv, SubmittedInv, NEW e \in Executors, Step(e) \/ StageRaises(e),
         status' = "submitted"
  PROVE  status = "submitted" /\ pc'[e] # "idle"
<1>0. TypeOK
  BY DEF IInv
<1>. USE DEF row, Goto
<1>1. CASE StageRaises(e)
  BY <1>0, <1>1 DEF StageRaises, TypeOK
<1>2. CASE Step(e)
  <2>1. status = "submitted"
    BY <1>2 DEF Step, ReadCompleted, ReadBudget, MarkStageStart, Call, RecordCall,
       FinishTask, SelectCheckpoint, InsertCheckpoint, InsertConflict, UpdateCheckpoint,
       ListCheckpoints, WriteMirror, CheckBreaker, Pause, Fail, Finish
  <2>2. ReadCompleted(e) \/ ReadBudget(e)
    BY <1>2, <2>1 DEF SubmittedInv, Step, MarkStageStart, Call, RecordCall,
       FinishTask, SelectCheckpoint, InsertCheckpoint, InsertConflict, UpdateCheckpoint,
       ListCheckpoints, WriteMirror, CheckBreaker, Pause, Fail, Finish
  <2>3. CASE ReadCompleted(e)
    BY <1>0, <2>1, <2>3 DEF ReadCompleted, TypeOK
  <2>4. CASE ReadBudget(e)
    BY <1>0, <2>1, <2>4 DEF ReadBudget, NextStage, TypeOK
  <2>. QED
    BY <2>2, <2>3, <2>4
<1>. QED
  BY <1>1, <1>2

\* A request asks once: it adds one flow run to the queue or starts one flow.
Asking == {r \in Requests : req[r] \in {"run", "resume"}}

AskedInv ==
  /\ IsFiniteSet(Asking) /\ asks \in 0 .. MaxAsks
  /\ queue + Cardinality(Asking) <= asks

\* The requests' own bookkeeping stays in its domain.
LEMMA RequestStepTypes ==
  ASSUME RequestTypes, AskedInv, [LifecycleNext]_lifecycleVars
  PROVE  RequestTypes' /\ AskedInv'
<1>. USE DEF RequestTypes, api
<1>0. Cardinality(Asking) \in Nat /\ MaxAsks \in Nat
  BY FS_CardinalityType, RequestAssumption DEF AskedInv
<1>1. ASSUME NEW r \in Requests, NEW to \in RequestPoints \ {"run", "resume"}, To(r, to)
      PROVE  /\ req' \in [Requests -> RequestPoints]
             /\ Asking' = Asking \ {r}
             /\ IsFiniteSet(Asking')
             /\ Cardinality(Asking') =
                  IF req[r] \in {"run", "resume"} THEN Cardinality(Asking) - 1
                                                 ELSE Cardinality(Asking)
  <2>1. req' \in [Requests -> RequestPoints] /\ Asking' = Asking \ {r}
    BY <1>1 DEF To, Asking
  <2>. QED
    BY <2>1, FS_RemoveElement DEF AskedInv, Asking
<1>2. ASSUME NEW r \in Requests, ResumeRequest(r) PROVE RequestTypes' /\ AskedInv'
  <2>1. /\ req' \in [Requests -> RequestPoints]
        /\ Asking' = Asking \cup {r} /\ r \notin Asking
    BY <1>2 DEF ResumeRequest, To, RequestPoints, Asking
  <2>2. IsFiniteSet(Asking') /\ Cardinality(Asking') = Cardinality(Asking) + 1
    BY <2>1, FS_AddElement DEF AskedInv
  <2>. QED
    BY <1>0, <1>2, <2>1, <2>2 DEF ResumeRequest, AskedInv
<1>3. ASSUME NEW r \in Requests,
             StartFlow(r) \/ Submit(r) \/ BuildFails(r) \/ SubmitRaises(r)
      PROVE  RequestTypes' /\ AskedInv'
  <2>1. /\ req[r] \in {"run", "resume"} /\ asks' = asks
        /\ \E to \in RequestPoints \ {"run", "resume"} : To(r, to)
        /\ queue' \in {queue, queue + 1}
    BY <1>3 DEF StartFlow, Submit, BuildFails, SubmitRaises, RequestPoints
  <2>2. /\ req' \in [Requests -> RequestPoints] /\ IsFiniteSet(Asking')
        /\ Cardinality(Asking') = Cardinality(Asking) - 1
    BY <1>1, <2>1
  <2>. QED
    BY <1>0, <2>1, <2>2 DEF AskedInv
<1>4. ASSUME NEW r \in Requests,
             FlowReturns(r) \/ LookUpRun(r) \/ PersistFailure(r) \/ PersistError(r)
      PROVE  RequestTypes' /\ AskedInv'
  <2>1. /\ req[r] \notin {"run", "resume"} /\ UNCHANGED <<asks, queue>>
        /\ \E to \in RequestPoints \ {"run", "resume"} : To(r, to)
    BY <1>4 DEF FlowReturns, LookUpRun, PersistFailure, PersistError, RequestPoints
  <2>2. /\ req' \in [Requests -> RequestPoints] /\ IsFiniteSet(Asking')
        /\ Cardinality(Asking') = Cardinality(Asking)
    BY <1>1, <2>1
  <2>. QED
    BY <1>0, <2>1, <2>2 DEF AskedInv
<1>5. ASSUME UNCHANGED <<req, asks>>, queue' \in {queue} \cup {q \in Nat : q < queue}
      PROVE  RequestTypes' /\ AskedInv'
  <2>1. Asking' = Asking
    BY <1>5 DEF Asking
  <2>. QED
    BY <1>0, <1>5, <2>1 DEF AskedInv
<1>6. ASSUME NEW e \in Executors, Dequeue(e)
      PROVE  RequestTypes' /\ AskedInv'
  BY <1>5, <1>6 DEF Dequeue
<1>7. ASSUME NEW e \in Executors,
             WorkerBuildFails(e) \/ FlowStep(e) \/ FlowRaises(e) \/ FlowVanishes(e)
      PROVE  RequestTypes' /\ AskedInv'
  BY <1>5, <1>7 DEF WorkerBuildFails, FlowStep, FlowRaises, FlowVanishes
<1>8. CASE UNCHANGED lifecycleVars
  BY <1>5, <1>8 DEF lifecycleVars
<1>. QED
  BY <1>2, <1>3, <1>4, <1>6, <1>7, <1>8 DEF LifecycleNext, RequestStep

\* Every handler hands the debt on, pays it, or is recorded as the one that
\* dropped it.
LEMMA PendingStep ==
  ASSUME IInv, SubmittedInv, SkipInv, RequestTypes, PendingInv, submits \in Modes,
         [LifecycleNext]_lifecycleVars
  PROVE  PendingInv'
<1>. SUFFICES ASSUME ~ silent', ~ refused' PROVE PendingInv'
  BY DEF PendingInv
<1>. DEFINE Active == status = "active" => \E e \in Executors : WillWrite(e)
            Asked == status = "submitted" /\ asks > 0 => AskPending
<1>. SUFFICES Active' /\ Asked'
  BY DEF PendingInv
<1>. USE DEF row, durable, locals, api, history, vars
<1>0. TypeOK
  BY DEF IInv
<1>1. ASSUME ~ silent, ~ refused PROVE Active /\ Asked
  BY <1>1 DEF PendingInv
\* The executions stay where they are.
<1>2. ASSUME UNCHANGED <<status, pc, cur>>, ~ silent, ~ refused PROVE Active'
  BY <1>1, <1>2 DEF WillWrite
\* An idle executor starts.
<1>3. ASSUME NEW e \in Executors, Enter(e), ~ silent, ~ refused
      PROVE  Active' /\ pc'[e] # "idle"
  <2>1. /\ status' = status /\ cur' = cur /\ pc[e] = "idle" /\ pc'[e] = "enter"
        /\ \A f \in Executors \ {e} : pc'[f] = pc[f]
    BY <1>0, <1>3 DEF Enter, Goto, TypeOK
  <2>2. ASSUME NEW f \in Executors, WillWrite(f) PROVE WillWrite(f)'
    BY <2>1, <2>2 DEF WillWrite, Guarded
  <2>. QED
    BY <1>1, <1>3, <2>1, <2>2
<1>4. ASSUME NEW r \in Requests, ResumeRequest(r) PROVE Active' /\ Asked'
  <2>1. req'[r] = "resume"
    BY <1>4 DEF ResumeRequest, To, RequestTypes
  <2>. QED
    BY <1>2, <1>4, <2>1 DEF ResumeRequest, AskPending
<1>5. ASSUME NEW r \in Requests, StartFlow(r) PROVE Active' /\ Asked'
  <2>1. r \in Executors
    BY <1>5, RequestAssumption DEF StartFlow
  <2>. QED
    BY <1>3, <1>5, <2>1 DEF StartFlow, AskPending
<1>6. ASSUME NEW r \in Requests, FlowReturns(r) PROVE Active' /\ Asked'
  <2>1. \A q \in Requests \ {r} : req'[q] = req[q]
    BY <1>6 DEF FlowReturns, To, RequestTypes
  <2>2. req[r] = "await"
    BY <1>6 DEF FlowReturns
  <2>. QED
    BY <1>1, <1>2, <1>6, <2>1, <2>2 DEF FlowReturns, AskPending
<1>7. ASSUME NEW r \in Requests, Submit(r) PROVE Active' /\ Asked'
  <2>1. queue' > 0
    BY <1>7 DEF Submit, RequestTypes
  <2>. QED
    BY <1>2, <1>7, <2>1 DEF Submit, AskPending
<1>8. ASSUME NEW r \in Requests, LookUpRun(r) PROVE Active' /\ Asked'
  <2>1. Active'
    BY <1>2, <1>8 DEF LookUpRun
  <2>2. status = "submitted" => req'[r] = "write"
    BY <1>8 DEF LookUpRun, To, RequestTypes
  <2>. QED
    BY <1>8, <2>1, <2>2 DEF LookUpRun, AskPending
<1>9. ASSUME NEW r \in Requests, PersistFailure(r) PROVE Active' /\ Asked'
  BY <1>9 DEF PersistFailure
<1>10. ASSUME NEW r \in Requests, BuildFails(r) \/ SubmitRaises(r) PROVE Active' /\ Asked'
  <2>1. Active' /\ req'[r] = "lookup"
    BY <1>2, <1>10 DEF BuildFails, SubmitRaises, To, RequestTypes
  <2>. QED
    BY <2>1 DEF AskPending
<1>11. ASSUME NEW r \in Requests, PersistError(r) PROVE FALSE
  BY <1>11 DEF PersistError
<1>12. ASSUME NEW e \in Executors, Dequeue(e) PROVE Active' /\ Asked'
  BY <1>3, <1>12 DEF Dequeue, AskPending
<1>13. ASSUME NEW e \in Executors, WorkerBuildFails(e) \/ FlowVanishes(e) PROVE FALSE
  BY <1>13 DEF WorkerBuildFails, FlowVanishes
<1>14. ASSUME NEW e \in Executors, FlowStep(e) \/ FlowRaises(e) PROVE Active' /\ Asked'
  <2>1. Step(e) \/ StageRaises(e)
    BY <1>14 DEF FlowStep, FlowRaises
  <2>2. ~ silent /\ ~ refused /\ UNCHANGED api
    BY <1>14 DEF FlowStep, FlowRaises
  <2>3. Active'
    BY <1>1, <2>1, <2>2, OwingStep
  <2>4. ASSUME status' = "submitted" PROVE AskPending'
    BY <2>1, <2>4, SubmittedGoesOn DEF AskPending
  <2>. QED
    BY <2>3, <2>4
<1>15. CASE UNCHANGED lifecycleVars
  BY <1>1, <1>2, <1>15 DEF lifecycleVars, AskPending
<1>. QED
  BY <1>4, <1>5, <1>6, <1>7, <1>8, <1>9, <1>10, <1>11, <1>12, <1>13, <1>14, <1>15
     DEF LifecycleNext, RequestStep

(***************************************************************************)
(* The invariant of the lifecycle.                                         *)
(***************************************************************************)
LifecycleInv ==
  /\ IInv /\ submits \in Modes /\ RequestTypes /\ AskedInv
  /\ silent \in BOOLEAN /\ refused \in BOOLEAN
  /\ SubmittedInv /\ SkipInv /\ PendingInv

LEMMA LifecycleInvariant == LifecycleSpec => []LifecycleInv
<1>1. LifecycleInit => LifecycleInv
  <2>. SUFFICES ASSUME LifecycleInit PROVE LifecycleInv
    OBVIOUS
  <2>. USE DEF LifecycleInit, Init
  <2>1. IInv /\ submits \in Modes /\ SubmittedInv
    BY InitIInv DEF SubmittedInv
  <2>2. RequestTypes
    BY DEF RequestTypes, RequestPoints
  <2>3. SkipInv
    BY DEF SkipInv, Guarded
  <2>4. ASSUME asks > 0 PROVE AskPending
    BY <2>4, RequestAssumption DEF AskPending
  <2>5. AskedInv
    <3>1. Asking = IF asks = 1 THEN {Creator} ELSE {}
      BY RequestAssumption DEF Asking
    <3>2. IsFiniteSet(Asking) /\ Cardinality(Asking) = asks
      BY <3>1, FS_EmptySet, FS_Singleton
    <3>. QED
      BY <3>2, RequestAssumption DEF AskedInv
  <2>. QED
    BY <2>1, <2>2, <2>3, <2>4, <2>5 DEF LifecycleInv, PendingInv
<1>2. LifecycleInv /\ [LifecycleNext]_lifecycleVars => LifecycleInv'
  <2>. SUFFICES ASSUME LifecycleInv, [LifecycleNext]_lifecycleVars
                PROVE  LifecycleInv'
    OBVIOUS
  <2>. USE DEF LifecycleInv
  <2>1. submits' \in Modes /\ ([Next]_vars \/ Counted \/ StartFailure)
    BY LifecycleStep
  <2>2. IInv' /\ SubmittedInv'
    <3>1. CASE [Next]_vars
      BY <3>1, NextIInv, SubmittedStep
    <3>2. CASE Counted \/ StartFailure
      BY <3>2, OwnStepIInv DEF Counted, StartFailure, SubmittedInv, row, durable
    <3>. QED
      BY <2>1, <3>1, <3>2
  <2>3. SkipInv' /\ RequestTypes' /\ AskedInv' /\ PendingInv'
    BY <2>1, SkipStep, RequestStepTypes, PendingStep
  <2>4. silent' \in {silent, TRUE} /\ refused' \in {refused, TRUE}
    BY DEF LifecycleNext, lifecycleVars, api, history, RequestStep, ResumeRequest,
       StartFlow, FlowReturns, Submit, LookUpRun, PersistFailure, BuildFails,
       SubmitRaises, PersistError, Dequeue, WorkerBuildFails, FlowStep, FlowRaises,
       FlowVanishes
  <2>. QED
    BY <2>1, <2>2, <2>3, <2>4
<1>. QED
  BY <1>1, <1>2, PTL DEF LifecycleSpec

(***************************************************************************)
(* The theorems.                                                           *)
(***************************************************************************)

\* However requests, queue and workers start executions of the run, and
\* whatever fails on the way, its rows and the runner's state keep their types,
\* and no flow run is submitted that no request asked for.
THEOREM LifecycleTypes == LifecycleSpec => []LifecycleTypeOK
<1>1. LifecycleInv => LifecycleTypeOK
  <2>. SUFFICES ASSUME LifecycleInv PROVE queue \in 0 .. asks
    BY DEF LifecycleInv, IInv, RequestTypes, AskedInv, LifecycleTypeOK
  <2>. QED
    BY FS_CardinalityType DEF LifecycleInv, RequestTypes, AskedInv
<1>. QED
  BY <1>1, LifecycleInvariant, PTL

\* No interleaving of the executions that requests and workers start leaves a
\* hole in the checkpoints: what the loop skips later was done before.
THEOREM LifecycleKeepsPrefix == LifecycleSpec => []CheckpointsArePrefix
<1>1. LifecycleInv => CheckpointsArePrefix
  BY DEF LifecycleInv, IInv
<1>. QED
  BY <1>1, LifecycleInvariant, PTL

\* A run that reads "completed" has every stage before trace on disk.
THEOREM LifecycleCompletion == LifecycleSpec => []CompletedMeansStagesDurable
<1>1. LifecycleInv => CompletedMeansStagesDurable
  BY DEF LifecycleInv, IInv
<1>. QED
  BY <1>1, LifecycleInvariant, PTL

\* runs.checkpoint never names a stage that is not durable, although it is
\* written from a list read earlier.
THEOREM LifecycleMirror == LifecycleSpec => []MirrorIsDurable
<1>1. LifecycleInv => MirrorIsDurable
  BY DEF LifecycleInv, IInv
<1>. QED
  BY <1>1, LifecycleInvariant, PTL

\* The meter of a run never shows more than its executions were charged.
THEOREM LifecycleMeter == LifecycleSpec => []MeterNeverOvercounts
<1>1. LifecycleInv => MeterNeverOvercounts
  BY DEF LifecycleInv, IInv
<1>. QED
  BY <1>1, LifecycleInvariant, PTL

\* A run that still reads "submitted" has no checkpoint, no spend and no
\* audited failure, whatever was started for it.
THEOREM SubmittedIsUntouched == LifecycleSpec => []SubmittedMeansUntouched
<1>1. LifecycleInv => SubmittedMeansUntouched
  BY DEF LifecycleInv, SubmittedInv, SubmittedMeansUntouched
<1>. QED
  BY <1>1, LifecycleInvariant, PTL

\* When every request is answered, the queue is empty and no execution runs, a
\* run whose execution was asked for shows completed, failed or paused, unless
\* something died without a trace or a start was given up unrecorded: the
\* handlers of DefaultPipelineRunner and _execute_stages leave no other gap,
\* however many executions race.
THEOREM RunAtRestIsSettled == LifecycleSpec => []StartedRunIsSettled
<1>1. LifecycleInv => StartedRunIsSettled
  <2>. SUFFICES ASSUME LifecycleInv, Quiet, asks > 0, ~ silent, ~ refused
                PROVE  Settled
    BY DEF StartedRunIsSettled
  <2>1. status # "active"
    BY DEF LifecycleInv, PendingInv, Quiet, WillWrite, Guarded
  <2>2. status # "submitted"
    BY DEF LifecycleInv, PendingInv, Quiet, AskPending
  <2>. QED
    BY <2>1, <2>2 DEF LifecycleInv, IInv, TypeOK, Statuses, Settled
<1>. QED
  BY <1>1, LifecycleInvariant, PTL

\* With its requests, queue and workers, the run still implements the durable
\* job: a start failure is one of the job's failures.
THEOREM LifecycleRefinement == LifecycleSpec => ImplementsDurableJob
<1>1. LifecycleInit => Job!Init
  BY DEF LifecycleInit, Init, Job!Init
<1>2. LifecycleInv /\ [LifecycleNext]_lifecycleVars
        => [Job!Next]_(Job!jobVars)
  <2>. SUFFICES ASSUME IInv, submits \in Modes, [LifecycleNext]_lifecycleVars
                PROVE  [Job!Next]_(Job!jobVars)
    BY DEF LifecycleInv
  <2>1. [Next]_vars \/ Counted \/ StartFailure
    BY LifecycleStep
  <2>2. CASE [Next]_vars
    BY <2>2, StepRefines
  <2>3. CASE Counted
    BY <2>3 DEF Counted, row, durable, Job!jobVars
  <2>4. CASE StartFailure
    BY <2>4 DEF StartFailure, durable, IInv, TypeOK, Job!Next, Job!Fail
  <2>. QED
    BY <2>1, <2>2, <2>3, <2>4
<1>. QED
  BY <1>1, <1>2, LifecycleInvariant, PTL
     DEF LifecycleSpec, ImplementsDurableJob, Job!Spec
=============================================================================
