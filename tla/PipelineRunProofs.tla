-------------------------- MODULE PipelineRunProofs --------------------------
(***************************************************************************)
(* Proofs about PipelineRun for any number of stages, any set of           *)
(* executors, any costs and budgets and any bounds.                        *)
(***************************************************************************)
EXTENDS PipelineRun, TLAPS

USE StagesAssumption, LlmAssumption, MoneyAssumption, BoundsAssumption
USE DEF Stages, Trace, Done

(***************************************************************************)
(* Type correctness.                                                       *)
(***************************************************************************)
LEMMA InitTypeOK == Init => TypeOK
  BY DEF Init, TypeOK, Statuses, Points

\* NextStage moves an executor to a stage of STAGES or past the loop.
LEMMA NextStageType ==
  ASSUME TypeOK, NEW e \in Executors, NextStage(e)
  PROVE  /\ pc' \in [Executors -> Points]
         /\ cur' \in [Executors -> 0 .. NumStages]
  BY DEF TypeOK, NextStage, Remaining, Points, Guarded

\* A call that ends resets its executor to the initial local state.
LEMMA LeaveType ==
  ASSUME TypeOK, NEW e \in Executors, Leave(e)
  PROVE  /\ pc' \in [Executors -> Points]
         /\ cur' \in [Executors -> 0 .. NumStages]
         /\ completed' \in [Executors -> SUBSET Stages]
         /\ runBudget' \in [Executors -> Nat]
         /\ due' \in [Executors -> Nat]
         /\ listed' \in [Executors -> SUBSET Stages]
  BY DEF TypeOK, Leave, Points

LEMMA GotoType ==
  ASSUME TypeOK, NEW e \in Executors, NEW from, NEW to \in Points, Goto(e, from, to)
  PROVE  pc' \in [Executors -> Points]
  BY DEF TypeOK, Goto

\* Every step of one executor keeps every variable in its domain.
LEMMA StepTypeOK ==
  ASSUME TypeOK, LoopInv, NEW e \in Executors, Step(e)
  PROVE  TypeOK'
<1>. USE DEF row, durable, locals
<1>. cur[e] \in 0 .. NumStages /\ budget \in Nat /\ due[e] \in Nat
     /\ listed[e] \subseteq Stages
  BY DEF TypeOK
<1>1. CASE ReadCompleted(e)
  BY <1>1 DEF ReadCompleted, TypeOK, Goto, Points, Unguarded
<1>2. CASE ReadBudget(e)
  BY <1>2, NextStageType DEF ReadBudget, TypeOK
<1>3. CASE MarkStageStart(e)
  BY <1>3 DEF MarkStageStart, TypeOK, Goto, Points, Guarded, Statuses
<1>4. ASSUME NEW c \in Costs, Call(e, c)
      PROVE  TypeOK'
  BY <1>4 DEF Call, TypeOK, Goto, Points, Guarded
<1>5. CASE RecordCall(e)
  BY <1>5 DEF RecordCall, TypeOK, Goto, Points, Guarded
<1>6. CASE FinishTask(e)
  BY <1>6 DEF FinishTask, TypeOK, Goto, Points, Guarded, Statuses
<1>7. CASE SelectCheckpoint(e)
  BY <1>7 DEF SelectCheckpoint, TypeOK, Goto, Points, Guarded
<1>8. CASE InsertCheckpoint(e)
  <2>1. cur[e] \in Stages
    BY <1>8 DEF InsertCheckpoint, LoopInv, ExecutorInv, Goto, Guarded
  <2>. QED
    BY <2>1, <1>8 DEF InsertCheckpoint, TypeOK, Goto, Points, Guarded
<1>9. CASE InsertConflict(e)
  BY <1>9 DEF InsertConflict, TypeOK, Goto, Points, Unguarded
<1>10. CASE UpdateCheckpoint(e)
  BY <1>10 DEF UpdateCheckpoint, TypeOK, Goto, Points, Guarded
<1>11. CASE ListCheckpoints(e)
  BY <1>11 DEF ListCheckpoints, TypeOK, Goto, Points, Guarded
<1>12. CASE WriteMirror(e)
  <2>1. pc' \in [Executors -> Points] /\ cur' \in [Executors -> 0 .. NumStages]
    BY <1>12, NextStageType DEF WriteMirror, TypeOK, Goto, Points, Guarded
  <2>. QED
    BY <2>1, <1>12 DEF WriteMirror, TypeOK
<1>13. CASE CheckBreaker(e)
  <2>1. pc' \in [Executors -> Points] /\ cur' \in [Executors -> 0 .. NumStages]
    BY <1>13, NextStageType DEF CheckBreaker, TypeOK, Goto, Points, Unguarded
  <2>. QED
    BY <2>1, <1>13 DEF CheckBreaker, TypeOK
<1>14. CASE Pause(e)
  BY <1>14, LeaveType DEF Pause, TypeOK, Statuses
<1>15. CASE Fail(e)
  BY <1>15, LeaveType DEF Fail, TypeOK, Statuses
<1>16. CASE Finish(e)
  BY <1>16, LeaveType DEF Finish, TypeOK
<1>. QED
  BY <1>1, <1>2, <1>3, <1>4, <1>5, <1>6, <1>7, <1>8, <1>9, <1>10, <1>11,
     <1>12, <1>13, <1>14, <1>15, <1>16 DEF Step

LEMMA NextTypeOK == TypeOK /\ LoopInv /\ [Next]_vars => TypeOK'
<1> SUFFICES ASSUME TypeOK, LoopInv, [Next]_vars PROVE TypeOK'
  OBVIOUS
<1>. USE DEF row, durable, locals
<1>1. ASSUME NEW e \in Executors, Enter(e) PROVE TypeOK'
  BY <1>1 DEF Enter, TypeOK, Goto, Points, Unguarded
<1>2. ASSUME NEW e \in Executors, StageRaises(e) PROVE TypeOK'
  BY <1>2 DEF StageRaises, Fault, TypeOK, Points, Unguarded
<1>3. ASSUME NEW e \in Executors, Vanish(e) PROVE TypeOK'
  BY <1>3, LeaveType DEF Vanish, Fault, TypeOK
<1>4. CASE RaiseBudget
  BY <1>4 DEF RaiseBudget, TypeOK
<1>5. CASE UNCHANGED vars
  BY <1>5 DEF vars, TypeOK
<1>. QED
  BY <1>1, <1>2, <1>3, <1>4, <1>5, StepTypeOK DEF Next


(***************************************************************************)
(* The inductive invariant.                                                *)
(***************************************************************************)
LEMMA InitIInv == Init => IInv
<1> SUFFICES ASSUME Init PROVE IInv
  OBVIOUS
<1>1. LoopInv
  BY DEF Init, LoopInv, ExecutorInv, Guarded
<1>2. /\ CheckpointsArePrefix /\ CompletedMeansStagesDurable
      /\ FailedHasAuditRow /\ MirrorIsDurable /\ MeterNeverOvercounts
  BY DEF Init, CheckpointsArePrefix, CompletedMeansStagesDurable,
         FailedHasAuditRow, MirrorIsDurable, MeterNeverOvercounts
<1>. QED
  BY <1>1, <1>2, InitTypeOK DEF IInv

\* A step of one executor cannot make the others' facts false: checkpoints
\* and the charged total only grow.
LEMMA OthersKeepLoopInv ==
  ASSUME TypeOK, LoopInv, NEW e \in Executors,
         checkpoints \subseteq checkpoints', charged' \in Nat, charged <= charged',
         \A f \in Executors \ {e} :
           /\ pc'[f] = pc[f] /\ cur'[f] = cur[f] /\ completed'[f] = completed[f]
           /\ due'[f] = due[f] /\ listed'[f] = listed[f],
         ExecutorInv(e)'
  PROVE  LoopInv'
<1>1. ASSUME NEW f \in Executors \ {e} PROVE ExecutorInv(f)'
  BY <1>1 DEF TypeOK, LoopInv, ExecutorInv
<1>. QED
  BY <1>1 DEF LoopInv

\* Going to the next stage from s, whose checkpoint exists (or from 0), keeps
\* the facts of LoopInv: everything before the new stage is checkpointed.
LEMMA NextStageLoopInv ==
  ASSUME TypeOK, NEW e \in Executors, NextStage(e),
         completed[e] \subseteq checkpoints,
         \A s \in Stages : s < cur[e] => s \in checkpoints,
         cur[e] = 0 \/ cur[e] \in checkpoints
  PROVE  /\ pc'[e] \in {"finish", "start"}
         /\ pc'[e] = "start" => cur'[e] \in Stages
         /\ \A s \in Stages : s < cur'[e] => s \in checkpoints
         /\ \A f \in Executors \ {e} : pc'[f] = pc[f] /\ cur'[f] = cur[f]
<1>1. \A s \in Stages : s <= cur[e] => s \in checkpoints
  BY DEF TypeOK
<1>2. CASE /\ Remaining(e, cur[e]) = {}
           /\ pc' = [pc EXCEPT ![e] = "finish"]
           /\ UNCHANGED cur
  BY <1>1, <1>2 DEF TypeOK
<1>3. ASSUME NEW t \in Remaining(e, cur[e]),
             \A u \in Remaining(e, cur[e]) : t <= u,
             pc' = [pc EXCEPT ![e] = "start"],
             cur' = [cur EXCEPT ![e] = t]
      PROVE  /\ pc'[e] \in {"finish", "start"}
             /\ pc'[e] = "start" => cur'[e] \in Stages
             /\ \A s \in Stages : s < cur'[e] => s \in checkpoints
             /\ \A f \in Executors \ {e} : pc'[f] = pc[f] /\ cur'[f] = cur[f]
  <2>1. cur'[e] = t /\ pc'[e] = "start" /\ t \in Stages
    BY <1>3 DEF TypeOK, Remaining
  <2>2. ASSUME NEW s \in Stages, s < t PROVE s \in checkpoints
    BY <1>1, <1>3, <2>2 DEF TypeOK, Remaining
  <2>3. \A f \in Executors \ {e} : pc'[f] = pc[f] /\ cur'[f] = cur[f]
    BY <1>3 DEF TypeOK
  <2>. QED
    BY <2>1, <2>2, <2>3
<1>. QED
  BY <1>2, <1>3 DEF NextStage

\* A call that ends leaves an executor with no claim on the checkpoints.
LEMMA LeaveLoopInv ==
  ASSUME TypeOK, LoopInv, NEW e \in Executors, Leave(e),
         UNCHANGED <<checkpoints, charged>>
  PROVE  LoopInv'
<1>1. ExecutorInv(e)'
  BY DEF Leave, TypeOK, ExecutorInv, Guarded
<1>2. \A f \in Executors \ {e} :
        /\ pc'[f] = pc[f] /\ cur'[f] = cur[f] /\ completed'[f] = completed[f]
        /\ due'[f] = due[f] /\ listed'[f] = listed[f]
  BY DEF Leave, TypeOK
<1>. QED
  BY <1>1, <1>2, OthersKeepLoopInv DEF TypeOK

\* Every step of one executor preserves the facts about the executors.
LEMMA StepLoopInv ==
  ASSUME TypeOK, LoopInv, MeterNeverOvercounts, NEW e \in Executors, Step(e)
  PROVE  LoopInv'
<1>. USE DEF row, durable, locals
<1>0. ExecutorInv(e)
  BY DEF LoopInv
<1>. DEFINE Others == \A f \in Executors \ {e} :
              /\ pc'[f] = pc[f] /\ cur'[f] = cur[f]
              /\ completed'[f] = completed[f]
              /\ due'[f] = due[f] /\ listed'[f] = listed[f]
            Grow == /\ checkpoints \subseteq checkpoints'
                    /\ charged' \in Nat /\ charged <= charged'
<1>a. SUFFICES \/ ExecutorInv(e)' /\ Others /\ Grow
               \/ LoopInv'
  BY OthersKeepLoopInv
<1>. USE DEF ExecutorInv
<1>1. CASE ReadCompleted(e)
  BY <1>0, <1>1 DEF ReadCompleted, TypeOK, Goto, Guarded
<1>2. CASE ReadBudget(e)
  <2>1. /\ pc'[e] \in {"finish", "start"}
        /\ pc'[e] = "start" => cur'[e] \in Stages
        /\ \A s \in Stages : s < cur'[e] => s \in checkpoints
        /\ \A f \in Executors \ {e} : pc'[f] = pc[f] /\ cur'[f] = cur[f]
    BY <1>0, <1>2, NextStageLoopInv DEF ReadBudget
  <2>. QED
    BY <1>0, <1>2, <2>1 DEF ReadBudget, TypeOK, Guarded
<1>3. CASE MarkStageStart(e)
  BY <1>0, <1>3 DEF MarkStageStart, TypeOK, Goto, Guarded
<1>4. ASSUME NEW c \in Costs, Call(e, c)
      PROVE  ExecutorInv(e)' /\ Others /\ Grow
  BY <1>0, <1>4 DEF Call, TypeOK, Goto, Guarded, MeterNeverOvercounts
<1>5. CASE RecordCall(e)
  BY <1>0, <1>5 DEF RecordCall, TypeOK, Goto, Guarded
<1>6. CASE FinishTask(e)
  BY <1>0, <1>6 DEF FinishTask, TypeOK, Goto, Guarded
<1>7. CASE SelectCheckpoint(e)
  BY <1>0, <1>7 DEF SelectCheckpoint, TypeOK, Goto, Guarded
<1>8. CASE InsertCheckpoint(e)
  BY <1>0, <1>8 DEF InsertCheckpoint, TypeOK, Goto, Guarded
<1>9. CASE InsertConflict(e)
  BY <1>0, <1>9 DEF InsertConflict, TypeOK, Goto, Guarded
<1>10. CASE UpdateCheckpoint(e)
  BY <1>0, <1>10 DEF UpdateCheckpoint, TypeOK, Goto, Guarded
<1>11. CASE ListCheckpoints(e)
  BY <1>0, <1>11 DEF ListCheckpoints, TypeOK, Goto, Guarded
<1>12. CASE WriteMirror(e)
  <2>1. CASE cur[e] = Trace /\ NextStage(e)
    <3>1. /\ pc'[e] \in {"finish", "start"}
          /\ pc'[e] = "start" => cur'[e] \in Stages
          /\ \A s \in Stages : s < cur'[e] => s \in checkpoints
          /\ \A f \in Executors \ {e} : pc'[f] = pc[f] /\ cur'[f] = cur[f]
      BY <1>0, <1>12, <2>1, NextStageLoopInv DEF WriteMirror, Guarded
    <3>. QED
      BY <1>0, <1>12, <3>1 DEF WriteMirror, TypeOK, Guarded
  <2>2. CASE Goto(e, "mirrorWrite", "breaker") /\ UNCHANGED cur
    BY <1>0, <1>12, <2>2 DEF WriteMirror, TypeOK, Goto, Guarded
  <2>. QED
    BY <1>12, <2>1, <2>2 DEF WriteMirror
<1>13. CASE CheckBreaker(e)
  <2>1. CASE NextStage(e)
    <3>1. /\ pc'[e] \in {"finish", "start"}
          /\ pc'[e] = "start" => cur'[e] \in Stages
          /\ \A s \in Stages : s < cur'[e] => s \in checkpoints
          /\ \A f \in Executors \ {e} : pc'[f] = pc[f] /\ cur'[f] = cur[f]
      BY <1>0, <1>13, <2>1, NextStageLoopInv DEF CheckBreaker, Guarded
    <3>. QED
      BY <1>0, <1>13, <3>1 DEF CheckBreaker, TypeOK, Guarded
  <2>2. CASE Goto(e, "breaker", "pausing") /\ UNCHANGED cur
    BY <1>0, <1>13, <2>2 DEF CheckBreaker, TypeOK, Goto, Guarded
  <2>. QED
    BY <1>13, <2>1, <2>2 DEF CheckBreaker
<1>14. CASE Pause(e)
  BY <1>14, LeaveLoopInv DEF Pause
<1>15. CASE Fail(e)
  BY <1>15, LeaveLoopInv DEF Fail
<1>16. CASE Finish(e)
  BY <1>16, LeaveLoopInv DEF Finish
<1>. QED
  BY <1>1, <1>2, <1>3, <1>4, <1>5, <1>6, <1>7, <1>8, <1>9, <1>10, <1>11,
     <1>12, <1>13, <1>14, <1>15, <1>16 DEF Step

LEMMA NextLoopInv ==
  ASSUME TypeOK, LoopInv, MeterNeverOvercounts, [Next]_vars
  PROVE  LoopInv'
<1>. USE DEF row, durable, locals
<1>1. ASSUME NEW e \in Executors, Enter(e) PROVE LoopInv'
  <2>1. ExecutorInv(e)'
    BY <1>1 DEF Enter, TypeOK, LoopInv, ExecutorInv, Goto, Guarded
  <2>. QED
    BY <1>1, <2>1, OthersKeepLoopInv DEF Enter, TypeOK, Goto
<1>2. ASSUME NEW e \in Executors, StageRaises(e) PROVE LoopInv'
  <2>1. ExecutorInv(e)'
    BY <1>2 DEF StageRaises, TypeOK, LoopInv, ExecutorInv, Guarded
  <2>. QED
    BY <1>2, <2>1, OthersKeepLoopInv DEF StageRaises, TypeOK
<1>3. ASSUME NEW e \in Executors, Vanish(e) PROVE LoopInv'
  BY <1>3, LeaveLoopInv DEF Vanish
<1>4. CASE RaiseBudget
  BY <1>4 DEF RaiseBudget, LoopInv, ExecutorInv
<1>5. CASE UNCHANGED vars
  BY <1>5 DEF vars, LoopInv, ExecutorInv
<1>. QED
  BY <1>1, <1>2, <1>3, <1>4, <1>5, StepLoopInv DEF Next

(***************************************************************************)
(* The steps that touch what the safety properties speak about.            *)
(***************************************************************************)

\* How one step changes the checkpoints: it adds none, or the next one.
LEMMA CheckpointStep ==
  ASSUME TypeOK, LoopInv, [Next]_vars
  PROVE  \/ checkpoints' = checkpoints
         \/ \E s \in Stages : /\ s \notin checkpoints
                              /\ \A t \in Stages : t < s => t \in checkpoints
                              /\ checkpoints' = checkpoints \cup {s}
                              /\ UNCHANGED <<row, mirror>>
<1>. USE DEF row, durable, locals
<1>1. ASSUME NEW e \in Executors, InsertCheckpoint(e)
      PROVE  /\ cur[e] \in Stages /\ cur[e] \notin checkpoints
             /\ \A t \in Stages : t < cur[e] => t \in checkpoints
             /\ checkpoints' = checkpoints \cup {cur[e]}
             /\ UNCHANGED <<row, mirror>>
  BY <1>1 DEF InsertCheckpoint, LoopInv, ExecutorInv, Goto, Guarded
<1>2. ASSUME NEW e \in Executors, Step(e), ~ InsertCheckpoint(e)
      PROVE  checkpoints' = checkpoints
  BY <1>2 DEF Step, ReadCompleted, ReadBudget, MarkStageStart, Call, RecordCall,
       FinishTask, SelectCheckpoint, InsertConflict, UpdateCheckpoint,
       ListCheckpoints, WriteMirror, CheckBreaker, Pause, Fail, Finish
<1>3. ASSUME NEW e \in Executors, Enter(e) \/ StageRaises(e) \/ Vanish(e)
      PROVE  checkpoints' = checkpoints
  BY <1>3 DEF Enter, StageRaises, Vanish
<1>4. CASE RaiseBudget \/ UNCHANGED vars
  BY <1>4 DEF RaiseBudget, vars
<1>. QED
  BY <1>1, <1>2, <1>3, <1>4 DEF Next

\* How one step changes the outcome the run shows.
LEMMA OutcomeStep ==
  ASSUME TypeOK, LoopInv, [Next]_vars
  PROVE  \/ UNCHANGED <<status, failedRows>>
         \/ status' = "active" /\ UNCHANGED <<failedRows, checkpoints>>
         \/ /\ status' = "completed" /\ Stages \ {Trace} \subseteq checkpoints
            /\ UNCHANGED <<failedRows, checkpoints>>
         \/ /\ status' = "paused" /\ checkpoints # {}
            /\ UNCHANGED <<failedRows, checkpoints>>
         \/ /\ status' = "failed" /\ failedRows' = failedRows + 1
            /\ UNCHANGED checkpoints
<1>. USE DEF row, durable, locals
<1>1. ASSUME NEW e \in Executors, MarkStageStart(e)
      PROVE  status' = "active" /\ UNCHANGED <<failedRows, checkpoints>>
  BY <1>1 DEF MarkStageStart
<1>2. ASSUME NEW e \in Executors, FinishTask(e)
      PROVE  \/ UNCHANGED <<status, failedRows>>
             \/ /\ status' = "completed" /\ Stages \ {Trace} \subseteq checkpoints
                /\ UNCHANGED <<failedRows, checkpoints>>
  <2>1. CASE cur[e] = Trace
    <3>1. \A s \in Stages : s < Trace => s \in checkpoints
      BY <2>1 DEF LoopInv, ExecutorInv
    <3>. QED
      BY <1>2, <2>1, <3>1 DEF FinishTask
  <2>. QED
    BY <1>2, <2>1 DEF FinishTask
<1>3. ASSUME NEW e \in Executors, Pause(e)
      PROVE  /\ status' = "paused" /\ checkpoints # {}
             /\ UNCHANGED <<failedRows, checkpoints>>
  BY <1>3 DEF Pause, LoopInv, ExecutorInv
<1>4. ASSUME NEW e \in Executors, Fail(e)
      PROVE  /\ status' = "failed" /\ failedRows' = failedRows + 1
             /\ UNCHANGED checkpoints
  BY <1>4 DEF Fail
<1>5. ASSUME NEW e \in Executors, Step(e), ~ MarkStageStart(e),
             ~ FinishTask(e), ~ Pause(e), ~ Fail(e)
      PROVE  UNCHANGED <<status, failedRows>>
  BY <1>5 DEF Step, ReadCompleted, ReadBudget, Call, RecordCall,
       SelectCheckpoint, InsertCheckpoint, InsertConflict, UpdateCheckpoint,
       ListCheckpoints, WriteMirror, CheckBreaker, Finish
<1>6. ASSUME NEW e \in Executors, Enter(e) \/ StageRaises(e) \/ Vanish(e)
      PROVE  UNCHANGED <<status, failedRows>>
  BY <1>6 DEF Enter, StageRaises, Vanish
<1>7. CASE RaiseBudget \/ UNCHANGED vars
  BY <1>7 DEF RaiseBudget, vars
<1>. QED
  BY <1>1, <1>2, <1>3, <1>4, <1>5, <1>6, <1>7 DEF Next

\* The mirror is written from a set the executor read earlier.
LEMMA MirrorStep ==
  ASSUME TypeOK, LoopInv, MirrorIsDurable, [Next]_vars
  PROVE  MirrorIsDurable'
<1>. USE DEF row, durable, locals, MirrorIsDurable
<1>1. ASSUME NEW e \in Executors, WriteMirror(e) PROVE MirrorIsDurable'
  BY <1>1 DEF WriteMirror, LoopInv, ExecutorInv
<1>2. ASSUME NEW e \in Executors, Step(e), ~ WriteMirror(e) PROVE mirror' = mirror
  BY <1>2 DEF Step, ReadCompleted, ReadBudget, MarkStageStart, Call, RecordCall,
       FinishTask, SelectCheckpoint, InsertCheckpoint, InsertConflict,
       UpdateCheckpoint, ListCheckpoints, CheckBreaker, Pause, Fail, Finish
<1>3. ASSUME NEW e \in Executors, Enter(e) \/ StageRaises(e) \/ Vanish(e)
      PROVE  mirror' = mirror
  BY <1>3 DEF Enter, StageRaises, Vanish
<1>4. CASE RaiseBudget \/ UNCHANGED vars
  BY <1>4 DEF RaiseBudget, vars
<1>5. checkpoints \subseteq checkpoints'
  BY CheckpointStep
<1>. QED
  BY <1>1, <1>2, <1>3, <1>4, <1>5 DEF Next

\* The meter is written with a total that was charged when it was computed.
LEMMA MeterStep ==
  ASSUME TypeOK, LoopInv, MeterNeverOvercounts, [Next]_vars
  PROVE  MeterNeverOvercounts'
<1>. USE DEF row, durable, locals, MeterNeverOvercounts
<1>1. ASSUME NEW e \in Executors, RecordCall(e) PROVE MeterNeverOvercounts'
  BY <1>1 DEF RecordCall, LoopInv, ExecutorInv
<1>2. ASSUME NEW e \in Executors, NEW c \in Costs, Call(e, c)
      PROVE  MeterNeverOvercounts'
  BY <1>2 DEF Call, TypeOK
<1>3. ASSUME NEW e \in Executors, Step(e), ~ RecordCall(e),
             ~ (\E c \in Costs : Call(e, c))
      PROVE  UNCHANGED <<spent, charged>>
  BY <1>3 DEF Step, ReadCompleted, ReadBudget, MarkStageStart, FinishTask,
       SelectCheckpoint, InsertCheckpoint, InsertConflict, UpdateCheckpoint,
       ListCheckpoints, WriteMirror, CheckBreaker, Pause, Fail, Finish
<1>4. ASSUME NEW e \in Executors, Enter(e) \/ StageRaises(e) \/ Vanish(e)
      PROVE  UNCHANGED <<spent, charged>>
  BY <1>4 DEF Enter, StageRaises, Vanish
<1>5. CASE RaiseBudget \/ UNCHANGED vars
  BY <1>5 DEF RaiseBudget, vars
<1>. QED
  BY <1>1, <1>2, <1>3, <1>4, <1>5 DEF Next

LEMMA NextIInv == IInv /\ [Next]_vars => IInv'
<1> SUFFICES ASSUME IInv, [Next]_vars PROVE IInv'
  OBVIOUS
<1>. USE DEF IInv
<1>1. CheckpointsArePrefix'
  BY CheckpointStep DEF CheckpointsArePrefix
<1>2. CompletedMeansStagesDurable'
  BY OutcomeStep, CheckpointStep DEF CompletedMeansStagesDurable, row
<1>3. FailedHasAuditRow'
  BY OutcomeStep DEF FailedHasAuditRow, TypeOK
<1>. QED
  BY <1>1, <1>2, <1>3, NextTypeOK, NextLoopInv, MirrorStep, MeterStep

LEMMA InductiveInvariant == Spec => []IInv
  BY InitIInv, NextIInv, PTL DEF Spec

(***************************************************************************)
(* The theorems.                                                           *)
(***************************************************************************)

\* Every variable keeps its type in every execution.
THEOREM TypeCorrect == Spec => []TypeOK
<1>1. IInv => TypeOK
  BY DEF IInv
<1>. QED
  BY <1>1, InductiveInvariant, PTL

\* Whatever executors race or crash, the checkpoints have no hole, and a
\* completed run has every stage before trace on disk.
THEOREM CheckpointSafety ==
  Spec => [](CheckpointsArePrefix /\ CompletedMeansStagesDurable)
<1>1. IInv => CheckpointsArePrefix /\ CompletedMeansStagesDurable
  BY DEF IInv
<1>. QED
  BY <1>1, InductiveInvariant, PTL

\* A failed run has its audit row, the mirror names only durable stages and
\* the meter never shows more than was charged.
THEOREM RowSafety ==
  Spec => [](FailedHasAuditRow /\ MirrorIsDurable /\ MeterNeverOvercounts)
<1>1. IInv => FailedHasAuditRow /\ MirrorIsDurable /\ MeterNeverOvercounts
  BY DEF IInv
<1>. QED
  BY <1>1, InductiveInvariant, PTL

\* Every step maps to a step of the durable job or leaves it as it is: a new
\* checkpoint to Commit, a write of the status to the action that shows it.
LEMMA StepRefines == IInv /\ [Next]_vars => [Job!Next]_(Job!jobVars)
<1> SUFFICES ASSUME IInv, [Next]_vars PROVE [Job!Next]_(Job!jobVars)
  OBVIOUS
<1>. USE DEF Job!jobVars, Job!Next, IInv
<1>1. TypeOK /\ LoopInv
  BY DEF IInv
<1>2. CASE UNCHANGED <<status, failedRows>> /\ checkpoints' # checkpoints
  <2>1. PICK s \in Stages : /\ s \notin checkpoints
                            /\ \A t \in Stages : t < s => t \in checkpoints
                            /\ checkpoints' = checkpoints \cup {s}
    BY <1>1, <1>2, CheckpointStep
  <2>2. 1 .. (s - 1) \subseteq checkpoints
    BY <2>1
  <2>3. Job!Commit
    BY <1>2, <2>1, <2>2 DEF Job!Commit, Job!Steps
  <2>. QED
    BY <2>3
<1>3. CASE UNCHANGED <<status, failedRows, checkpoints>>
  BY <1>3
<1>4. CASE status' = "active" /\ UNCHANGED <<failedRows, checkpoints>>
  BY <1>4 DEF Job!Work
<1>5. CASE /\ status' = "completed" /\ Stages \ {Trace} \subseteq checkpoints
           /\ UNCHANGED <<failedRows, checkpoints>>
  BY <1>5 DEF Job!Complete, Job!Steps
<1>6. CASE /\ status' = "paused" /\ checkpoints # {}
           /\ UNCHANGED <<failedRows, checkpoints>>
  BY <1>6 DEF Job!Pause
<1>7. CASE /\ status' = "failed" /\ failedRows' = failedRows + 1
           /\ UNCHANGED checkpoints
  <2>1. failedRows' > 0
    BY <1>1, <1>7 DEF TypeOK
  <2>. QED
    BY <1>7, <2>1 DEF Job!Fail
<1>. QED
  BY <1>1, <1>2, <1>3, <1>4, <1>5, <1>6, <1>7, OutcomeStep

\* The run implements the abstract durable job: stages become durable one at
\* a time, in order and for good, and outcomes are shown only when backed.
THEOREM Refinement == Spec => ImplementsDurableJob
<1>1. Init => Job!Init
  BY DEF Init, Job!Init
<1>. QED
  BY <1>1, StepRefines, InductiveInvariant, PTL
     DEF Spec, ImplementsDurableJob, Job!Spec

(***************************************************************************)
(* One execution at a time.                                                *)
(***************************************************************************)

\* With no execution but e, what e has read stays true of the stages ahead:
\* those that have a checkpoint are the ones it skips.
SoleInv(e) ==
  /\ pc[e] \in Points \ {"idle", "enter"} =>
       \A s \in checkpoints : s > cur[e] => s \in completed[e]
  /\ pc[e] \in {"start", "task", "meter", "save", "insert"} => cur[e] \notin checkpoints

\* The loop moves to a stage without a checkpoint.
LEMMA NextStageSole ==
  ASSUME TypeOK, NEW e \in Executors, SoleInv(e), NextStage(e),
         pc[e] \in Points \ {"idle", "enter"},
         UNCHANGED <<checkpoints, completed>>
  PROVE  SoleInv(e)'
<1>1. CASE Remaining(e, cur[e]) = {} /\ pc' = [pc EXCEPT ![e] = "finish"] /\ UNCHANGED cur
  BY <1>1 DEF SoleInv, TypeOK
<1>2. ASSUME NEW t \in Remaining(e, cur[e]),
             pc' = [pc EXCEPT ![e] = "start"], cur' = [cur EXCEPT ![e] = t]
      PROVE  SoleInv(e)'
  <2>1. t \in Stages /\ t > cur[e] /\ t \notin checkpoints
    BY <1>2 DEF SoleInv, Remaining
  <2>2. \A s \in checkpoints : s > t => s \in completed[e]
    BY <2>1 DEF SoleInv, TypeOK
  <2>. QED
    BY <1>2, <2>1, <2>2 DEF SoleInv, TypeOK
<1>. QED
  BY <1>1, <1>2 DEF NextStage

LEMMA SoleStep ==
  ASSUME NEW e \in Executors, Executors = {e}, TypeOK, LoopInv, SoleInv(e), [Next]_vars
  PROVE  SoleInv(e)'
<1>. USE DEF row, durable, locals
<1>1. CASE ReadBudget(e)
  BY <1>1, NextStageSole DEF ReadBudget, Points, Unguarded
<1>2. CASE WriteMirror(e) \/ CheckBreaker(e)
  <2>1. CASE NextStage(e)
    BY <1>2, <2>1, NextStageSole DEF WriteMirror, CheckBreaker, Points, Guarded
  <2>2. CASE UNCHANGED cur /\ pc' \in {[pc EXCEPT ![e] = "breaker"], [pc EXCEPT ![e] = "pausing"]}
    BY <1>2, <2>2 DEF WriteMirror, CheckBreaker, SoleInv, TypeOK, Points, Guarded
  <2>. QED
    BY <1>2, <2>1, <2>2 DEF WriteMirror, CheckBreaker, Goto
<1>3. CASE InsertCheckpoint(e)
  BY <1>3 DEF InsertCheckpoint, Goto, SoleInv, LoopInv, ExecutorInv, TypeOK, Points, Guarded
<1>4. CASE ReadCompleted(e) \/ MarkStageStart(e) \/ SelectCheckpoint(e) \/ InsertConflict(e)
  BY <1>4 DEF ReadCompleted, MarkStageStart, SelectCheckpoint, InsertConflict,
              Goto, SoleInv, TypeOK, Points, Guarded, Unguarded
<1>5. ASSUME NEW c \in Costs, Call(e, c) PROVE SoleInv(e)'
  BY <1>5 DEF Call, Goto, SoleInv, TypeOK, Points, Guarded
<1>6. CASE RecordCall(e) \/ FinishTask(e)
  BY <1>6 DEF RecordCall, FinishTask, Goto, SoleInv, TypeOK, Points, Guarded
<1>7. CASE UpdateCheckpoint(e) \/ ListCheckpoints(e)
  BY <1>7 DEF UpdateCheckpoint, ListCheckpoints, Goto, SoleInv, TypeOK, Points, Guarded
<1>8. CASE Pause(e) \/ Fail(e) \/ Finish(e) \/ Vanish(e)
  BY <1>8 DEF Pause, Fail, Finish, Vanish, Leave, SoleInv, TypeOK
<1>9. CASE Enter(e) \/ StageRaises(e)
  BY <1>9 DEF Enter, StageRaises, Goto, SoleInv, TypeOK, Points, Guarded
<1>10. CASE RaiseBudget \/ UNCHANGED vars
  BY <1>10 DEF RaiseBudget, vars, SoleInv
<1>. QED
  BY <1>1, <1>2, <1>3, <1>4, <1>5, <1>6, <1>7, <1>8, <1>9, <1>10 DEF Next, Step

\* As long as the executions of a run follow each other, however they end, no
\* stage that has a checkpoint is executed again (checkpoint.py).
THEOREM SoleExecutorNeverReruns ==
  ASSUME NEW e \in Executors, Executors = {e}
  PROVE  Spec => []NoCompletedStageRerun
<1>1. Init => SoleInv(e)
  BY DEF Init, SoleInv
<1>2. IInv /\ SoleInv(e) /\ [Next]_vars => SoleInv(e)'
  BY SoleStep DEF IInv
<1>3. SoleInv(e) => NoCompletedStageRerun
  BY DEF SoleInv, NoCompletedStageRerun
<1>. QED
  BY <1>1, <1>2, <1>3, InductiveInvariant, PTL DEF Spec
=============================================================================
