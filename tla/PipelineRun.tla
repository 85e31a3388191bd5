---------------------------- MODULE PipelineRun ----------------------------
(***************************************************************************)
(* One research run executed by app/pipeline/flows.py.                     *)
(*                                                                         *)
(* The shared state is the run's database rows: the status and stage of    *)
(* its `runs' row, its budget and metered spend, the `checkpoints' rows,   *)
(* their mirror in runs.checkpoint and the run.failed rows of the audit    *)
(* trace.  Each executor is one call of research_pipeline or               *)
(* resume_pipeline; nothing in the code keeps two of them from executing   *)
(* the same run, so Executors may hold more than one.  Every database      *)
(* session that commits, and every read whose result is used after an      *)
(* await, is a step of its own.                                            *)
(*                                                                         *)
(* A stage is its index in STAGES.  The statuses of STAGE_STATUS are       *)
(* written together with runs.stage and are in bijection with the stages,  *)
(* so they are one value, "active", read with rowStage; runs.progress is   *)
(* a function of rowStage and is left out.                                 *)
(***************************************************************************)
EXTENDS Naturals

CONSTANTS
  NumStages,   \* Len(STAGES); the last stage is trace
  LlmStages,   \* the stages whose task makes metered LLM calls
  Executors,   \* the flow runs that may execute this run
  Costs,       \* costs of one LLM call, in units of the meter's rounding
  Budgets,     \* the values runs.cost_budget_usd may take
  MaxCharge,   \* bound: total cost of the LLM calls made
  MaxFaults    \* bound: failed operations and crashes

Stages == 1 .. NumStages
Trace == NumStages
Done == NumStages + 1         \* runs.stage = "done"

ASSUME StagesAssumption == NumStages \in Nat \ {0}
ASSUME LlmAssumption == LlmStages \subseteq Stages \ {Trace}
ASSUME MoneyAssumption ==
  Costs \subseteq Nat /\ Budgets \subseteq Nat /\ Budgets # {}
ASSUME BoundsAssumption == MaxCharge \in Nat /\ MaxFaults \in Nat

VARIABLES
  status,      \* runs.status
  rowStage,    \* runs.stage, 0 while it is NULL
  checkpoints, \* the stages that have a checkpoints row
  mirror,      \* runs.checkpoint["completed_stages"]
  spent,       \* runs.cost_spent_usd
  budget,      \* runs.cost_budget_usd
  failedRows,  \* number of run.failed rows in the audit trace
  pc,          \* where each executor is in _execute_stages
  cur,         \* its loop variable `stage', 0 before the loop
  completed,   \* its set `completed', read once
  runBudget,   \* its `run_budget', read once
  due,         \* the total record_call is about to write
  listed,      \* the stages _mark_checkpoint has read
  charged,     \* history: cost of every LLM call made so far
  faults       \* number of faults so far

row == <<status, rowStage, spent, budget, failedRows>>
durable == <<checkpoints, mirror>>
locals == <<cur, completed, runBudget, due, listed>>
vars == <<row, durable, pc, locals, charged, faults>>

Statuses == {"submitted", "active", "completed", "failed", "paused"}

\* Inside the try block of _execute_stages.
Guarded == {"start", "task", "meter", "save", "insert", "update",
            "mirrorRead", "mirrorWrite", "breaker"}
\* Before it, and in its handlers.
Unguarded == {"enter", "readBudget", "pausing", "failing"}
Points == {"idle", "finish"} \cup Guarded \cup Unguarded

Init ==
  /\ status = "submitted" /\ rowStage = 0
  /\ checkpoints = {} /\ mirror = {}
  /\ spent = 0 /\ budget \in Budgets
  /\ failedRows = 0
  /\ pc = [e \in Executors |-> "idle"]
  /\ cur = [e \in Executors |-> 0]
  /\ completed = [e \in Executors |-> {}]
  /\ runBudget = [e \in Executors |-> 0]
  /\ due = [e \in Executors |-> 0]
  /\ listed = [e \in Executors |-> {}]
  /\ charged = 0 /\ faults = 0

-----------------------------------------------------------------------------
(* Control helpers *)

Goto(e, from, to) == pc[e] = from /\ pc' = [pc EXCEPT ![e] = to]

\* The executor's call ends; its local state is gone.
Leave(e) ==
  /\ pc' = [pc EXCEPT ![e] = "idle"]
  /\ cur' = [cur EXCEPT ![e] = 0]
  /\ completed' = [completed EXCEPT ![e] = {}]
  /\ runBudget' = [runBudget EXCEPT ![e] = 0]
  /\ due' = [due EXCEPT ![e] = 0]
  /\ listed' = [listed EXCEPT ![e] = {}]

\* Mutant: the range of the loop is one too long.
Remaining_OneMore(e, s) == {t \in 1 .. Done : t > s /\ t \notin completed[e]}

\* The stages the loop still has to run: those after s without a checkpoint
\* in the set the executor read on entry.
Remaining(e, s) == {t \in Stages : t > s /\ t \notin completed[e]}

\* Mutant: the remaining stages are run from the last to the first.
NextStage_Backwards(e) ==
  LET rest == Remaining(e, cur[e])
  IN  \/ /\ rest = {}
         /\ pc' = [pc EXCEPT ![e] = "finish"]
         /\ UNCHANGED cur
      \/ \E s \in rest :
           /\ \A t \in rest : t <= s
           /\ pc' = [pc EXCEPT ![e] = "start"]
           /\ cur' = [cur EXCEPT ![e] = s]

\* for stage in STAGES: skip the completed ones, or leave the loop.
NextStage(e) ==
  LET rest == Remaining(e, cur[e])
  IN  \/ /\ rest = {}
         /\ pc' = [pc EXCEPT ![e] = "finish"]
         /\ UNCHANGED cur
      \/ \E s \in rest :
           /\ \A t \in rest : s <= t
           /\ pc' = [pc EXCEPT ![e] = "start"]
           /\ cur' = [cur EXCEPT ![e] = s]

Fault == faults < MaxFaults /\ faults' = faults + 1

\* CircuitBreaker.check: the run budget first, then a stage's fraction (one
\* tenth) of it; both compare the spend of the whole run.
StageFraction == 10
Breached(amount, cap) == amount > cap \/ StageFraction * amount > cap

-----------------------------------------------------------------------------
(* The flow *)

\* research_pipeline or resume_pipeline is called; neither looks at the status.
Enter(e) ==
  /\ Goto(e, "idle", "enter")
  /\ UNCHANGED <<row, durable, locals, charged, faults>>

ReadCompleted(e) ==
  /\ Goto(e, "enter", "readBudget")
  /\ completed' = [completed EXCEPT ![e] = checkpoints]
  /\ UNCHANGED <<row, durable, cur, runBudget, due, listed, charged, faults>>

\* Mutant: the breaker is also consulted before the first stage.
ReadBudget_ChecksFirst(e) ==
  /\ pc[e] = "readBudget"
  /\ runBudget' = [runBudget EXCEPT ![e] = budget]
  /\ \/ ~ Breached(spent, budget) /\ NextStage(e)
     \/ /\ Breached(spent, budget)
        /\ Goto(e, "readBudget", "pausing")
        /\ UNCHANGED cur
  /\ UNCHANGED <<row, durable, completed, due, listed, charged, faults>>

ReadBudget(e) ==
  /\ pc[e] = "readBudget"
  /\ runBudget' = [runBudget EXCEPT ![e] = budget]
  /\ NextStage(e)
  /\ UNCHANGED <<row, durable, completed, due, listed, charged, faults>>

\* Mutant: only the stage is published.
MarkStageStart_StageOnly(e) ==
  /\ Goto(e, "start", "task")
  /\ rowStage' = cur[e]
  /\ UNCHANGED <<status, spent, budget, failedRows, durable, locals, charged,
                 faults>>

MarkStageStart(e) ==
  /\ Goto(e, "start", "task")
  /\ status' = "active"
  /\ rowStage' = cur[e]
  /\ UNCHANGED <<spent, budget, failedRows, durable, locals, charged, faults>>

\* An LLM call of the stage returns and record_call loads the run's spend.
Call(e, c) ==
  /\ cur[e] \in LlmStages
  /\ charged + c <= MaxCharge
  /\ Goto(e, "task", "meter")
  /\ due' = [due EXCEPT ![e] = spent + c]
  /\ charged' = charged + c
  /\ UNCHANGED <<row, durable, cur, completed, runBudget, listed, faults>>

\* Mutant: the loaded total is added to the row's total.
RecordCall_AddsTotal(e) ==
  /\ Goto(e, "meter", "task")
  /\ spent' = spent + due[e]
  /\ due' = [due EXCEPT ![e] = 0]
  /\ UNCHANGED <<status, rowStage, budget, failedRows, durable,
                 cur, completed, runBudget, listed, charged, faults>>

\* record_call commits the total computed from the value it loaded.
RecordCall(e) ==
  /\ Goto(e, "meter", "task")
  /\ spent' = due[e]
  /\ due' = [due EXCEPT ![e] = 0]
  /\ UNCHANGED <<status, rowStage, budget, failedRows, durable,
                 cur, completed, runBudget, listed, charged, faults>>

\* Mutant: the stage before trace finalizes the run as well.
FinishTask_Early(e) ==
  /\ Goto(e, "task", "save")
  /\ \/ /\ cur[e] + 1 < Trace
        /\ UNCHANGED <<status, rowStage>>
     \/ /\ cur[e] + 1 >= Trace
        /\ status' = "completed"
        /\ rowStage' = Done
  /\ UNCHANGED <<spent, budget, failedRows, durable, locals, charged, faults>>

\* The task returns ok; trace has finalized the run row before it does.
FinishTask(e) ==
  /\ Goto(e, "task", "save")
  /\ \/ /\ cur[e] # Trace
        /\ UNCHANGED <<status, rowStage>>
     \/ /\ cur[e] = Trace
        /\ status' = "completed"
        /\ rowStage' = Done
  /\ UNCHANGED <<spent, budget, failedRows, durable, locals, charged, faults>>

\* CheckpointStore.save selects the row, then inserts or updates it.
SelectCheckpoint(e) ==
  /\ pc[e] = "save"
  /\ \/ cur[e] \in checkpoints /\ Goto(e, "save", "update")
     \/ cur[e] \notin checkpoints /\ Goto(e, "save", "insert")
  /\ UNCHANGED <<row, durable, locals, charged, faults>>

\* Mutant: one checkpoint row per run, replaced by every stage.
InsertCheckpoint_Replaces(e) ==
  /\ Goto(e, "insert", "mirrorRead")
  /\ cur[e] \notin checkpoints
  /\ checkpoints' = {cur[e]}
  /\ UNCHANGED <<row, mirror, locals, charged, faults>>

InsertCheckpoint(e) ==
  /\ Goto(e, "insert", "mirrorRead")
  /\ cur[e] \notin checkpoints
  /\ checkpoints' = checkpoints \cup {cur[e]}
  /\ UNCHANGED <<row, mirror, locals, charged, faults>>

\* uq_checkpoints_run_stage: another executor inserted the row first.
InsertConflict(e) ==
  /\ Goto(e, "insert", "failing")
  /\ cur[e] \in checkpoints
  /\ UNCHANGED <<row, durable, locals, charged, faults>>

\* Only the row's state changes, not the set of checkpointed stages.
UpdateCheckpoint(e) ==
  /\ Goto(e, "update", "mirrorRead")
  /\ UNCHANGED <<row, durable, locals, charged, faults>>

\* Mutant: the mirror is derived from runs.stage.
ListCheckpoints_FromRow(e) ==
  /\ Goto(e, "mirrorRead", "mirrorWrite")
  /\ listed' = [listed EXCEPT ![e] = Stages \cap (1 .. rowStage)]
  /\ UNCHANGED <<row, durable, cur, completed, runBudget, due, charged, faults>>

\* _mark_checkpoint reads the checkpointed stages, then writes the mirror.
ListCheckpoints(e) ==
  /\ Goto(e, "mirrorRead", "mirrorWrite")
  /\ listed' = [listed EXCEPT ![e] = checkpoints]
  /\ UNCHANGED <<row, durable, cur, completed, runBudget, due, charged, faults>>

WriteMirror(e) ==
  /\ pc[e] = "mirrorWrite"
  /\ mirror' = listed[e]
  /\ listed' = [listed EXCEPT ![e] = {}]
  /\ \/ cur[e] = Trace /\ NextStage(e)
     \/ cur[e] # Trace /\ Goto(e, "mirrorWrite", "breaker") /\ UNCHANGED cur
  /\ UNCHANGED <<row, checkpoints, completed, runBudget, due, charged, faults>>

\* Mutant: a breach waits for a raised budget.
CheckBreaker_Waits(e) ==
  /\ pc[e] = "breaker"
  /\ ~ Breached(spent, runBudget[e])
  /\ NextStage(e)
  /\ UNCHANGED <<row, durable, completed, runBudget, due, listed, charged, faults>>

CheckBreaker(e) ==
  /\ pc[e] = "breaker"
  /\ \/ /\ Breached(spent, runBudget[e])
        /\ Goto(e, "breaker", "pausing")
        /\ UNCHANGED cur
     \/ /\ ~ Breached(spent, runBudget[e])
        /\ NextStage(e)
  /\ UNCHANGED <<row, durable, completed, runBudget, due, listed, charged, faults>>

\* except CircuitBreakerError: the run is paused and the flow returns.
Pause(e) ==
  /\ pc[e] = "pausing"
  /\ status' = "paused"
  /\ Leave(e)
  /\ UNCHANGED <<rowStage, spent, budget, failedRows, durable, charged, faults>>

\* except Exception: status and audit row in one commit, then re-raise.
Fail(e) ==
  /\ pc[e] = "failing"
  /\ status' = "failed"
  /\ failedRows' = failedRows + 1
  /\ Leave(e)
  /\ UNCHANGED <<rowStage, spent, budget, durable, charged, faults>>

\* The loop is over: run_completed is emitted and "completed" returned.
Finish(e) ==
  /\ pc[e] = "finish"
  /\ Leave(e)
  /\ UNCHANGED <<row, durable, charged, faults>>

-----------------------------------------------------------------------------
(* Faults and the environment *)

\* An exception inside the try block: a stage, the database, a service.
StageRaises(e) ==
  /\ Fault
  /\ pc[e] \in Guarded
  /\ pc' = [pc EXCEPT ![e] = "failing"]
  /\ UNCHANGED <<row, durable, locals, charged>>

\* An exception before the try block or in a handler, and a killed process
\* or cancelled task anywhere: the call ends and nothing is written.
Vanish(e) ==
  /\ Fault
  /\ pc[e] # "idle"
  /\ Leave(e)
  /\ UNCHANGED <<row, durable, charged>>

\* The operator raises the cap of a paused run, as the breaker's text expects.
RaiseBudget ==
  /\ status = "paused"
  /\ \E b \in Budgets : b > budget /\ budget' = b
  /\ UNCHANGED <<status, rowStage, spent, failedRows, durable, pc, locals,
                 charged, faults>>

-----------------------------------------------------------------------------

Step(e) ==
  \/ ReadCompleted(e) \/ ReadBudget(e) \/ MarkStageStart(e)
  \/ (\E c \in Costs : Call(e, c)) \/ RecordCall(e) \/ FinishTask(e)
  \/ SelectCheckpoint(e) \/ InsertCheckpoint(e) \/ InsertConflict(e)
  \/ UpdateCheckpoint(e) \/ ListCheckpoints(e) \/ WriteMirror(e)
  \/ CheckBreaker(e) \/ Pause(e) \/ Fail(e) \/ Finish(e)

Next ==
  \/ \E e \in Executors : Enter(e) \/ Step(e) \/ StageRaises(e) \/ Vanish(e)
  \/ RaiseBudget

Spec == Init /\ [][Next]_vars

\* A running flow keeps taking steps: its awaits return (the LLM and HTTP
\* clients have timeouts) and the event loop schedules it.
FlowFairness == \A e \in Executors : WF_vars(Step(e))

\* Somebody keeps calling resume; an assumption about the API's users.
ResumeFairness == \A e \in Executors : WF_vars(Enter(e))

FairSpec == Spec /\ FlowFairness
ResumedSpec == FairSpec /\ ResumeFairness

-----------------------------------------------------------------------------
(* Properties of every execution, however many executors there are *)

\* Every variable stays in the domain the code gives it.
TypeOK ==
  /\ status \in Statuses
  /\ rowStage \in 0 .. Done
  /\ checkpoints \subseteq Stages
  /\ mirror \subseteq Stages
  /\ spent \in Nat
  /\ budget \in Budgets
  /\ failedRows \in Nat
  /\ pc \in [Executors -> Points]
  /\ cur \in [Executors -> 0 .. NumStages]
  /\ completed \in [Executors -> SUBSET Stages]
  /\ runBudget \in [Executors -> Nat]
  /\ due \in [Executors -> Nat]
  /\ listed \in [Executors -> SUBSET Stages]
  /\ charged \in Nat
  /\ faults \in 0 .. MaxFaults

\* A checkpointed stage's predecessors are checkpointed: crashes, conflicting
\* inserts and racing executors never leave a hole that a resume would skip
\* (the loop of _execute_stages trusts the set it read once).
CheckpointsArePrefix ==
  \A s, t \in Stages : t \in checkpoints /\ s <= t => s \in checkpoints

\* trace finalizes the row before its own checkpoint is saved; a run that
\* reads "completed" still has every earlier stage on disk.
CompletedMeansStagesDurable ==
  status = "completed" => Stages \ {Trace} \subseteq checkpoints

\* A failed run has a run.failed audit row: _execute_stages commits the two
\* together, whichever executor fails and whoever fails it again.
FailedHasAuditRow == status = "failed" => failedRows > 0

\* runs.checkpoint, which _mark_checkpoint copies from a set it read before,
\* names only stages whose checkpoint is durable.
MirrorIsDurable == mirror \subseteq checkpoints

\* The meter may lose a cost (crash before commit, lost update) but what it
\* shows was really charged: record_call never counts one call twice.
MeterNeverOvercounts == spent <= charged

\* A checkpointed stage is not executed again: the services behind a durable
\* stage are not re-invoked by a resume (checkpoint.py).  True of executions
\* that follow each other only.
NoCompletedStageRerun ==
  \A e \in Executors : pc[e] \in {"task", "meter"} => cur[e] \notin checkpoints

\* Every call of the flow ends: it pauses, fails, completes or dies.
ExecutionEnds == \A e \in Executors : pc[e] # "idle" ~> pc[e] = "idle"

\* Resumed often enough, a run gets every stage checkpointed whatever its
\* budget and whatever a bounded number of faults interrupted.
EveryStageBecomesDurable == <>[](checkpoints = Stages)

\* A run is a durable job: its checkpoints are the durable steps.
Job == INSTANCE DurableJob WITH
         NumSteps <- NumStages, done <- checkpoints, outcome <- status,
         audited <- failedRows > 0

\* The run implements the durable job: stages become durable in order and for
\* good, completed and failed are shown only with what backs them.
ImplementsDurableJob == Job!Spec

-----------------------------------------------------------------------------
(* The inductive invariant behind the safety properties above *)

\* What an executor's local state says about the checkpoints.  Its reads may
\* be stale, but checkpoints are only added: what it read is still there, the
\* stages before its own are durable, and so is its own once it is saved.
ExecutorInv(e) ==
  /\ completed[e] \subseteq checkpoints
  /\ listed[e] \subseteq checkpoints
  /\ due[e] <= charged
  /\ pc[e] \in {"idle", "enter", "readBudget"} => cur[e] = 0
  /\ pc[e] \in Guarded \cup {"pausing"} => cur[e] \in Stages
  /\ \A s \in Stages : s < cur[e] => s \in checkpoints
  /\ pc[e] \in {"update", "mirrorRead", "mirrorWrite", "breaker", "pausing"}
       => cur[e] \in checkpoints

LoopInv == \A e \in Executors : ExecutorInv(e)

IInv ==
  /\ TypeOK
  /\ LoopInv
  /\ CheckpointsArePrefix
  /\ CompletedMeansStagesDurable
  /\ FailedHasAuditRow
  /\ MirrorIsDurable
  /\ MeterNeverOvercounts

-----------------------------------------------------------------------------
(* What the documents say and an execution can contradict *)

\* "a run may never spend beyond its overall cap" (circuit_breaker.py:39).
SpendWithinBudget == spent <= budget

\* "simulated kill mid-run -> resume completes" (docs/build-plan.md:195).
ResumedRunCompletes == <>[](status = "completed")

\* "Cost metering for LLM calls - accurate" (cost_meter.py:1): when no call is
\* about to be metered and nothing has failed, the meter shows what was charged.
\* Refuted by two executions: each loads the spend before the other commits.
MeterIsAccurate ==
  faults = 0 /\ (\A e \in Executors : pc[e] # "meter") => spent = charged

\* runs.checkpoint never loses a stage that it named (_mark_checkpoint lists the
\* completed ones).  Refuted by two executions: an older list is written last.
MirrorNeverShrinks == [][mirror \subseteq mirror']_mirror
=============================================================================
