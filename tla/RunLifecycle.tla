---------------------------- MODULE RunLifecycle ----------------------------
(***************************************************************************)
(* How a run gets executed: the API's create and resume requests, the      *)
(* DefaultPipelineRunner behind them (app/api/deps.py) and, when           *)
(* PREFECT_API_URL is set, the Prefect queue and the workers.  The         *)
(* executions themselves are those of PipelineRun.                         *)
(*                                                                         *)
(* In-process, a request awaits the flow it starts, so the request is the  *)
(* executor.  In submission mode the request only creates a flow run and   *)
(* the executors are the workers' flow runs.                               *)
(***************************************************************************)
EXTENDS PipelineRun, FiniteSets

CONSTANTS
  Requests,     \* the API requests in flight at a time
  Creator,      \* the request that created the run
  Executes,     \* the values of RunCreate.execute
  Modes,        \* the values of "prefect_api_url is set"
  MaxAsks       \* bound: requests for an execution

ASSUME RequestAssumption ==
  /\ Creator \in Requests
  /\ Executes \subseteq BOOLEAN /\ Executes # {}
  /\ Modes \subseteq BOOLEAN /\ Modes # {}
  /\ FALSE \in Modes => Requests \subseteq Executors
  /\ MaxAsks \in Nat \ {0}

VARIABLES
  submits, \* is this deployment in submission mode?
  req,     \* where each request is in DefaultPipelineRunner
  queue,   \* flow runs waiting in the Prefect queue
  asks,    \* number of executions asked for
  silent,  \* history: has something died without leaving a trace?
  refused  \* history: has a start been given up without leaving a trace?

history == <<silent, refused>>
api == <<submits, req, queue, asks, history>>
lifecycleVars == <<vars, api>>

RequestPoints == {"idle", "run", "resume", "await", "lookup", "write"}

LifecycleInit ==
  /\ Init
  /\ \E execute \in Executes :
       /\ req = [r \in Requests |->
                   IF execute /\ r = Creator THEN "run" ELSE "idle"]
       /\ asks = IF execute THEN 1 ELSE 0
  /\ submits \in Modes
  /\ queue = 0 /\ silent = FALSE /\ refused = FALSE

To(r, to) == req' = [req EXCEPT ![r] = to]

-----------------------------------------------------------------------------
(* Requests *)

\* POST /v1/runs/{id}/resume: the run exists, its status is not looked at.
\* In process the coroutine of a new request is a new executor.
ResumeRequest(r) ==
  /\ req[r] = "idle" /\ asks < MaxAsks
  /\ To(r, "resume")
  /\ asks' = asks + 1
  /\ UNCHANGED <<vars, submits, queue, history>>

\* The services are built and the flow is called and awaited.
StartFlow(r) ==
  /\ ~ submits
  /\ req[r] \in {"run", "resume"}
  /\ To(r, "await")
  /\ Enter(r)
  /\ UNCHANGED <<submits, queue, asks, history>>

\* Mutant: run() does not persist the failure either.
BuildFails_NotPersisted(r) ==
  /\ ~ submits
  /\ Fault
  /\ req[r] \in {"run", "resume"} /\ To(r, "idle")
  /\ UNCHANGED <<row, durable, pc, locals, charged, submits, queue, asks, history>>

\* build_pipeline_services raises; only run() persists the failure.
BuildFails(r) ==
  /\ ~ submits
  /\ Fault
  /\ \/ req[r] = "run" /\ To(r, "lookup") /\ UNCHANGED refused
     \/ req[r] = "resume" /\ To(r, "idle") /\ refused' = TRUE
  /\ UNCHANGED <<row, durable, pc, locals, charged, submits, queue, asks, silent>>

\* The flow returned or raised; the request answers with the row.
FlowReturns(r) ==
  /\ req[r] = "await" /\ pc[r] = "idle"
  /\ To(r, "idle")
  /\ UNCHANGED <<vars, submits, queue, asks, history>>

Submit(r) ==
  /\ submits
  /\ req[r] \in {"run", "resume"}
  /\ To(r, "idle")
  /\ queue' = queue + 1
  /\ UNCHANGED <<vars, submits, asks, history>>

\* Mutant: a failed submission is only logged.
SubmitRaises_NotPersisted(r) ==
  /\ submits
  /\ Fault
  /\ req[r] \in {"run", "resume"}
  /\ To(r, "idle")
  /\ queue' \in {queue, queue + 1}
  /\ UNCHANGED <<row, durable, pc, locals, charged, submits, asks, history>>

\* The client raises: the flow run was not created, or it was and only the
\* answer is missing.
SubmitRaises(r) ==
  /\ submits
  /\ Fault
  /\ req[r] \in {"run", "resume"}
  /\ To(r, "lookup")
  /\ queue' \in {queue, queue + 1}
  /\ UNCHANGED <<row, durable, pc, locals, charged, submits, asks, history>>

-----------------------------------------------------------------------------
(* _persist_start_failure *)

LookUpRun(r) ==
  /\ req[r] = "lookup"
  /\ \/ status = "submitted" /\ To(r, "write")
     \/ status # "submitted" /\ To(r, "idle")
  /\ UNCHANGED <<vars, submits, queue, asks, history>>

\* The status and the audit row of the row loaded before are committed.
PersistFailure(r) ==
  /\ req[r] = "write"
  /\ To(r, "idle")
  /\ status' = "failed"
  /\ failedRows' = failedRows + 1
  /\ UNCHANGED <<rowStage, spent, budget, durable, pc, locals, charged, faults,
                 submits, queue, asks, history>>

\* The database fails: the error is logged and swallowed.
PersistError(r) ==
  /\ Fault
  /\ req[r] \in {"lookup", "write"}
  /\ To(r, "idle")
  /\ silent' = TRUE
  /\ UNCHANGED <<row, durable, pc, locals, charged, submits, queue, asks, refused>>

-----------------------------------------------------------------------------
(* Workers and the executions *)

\* Mutant: the worker leaves the flow run in the queue.
Dequeue_Requeues(e) ==
  /\ submits
  /\ queue > 0
  /\ queue' = queue
  /\ Enter(e)
  /\ UNCHANGED <<submits, req, asks, history>>

\* A worker takes a flow run from the queue and calls research_pipeline.
Dequeue(e) ==
  /\ submits
  /\ queue > 0
  /\ queue' = queue - 1
  /\ Enter(e)
  /\ UNCHANGED <<submits, req, asks, history>>

\* research_pipeline builds the services itself and the factory raises: the
\* flow run fails in Prefect, before any row is touched.
WorkerBuildFails(e) ==
  /\ submits
  /\ Fault
  /\ pc[e] = "enter"
  /\ Leave(e)
  /\ refused' = TRUE
  /\ UNCHANGED <<row, durable, charged, submits, req, queue, asks, silent>>

FlowStep(e) == Step(e) /\ UNCHANGED api
FlowRaises(e) == StageRaises(e) /\ UNCHANGED api

FlowVanishes(e) == Vanish(e) /\ silent' = TRUE /\ UNCHANGED <<submits, req, queue, asks, refused>>

RequestStep(r) ==
  \/ StartFlow(r) \/ FlowReturns(r) \/ Submit(r)
  \/ LookUpRun(r) \/ PersistFailure(r)

LifecycleNext ==
  \/ \E r \in Requests :
       \/ ResumeRequest(r) \/ RequestStep(r)
       \/ BuildFails(r) \/ SubmitRaises(r) \/ PersistError(r)
  \/ \E e \in Executors :
       \/ Dequeue(e) \/ WorkerBuildFails(e)
       \/ FlowStep(e) \/ FlowRaises(e) \/ FlowVanishes(e)

LifecycleSpec == LifecycleInit /\ [][LifecycleNext]_lifecycleVars

\* Requests and flows are scheduled; some worker polls the queue.
FairLifecycle ==
  /\ LifecycleSpec
  /\ \A r \in Requests : WF_lifecycleVars(RequestStep(r))
  /\ \A e \in Executors : WF_lifecycleVars(FlowStep(e))
  /\ WF_lifecycleVars(\E e \in Executors : Dequeue(e))

-----------------------------------------------------------------------------
(* Properties *)

Quiet ==
  /\ \A r \in Requests : req[r] = "idle"
  /\ \A e \in Executors : pc[e] = "idle"
  /\ queue = 0

\* The run's rows and the runner's own state keep their domains, and the queue
\* never holds more flow runs than executions were asked for: submit_flow_run is
\* called at most once per request, whatever its answer.
LifecycleTypeOK ==
  /\ TypeOK
  /\ submits \in Modes
  /\ req \in [Requests -> RequestPoints]
  /\ asks \in 0 .. MaxAsks
  /\ queue \in 0 .. asks
  /\ silent \in BOOLEAN /\ refused \in BOOLEAN

Settled == status \in {"completed", "failed", "paused"}

\* Once everything is at rest, nothing died silently and no start was given
\* up, a run whose execution was asked for shows an outcome.  It takes every
\* handler of the runner and the flow, and the last of several racing
\* executions, to agree.
StartedRunIsSettled ==
  Quiet /\ asks > 0 /\ ~ silent /\ ~ refused => Settled

\* A run that still reads "submitted" has no checkpoint, no spend and no
\* audited failure, whatever was started for it.
SubmittedMeansUntouched ==
  status = "submitted" => checkpoints = {} /\ spent = 0 /\ failedRows = 0

\* Requests return, the queue drains and the flows end.
EverythingComesToRest == <>[]Quiet

\* "If the pipeline can never start (...), the run must transition out of
\* ``submitted``" (deps.py:101): only a crash excuses a run from an outcome.
QuietRunIsSettled == Quiet /\ asks > 0 /\ ~ silent => Settled

\* "Only rows still in submitted are transitioned - a flow that already
\* persisted its own terminal state is left untouched" (deps.py:105).
StartFailureSparesFlows ==
  [][\A r \in Requests : PersistFailure(r) => status = "submitted"]_lifecycleVars
=============================================================================
