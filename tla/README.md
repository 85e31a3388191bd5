# TLA+ verification of the research agent

This directory holds TLA+ models of the research agent under `src/app`, the TLC
configurations that check them on small instances, and TLAPS proofs about all of
them: the durable execution of a run and the requests and workers that start it,
the rows of the stages, the LLM gateway, the chunker, the report endpoints, and the
database that migrations change under its writers.  `PROJECT.json` lists the components,
the runs, the mutants each property is tried on, the source lines behind every
definition, the hazards and the theorems.

- [1. The system](#1-the-system)
- [2. What is hard about it](#2-what-is-hard-about-it)
- [3. The modules](#3-the-modules)
- [4. The runs](#4-the-runs)
- [5. What the proofs show](#5-what-the-proofs-show)
- [6. Known counterexamples](#6-known-counterexamples)
- [7. What is not modelled](#7-what-is-not-modelled)
- [8. Plan](#8-plan)

## 1. The system

A user creates a *run* (`POST /v1/runs`): a question, a budget, perhaps a set of
sources.  A *flow* (`app/pipeline/flows.py`) executes the run's ten stages in
order, each a Prefect task that ends by saving a *checkpoint*:

    define  search  collect  store  extract  verify  find  detect  conclude  trace

A run that is interrupted is resumed (`POST /v1/runs/{id}/resume`): a new flow
executes the stages that have no checkpoint.  The flow runs inside the request,
or, when `PREFECT_API_URL` is set, in a worker that takes submitted flow runs.

| Component | State | Operations | Talks to |
|---|---|---|---|
| flows (`pipeline/flows.py`) | the sets `completed` and `listed` of one execution, read in one session and used in others | `research_pipeline`, `resume_pipeline`, `_execute_stages`, `_mark_stage_start`, `_mark_checkpoint`, `CircuitBreaker.check` | every stage, checkpoint store, the run's row, audit |
| checkpoint store (`pipeline/checkpoint.py`) | rows of `checkpoints`, unique per run and stage | `save`, `load`, `completed_stages` | database |
| stages (`pipeline/stages`) | their part of the rows | one task each, `run_define` to `run_trace` | services, blob store, KV cache |
| cost meter (`services/cost_meter.py`) | `runs.cost_spent_usd` | `record_call`, breaker test | the run's row |
| LLM gateway (`services/llm_gateway.py`) | the process-wide time of the last call | `complete`, rate limiter, retries, quarantine | provider, cost meter, audit |
| run API and runner (`api/routes.py`, `api/deps.py`) | none of their own; the run's row | create, resume, `DefaultPipelineRunner`, `_persist_start_failure` | flows, Prefect |
| worker (`workers/worker.py`) | the queue is Prefect's | takes flow runs, builds services | flows |
| collect, store | rows of `sources`, `passages`; blobs | fetch, filter, normalize | fetcher, blob store, normalizer |
| normalizer (`services/normalizer.py`) | none | text of a page, `chunk_passages` | - |
| extract, verify, find, detect, conclude and their services | rows of `statements`, `evidence_links`, `findings`, `contradictions`, `conclusions`; `report.md` | one transaction per passage, statement, domain, pair, report | LLM gateway, blob store |
| KV cache (`services/kv_cache.py`) | rows of `kv_cache` with an expiry | `get`, `set`, `delete` | its own sessions |
| report and conclusions endpoints (`api/routes.py`) | a connection of the pool, or two | trace artifact, checkpoint, rows, in that order; or conclusions, then their evidence | KV cache, database |
| direct-URL connector (`services/collectors/url.py`) | none | fetch, look the digest up, put the blob, insert source and passages | fetcher, blob store, database |
| migrations (`alembic/versions`) and seed (`db/seed.py`) | the schema, its revision, the default tenant | upgrade and downgrade between three revisions; select and insert the tenant | database |
| tenant resolution (`api/tenant.py`) | none | read the default tenant before a run is inserted | database |
| audit writer, renderer, RSS and search collectors, schemas, telemetry | append-only rows, none, none, none, none | | |

The components interact by *awaited calls* within a flow and by the *shared
database rows* between flows: nothing else coordinates two flows of the same
run, a flow and a request, or two requests.

### Correctness of each component

- **flows and checkpoints**: stages become durable in order and stay so; a run
  shown as completed has all its stages; a failed one has its reason in the
  audit trace; executions that follow each other repeat no durable stage; a run
  that is resumed often enough gets every stage durable.
- **cost meter**: never shows more than was spent, and its rounding error is bounded.
- **runner and workers**: whoever starts a run finds it settled when nothing
  runs any more; a submitted run is untouched; everything comes to rest.
- **collect and store**: a source that a resumed store has normalized has all
  its passages; one row per URL; checkpoints cover the work; resumes finish it,
  unless the search found nothing or a document cannot be parsed.
- **normalizer**: chunks neither lose, repeat nor reorder text, and are within
  the bounds but where the text forces otherwise; splitting ends.
- **knowledge stages**: only statements that were verified, against the passage
  they came from, are cited, with the support the last verdict gave them; every
  conflict confirmed is disclosed with the conclusions it concerns.
- **gateway**: calls of a flow are spaced, retries end, what is metered is what
  was paid up to a bound and to the answers that are given up, of which there are few.
- **report and conclusions endpoints**: a report that is served is one that was
  checkpointed, or nothing is checkpointed; no conclusion is served without its
  evidence; every request is answered while there are connections enough.
- **migrations**: every way to the newest revision ends in the schema the models
  declare; an upgrade never fails on rows the code has stored; no migration takes
  away what append-only history rests on.
- **direct-URL connector**: what a collect returns is whole, and a collect that
  loses a race succeeds when it is called again.

## 2. What is hard about it

- *No lock on a run.*  A resume of a run that is executing starts a second flow.
  Every guard of the form "read, await, write" is a race between the two:
  checkpoint inserts, the mirror, the spend, verdicts, confirmed pairs.
- *Many small commits.*  A stage commits per URL, per passage, per statement, per
  pair.  A crash leaves some of them, and the resumed stage has to know them.
- *Handlers that can fail.*  The failure handler, the start-failure handler and
  the quarantine path write themselves.
- *Errors that come back.*  A document its parser refuses, a blank passage, a run
  without a verified statement, an expired plan: the stage raises at every resume.
- *Stale snapshots.*  Rows are loaded in one session, detached, and used in another.
- *A schema that moves.*  Rows are inserted between a lookup and its use while
  constraints, triggers and tables come and go.
- *Bounds.*  The breaker, the caps on statements and pairs, the retries, the
  connection pool and the expiry of cached artifacts.

`PROJECT.json` lists these as hazards, each at its line, with the properties that
cover it or, where the code does go wrong, with the property that a counterexample
configuration refutes (section 6).

## 3. The modules

    DurableJob  <---implements---  PipelineRun  <--EXTENDS--  RunLifecycle
    EvidenceLedger  <---implements---  EvidenceBase
    IntakeLedger  <---implements---  SourceIntake
    LLMGateway     RunReports
    SchemaMigrations  <--EXTENDS--  ProvenanceStore
    Chunker (with NormalText for the texts it is checked on)

`<Module>Proofs` has the theorems about a module: `PipelineRunProofs`, which
`RunLifecycleProofs` extends, `SourceIntakeProofs`, `EvidenceBaseProofs`,
`LLMGatewayProofs`, `ChunkerProofs`, `RunReportsProofs` and
`ProvenanceStoreProofs`.

The modules cut the system where components meet through rows: `PipelineRun` has
the loop around *any* stage, `SourceIntake` and `EvidenceBase` what the stages
between search and trace do with their rows, `RunReports` the artifacts that pass
from define to search and from conclude to trace and to readers,
`RunLifecycle` who calls the loop, and `ProvenanceStore` the database under all
of them while its schema changes.  `MC<Module>` gives the instances values.

In every module a step is what runs between two awaits whose order can matter:
a transaction that commits, or a read whose result is used after an await.
Sequences of awaits within one session whose effects nobody sees before the
commit are one step.  A crash, and an exception, may come at any step; bounds
on their number are constants.

### PipelineRun (and DurableJob)

The run's rows are `status`, `rowStage`, `budget`, `spent`, `checkpoints`,
`mirror` (`runs.checkpoint`), `failedRows` (audit rows `run.failed`).  `charged`
is a history variable: what the calls really cost.  Each executor is a call of
`research_pipeline` or `resume_pipeline` with its program counter and local
variables `completed`, `listed`, `cur`, `runBudget`, `due`.

| Action | Code |
|---|---|
| `Enter`, `ReadCompleted`, `ReadBudget` | the head of `_execute_stages`; the breaker is not consulted before the loop |
| `MarkStageStart` | `_mark_stage_start` |
| `Call`, `RecordCall` | an LLM call and `CostMeter.record_call`: loads the spend, adds, writes |
| `FinishTask` | a task's return; trace's finalization of the row |
| `SelectCheckpoint`, `InsertCheckpoint`, `InsertConflict`, `UpdateCheckpoint` | `CheckpointStore.save` |
| `ListCheckpoints`, `WriteMirror` | `_mark_checkpoint` |
| `CheckBreaker`, `Pause` | the breaker after a stage (`CircuitBreaker.check`) and the `except CircuitBreakerError` handler of `_execute_stages` |
| `Fail` | its `except Exception` handler: the status and the audit row, in one commit |
| `StageRaises`, `Vanish` | an exception at any await inside the `try`, a crash at any point |
| `RaiseBudget` | a user raises the budget of a paused run |

`DurableJob` is what the loop promises whoever executes it: steps become durable
one at a time and in order, the outcome shown is backed by them, a failure has a
record.  `PipelineRun` implements it under the refinement mapping `done <-
checkpoints`, `outcome <- status`, `audited <- failedRows > 0`, for any number of
executors.

### RunLifecycle

`PipelineRun` with the requests of the API and the queue of flow runs.  `submits`
says whether the deployment submits flow runs to workers.  `ResumeRequest`,
`StartFlow`, `BuildFails`, `FlowReturns` are `DefaultPipelineRunner` in process;
`Submit`, `SubmitRaises` its submission, whose answer may be lost after the flow
run was created; `LookUpRun`, `PersistFailure`, `PersistError` are
`_persist_start_failure`, in its two statements; `Dequeue`, `WorkerBuildFails` the
workers.  Prefect is external: a flow run is taken once.

### SourceIntake and IntakeLedger

Stages collect and store over the rows of `sources`, `passages` and the blobs.
One action per outcome of a URL (`SkipUrl`, `DenyUrl`, `FetchFails`, `FetchUnsafe`,
`FetchSafe`; `Fetchable` is the fetcher's gate), then `RecordSource` or
`RecordConflict` for the transaction;
`BeginStore`, `ReadHashes`, `NormalizeSource`, `NormalizeRaises` for store.
`found` says whether the search found any URL; without one collect raises
(`NoUrls`).  The contents in `Malformed` are those their parser refuses: store
raises on such a blob whenever it comes to it.  A
content hash is modelled by *what is hashed* (the URI, the content, or both),
so that two rows collide exactly when the code's do.

`IntakeLedger` is what the two stages promise: a URL is recorded once, with a digest
nobody else has, before collect is over; a source becomes whole in one step, with
all the passages of its content and none before; nothing recorded changes in any
other way, and each stage ends when its work is done.  `SourceIntake` implements it
until two executions overlap (`ImplementsIntake`): `waiting`, `refused` and `whole`
are the rows by status, `kept` the passages.  URIs, hashes and sources that an
execution read when its stage began do not appear in the ledger.

### EvidenceBase and EvidenceLedger

Stages extract, verify, find, detect, conclude.  Rows are numbered in insertion
order, answers of a model are choices from `Answers`, a claim's lexical support
is `Score`.  The passages in `Blank` have no text to extract from, and extract
raises on them (`ExtractBlank`); without a verified statement conclude does
(`NothingToConclude`).  `JudgeStatement` has the transaction of `Verifier.verify` with the
effect of `session.merge`; `CheckPair` and `JudgePair` the test for a confirmed
pair and the insert after the judges' answers; `GenerateReport`, `WriteMarkdown`,
`CheckpointReport` the three steps of conclude.  A conclusion keeps what it is
shown with: the statements it cites, the score of each (`Support`), the
contradictions that concern it (`Warnings`), and whether it is one-sided and
marked for review.

`EvidenceLedger` is what these stages promise whoever reads the rows, without
executors, caps, snapshots and faults: drafts are added, each is accepted or
refused once and for good, findings rest on accepted statements, a pair is
disputed once, what is published cites accepted statements and carries the
disputes it touches, and no stage writes before or after its turn.
`EvidenceBase` with one execution at a time implements it (`ImplementsLedger`):
`done <- cps`, `drafts`, `accepted`, `refused` are the statements by status,
`published` the conclusions without what the ledger does not promise, `shown`
those of the checkpointed report.  What is read early (a draft's status, the
pairs, the contradictions of a prompt) does not appear there; that it is still
true when it is written is what the refinement shows.

### LLMGateway

`complete()` for flows that share the rate limiter: `Gate`, `Wake`, `Stamp`,
`ProviderBusy` and `ProviderFails` are `_call_with_rate_limit_retry` (its look at
the limiter, the end of its sleep, the time of an answered call, its retries and the
errors it lets through), `AnswerInvalid` the schema retries, `RecordCall` the
meter.  A paid answer can be lost in three ways: it never fits its schema
(`AnswerInvalid`), it has no content to extract (`AnswerUnreadable`), or
`record_call` raises (`RecordFails`; a process that dies before the meter's commit
changes the same).  `unmetered`, `missed` and `raised` are history variables: the
cost and the number of the answers given up and the calls that ended in an
exception; `failed` says of a caller that its last provider call got no answer.
Time is kept as ages and timers; `Tick` passes one unit and may come between any two
steps, so a step may take any time.

### Chunker and NormalText

`chunk_passages`, one action per round of its loops, on texts of three kinds of
characters.  `NormalText` has the whitespace normalization of the HTML, PDF and
DOCX paths, and gives the texts that reach the chunker.

### RunReports

The plan and the trace artifact in the KV cache with their expiry, the report in
conclude's checkpoint and in its rows, `GET /report` with its nested sessions,
`GET /conclusions` with its two statements (`GetRows`), and the connection pool
all of them draw from.  `supported`, fixed for a run, says whether verify left a
verified statement: with one `Conclude` generates a report, without one
`ConcludeRaises` at every resume.

### SchemaMigrations and ProvenanceStore

`SchemaMigrations` has the schema as data: the foreign keys, unique constraints
and append-only triggers that `db/models.py` declares (`Declared`), and the three
revisions as sequences of operations, each with what it needs of the database
(`Possible`) and what it does to it (`Effect`); `Run` takes a script `Step` by
`Step` and undoes it when an operation is impossible.  Deletes follow `CASCADE` and
stop at `RESTRICT` and at triggers: `Reached` are the rows that at most `Depth`
foreign keys lead to, as many as there are tables.

`ProvenanceStore` has the database (`revision`, `db`, `blobs`) and who writes to it.

| Action | Code |
|---|---|
| `Migrate` | `alembic upgrade` or `downgrade` to any revision |
| `SeedLooksUp`, `SeedInserts` | `db/seed.py`: a SELECT, then an INSERT |
| `ResolveTenant`, `CreateRun` | `POST /v1/runs`: the tenant's id in one session, the run in another |
| `CommitStage` | commits of the pipeline's stages, by the tables they fill |
| `FetchUrl`, `SelectSource`, `PutBlob`, `InsertSource` | `URLConnector.collect` |
| `Leave` | the caller has used the row, or its process dies |

`created`, `resolved`, `seeding`, `pc`, `job` and `got` are the local states of
those writers.  A row is known by its table, its run and the content it is about.

## 4. The runs

"V" runs check one claim of the documentation that the code does not keep; TLC
finds the counterexample and `PROJECT.json` "findings" quotes the claim.

| Run | Shows |
|---|---|
| `pipeline_racing` | Two executors with a fault, resumed: every execution ends and every stage becomes durable, conflicting inserts and the breaker notwithstanding. |
| `pipeline_stuckfailed` (V) | An exception after trace's checkpoint turns the completed row to failed, for good. |
| `lifecycle` | Both deployments, two requests whose executions interleave at every await, two faults: the invariants of the run's rows and the refinement of `DurableJob` hold; a started run is settled when nothing runs, a submitted one is untouched, everything comes to rest. |
| `lifecycle_stuck` (V) | A resume, or a worker, that cannot build its services leaves a submitted run. |
| `intake` | Two executors, three URLs (one denied, two whose contents may coincide, change, be unsafe or be malformed), two faults: what is recorded and normalized, that it is an `IntakeLedger` until executions overlap, and that both stages complete unless the search found nothing or a document cannot be parsed. |
| `intake_poison` (V) | Two URLs with the same refused page: collect fails at every attempt. |
| `evidence` | One executor, two passages and a blank one, claims of every degree of support, caps small enough to bite, two faults: what is cited, with which support and which warnings, and that all of it is a ledger (`EvidenceLedger`) whose verdicts are final and whose stages never reopen; and that the stages complete, to the report or as far as conclude when nothing is verified, unless they go on meeting the blank passage. |
| `evidence_flip` (V) | Two executors verify the same statement and the second verdict replaces the first. |
| `gateway` | Two flows and two calls in all, so one each at once or two in a row, two transient delays, two schema retries: own calls are spaced, calls return, the meter is off by at most half a unit per recorded answer plus the answers given up, and those are at most three per call. |
| `chunker` | Every normalized text of two parts (HTML blocks of up to six characters, pages of up to four) at the bounds 4 and 5. |
| `reports` | An executor of a run with or without a verified statement, two readers of the report or the conclusions, three connections, two faults and expiry at any time. |
| `store` | Two collectors of one page (the first may be served unsafe content), two runs of which one is executed, POST /v1/runs and the seed script, while the schema moves between every two revisions. |

### Bounds and why they are enough

- *Stages.*  Three stand for the ten in `pipeline_racing`.  The loop treats a
  stage only by its position (first, last = trace, between), whether it makes
  calls, and what is checkpointed before it; three stages have one of each.
  `lifecycle` has two, the first with calls and trace: what it checks of the
  stages is also proved for any number of them.
- *Executors.*  Two are enough for a race between a read and a write of another;
  no guard counts flows.  `StatusIsLastVerdict` is the exception (section 6).
- *Faults.*  Two, so that a resume is itself interrupted; one in
  `pipeline_racing`, where a conflicting insert already ends an execution.
- *Money.*  Costs and budgets are chosen on either side of the stage fraction
  (a tenth) and of the budget: one call is allowed, two are not; `MaxCharge`
  allows both.
- *Rows.*  Two passages of two domains and a blank one, up to three statements:
  with the caps `MaxVerify = MaxExtract = MaxPairs = 2` there is work beyond every cap.
  `MaxStatements` and `MaxBlobs` end the growth of repeated extractions and fetches.
- *Chunker.*  The bounds 4 and 5 make paragraphs shorter than, equal to and longer
  than both bounds, and two, three or four of them fit into the texts.
- *Requests.*  Two, three calls in all: a creation, a resume, a resume during an
  execution.
- *Store.*  Two runs and two collectors, so that two runs collect one content at
  once or in turn; of the runs one is executed, since only rows of a run with and
  without history behave differently.  All four revision numbers (0 for none).

Some names are bounds of the model only: `MaxFaults`, `MaxCharge`, `MaxAsks`,
`MaxBlobs`, `MaxDrafts`, `MaxStatements`, `MaxCalls`.  `MaxExtract`,
`MaxVerify`, `MaxDetect`, `MaxPairs`, `MaxReport`, `MaxRetries`, `MinChars`,
`MaxChars` and `PoolSize` are settings of the code.  `Executed` and `Serves` cut
the instances of `ProvenanceStore`; `Flags` leaves out what the LLM flags by
itself where no property asks for it.

No symmetry is declared: the runs are small and half of them check liveness.

### Fairness

| Specification | Assumed | Because |
|---|---|---|
| `PipelineRun!FlowFairness` | WF of every step of a flow | the event loop runs every ready task, clients have timeouts |
| `PipelineRun!ResumeFairness` | WF of entering again | somebody keeps resuming an unfinished run; an assumption on users, made only where a property is about resumes |
| `RunLifecycle` | WF of requests, flows and of *some* worker taking a flow run | workers poll the queue; none in particular |
| `SourceIntake`, `EvidenceBase` | WF of each executor's progress | as above, resumes included |
| `LLMGateway` | WF of time and of each call's steps | sleeps end |
| `Chunker` | WF of the next round | it is a loop |
| `ProvenanceStore` | WF of each collect, which is called again when it raises | the connector documents that re-collection is idempotent; without a retry nothing is promised to the loser |
| `RunReports` | SF of flows and reads | a connection that is taken and given back again and again makes a wait enabled only now and then; the pool serves waiters in order |

Crashes, exceptions, expiry, requests and raises of the budget get none.

### Deadlock

`PipelineRun` and `ProvenanceStore` are checked for deadlock.  In the others the
system may stop (all stages checkpointed, all requests served, all calls made, the
text split), and `CHECK_DEADLOCK FALSE` is said with the reason at the head of each
configuration; that they do not stop earlier is what the liveness properties say.

### Type invariants

Every module has one, `TypeOK` (`LifecycleTypeOK` in `RunLifecycle`).  Those of
`PipelineRun`, `RunLifecycle`, `SourceIntake`, `EvidenceBase`, `LLMGateway`,
`Chunker`, `RunReports` and `ProvenanceStore` are proved; `lifecycle` checks the one
of `RunLifecycle`, which has that of `PipelineRun` as a conjunct.
`Chunker!TextIsClean`, that a text that reaches the chunker has no blank beside a
newline, holds in the instance of `chunker`.

## 5. What the proofs show

Every invariant and every action property that a run checks is a theorem for every
value of the constants, and so are the three refinements.  The theorems use
the `ASSUME`s of the modules, which TLC evaluates in every run, and nothing else;
where one has a hypothesis of its own, it is named below with the reason.  The
layout is the same everywhere: the variables' types, one lemma for each action or
group of actions, an inductive invariant from them, and theorems that read what
they state off the invariant.

### The loop (`PipelineRunProofs`)

For every number of stages, any set of executors, any costs, budgets and bounds:

| Theorem | Statement |
|---|---|
| `TypeCorrect` | `Spec => []TypeOK` |
| `CheckpointSafety` | the checkpoints are a prefix of the stages, and a completed run has all but trace's durable, whatever the interleaving of executors |
| `RowSafety` | a failed run has its audit row, the mirror names durable stages only, the meter never shows more than was spent |
| `Refinement` | `Spec => Job!Spec`: the loop implements `DurableJob` |
| `SoleExecutorNeverReruns` | with one executor, however its executions end, no stage that has a checkpoint is executed again |

None of the invariants is inductive by itself,
because an executor decides from what it *read earlier*: `completed` was listed
when it entered, `listed` before it writes the mirror, and `due`, the total it
will write as the spend, was computed from a spend loaded before.  `IInv` adds,
for each executor, what such a stale read is still worth (`ExecutorInv`): it is a
subset of the checkpoints, since rows are never deleted; every stage before the
one being executed is durable, since this or another executor saved it and nobody
takes it away; after the save the current stage is durable too; and the total
about to be written is at most what was charged.  `StepRefines` maps every action
to a step of `DurableJob` or to stuttering, from the invariant before it, and both
refinement theorems cite it.

`SoleInv` adds for one executor that the stage being executed has no checkpoint
until it is saved, and that every checkpoint of a later stage is in `completed`;
`NextStageSole` concludes that the stage the loop picks next, one that is not in
`completed`, has no checkpoint either.

### Requests and workers (`RunLifecycleProofs`)

That requests, the queue, workers and `_persist_start_failure` leave all of this
true, for any sets of requests and executors and any choice of deployments:

| Theorem | Statement |
|---|---|
| `LifecycleTypes`, `LifecycleKeepsPrefix`, `LifecycleCompletion`, `LifecycleMirror`, `LifecycleMeter` | the invariants above, of `LifecycleSpec` |
| `SubmittedIsUntouched` | a run that reads submitted has no checkpoint, no spend and no audited failure |
| `RunAtRestIsSettled` | when every request is answered, the queue empty and no execution running, a run whose execution was asked for is completed, failed or paused, unless something died without a trace or a start was given up unrecorded |
| `LifecycleRefinement` | `LifecycleSpec => Job!Spec`: the system around the loop implements `DurableJob` too |

`LifecycleStep` reduces every step of `RunLifecycle` to a step of `PipelineRun`, a
failed operation that touches nothing of the run, or the write of
`_persist_start_failure`; `OwnStepIInv` shows that the last two keep `IInv`.
`SubmittedMeansUntouched` needs `SubmittedInv` besides: as long as the run reads
submitted, no execution has marked its first stage as started, though one may be
about to record its failure; and without a checkpoint a loop cannot be over.

`RunAtRestIsSettled` is a safety property about an end, so its invariant is about
who will bring the end about: `PendingInv` says that an active run has an execution
that will still write the status (`WillWrite`: it is in a stage before trace, or
about to pause or fail), and that a submitted run whose execution was asked for has
somebody who owes it one: a request, an entry of the queue or an execution.
`SkipInv` (what an execution read as completed is a prefix, so it does execute the
stages after it, trace among them) shows that an execution cannot slip past its
last write, and `AskedInv` that no entry of the queue appears unasked.

### Collect and store (`SourceIntakeProofs`)

| Theorem | Statement |
|---|---|
| `TypeCorrect` | also when executions race |
| `ResumeLosesNoPassage` | a source that a resumed store marked normalized has every passage of its content |
| `OneRowPerUrl` | one row for each URL, whatever a second fetch returns |
| `CheckpointsAreEarned` | every URL has a row once collect is checkpointed, no fetched source is left once store is |
| `IntakeImplemented` | `Spec => ImplementsIntake`: the stages implement `IntakeLedger` |

For any list of distinct URLs, any contents, malformed ones among them, chunkings
and faults.  All but the first
are stated for executions that do not overlap (`~ overlap`, a history variable):
two that do may lose a passage (`SourceIntake_lostpassage.cfg`).  `IntakeInv` is
therefore one implication from `~ overlap`: `OneActive`, the rows (`RowsInv`) and
the one execution (`ExecutorInv`).  Its heart is what the execution's snapshots are
worth: the URIs it found, together with the URLs it has passed, are those of all
the rows; and what store has still to normalize are all the sources that are only
fetched, none of which has a passage yet, so the hashes it reads for them are none
and it drops no chunk.  `StepInLedger` maps each commit to a step of the ledger
(`RecordInLedger`, `NormalizeInLedger`, and the two checkpoints) and every other step
to stuttering.  `OneSourcePerUrl`, a consequence of the refinement, has no run of its
own.

### The knowledge stages (`EvidenceBaseProofs`)

For any passages, blank ones among them, claims, scores, answers, caps and faults:

| Theorem | Executors | Statement |
|---|---|---|
| `TypeCorrect` | any | references are to rows that exist |
| `NothingUnsupported` | any | whatever a finding, contradiction or conclusion rests on was once found verified, with lexical support |
| `SupportMatrix` | any | a conclusion shows for everything it cites the score of its claim, which is not `none` |
| `CitedStaysVerified` | one | and it still is verified |
| `StatusExplained` | one | the status is the last verdict's |
| `DraftsJudged` | one | verify is checkpointed when every draft is judged, or as many as the cap allows |
| `DetectionIdempotent` | one | no pair is confirmed twice |
| `NoSilentMerge` | one | a conclusion warns of every contradiction that touches what it cites |
| `LedgerImplemented` | one | `Spec => ImplementsLedger`: the stages implement `EvidenceLedger` |
| `VerdictsAreFinalAlone` | one | no statement that has left draft changes its status |

`RaceInv` holds however many executions race.  It cannot say that what is cited is
verified, because another execution may take the status away; it says it is
*grounded*: some verdict found it verified, with support.  Verdicts are appended and
a claim never changes, so groundedness stays, in the rows and in what every
execution holds in memory (`HeldInv`).  That the support matrix takes the *last*
link's score does no harm since all links of a statement have the same score.

The rest is false of two executions: TLC refutes `VerdictIsFinal`
(`evidence_flip`) and `PairConfirmedOnce` (`EvidenceBase_confirmrace.cfg`), and
`StatusIsLastVerdict` falls with three.  The hypothesis is `Executors = {e}`:
executions follow each other, each may be interrupted at any step and resumed.
`SoloInv` has as its backbone `OrderInv`: the checkpoints are exactly the stages
before the one being executed; so the statements no longer change when find begins,
the contradictions no longer when conclude does, and what the stages to come write
is still empty (`TablesInv`).  From it follow, each with the part of the executor's
memory it concerns, `VerifiedInv` (what is about to be cited is verified now),
`StatusInv` (the status merge loaded is the row's), `DraftsInv` (verdicts made and
drafts read add up to the cap), `PairsInv` (a pair at its judges is not confirmed)
and `DisclosedInv` (the contradictions of the prompt are all there are).

The ledger needs one invariant more, `TodoInv`: what verify has still to judge are
drafts, find's clusters are not empty, detect's pairs are of two statements.  Then
`LedgerStep` maps each action: one lemma for each that writes rows, and
`QuietStep` for those that only read, plan, fail or write `report.md`.

### The gateway (`LLMGatewayProofs`)

| Theorem | Statement |
|---|---|
| `TypeCorrect` | `Spec => []TypeOK` |
| `FlowsAreSpaced` | a flow starts a provider call no sooner than `Interval` after its previous one, unless that one got no answer |
| `MeterDrift` | the meter and what was paid differ by at most half a unit for each recorded answer and by the answers given up; of these there are at most `MaxRetries` for each recorded answer and `MaxRetries + 1` for each call that raised |

For any flows, delays, costs, calls and an even unit (`GatewayAssumption`: the
backoff delays are at least the interval, as the settings have it).  The limiter
looks at the last call of *any* flow and does not look again after its sleep;
`SpacingInv` shows why the flow's own calls are spaced all the same: its own last
call, unless it failed and left no time behind (`failed`), is at least as old as the
last of all, and the rest of a sleep makes up for what is missing, whether the
limiter or a retry sleeps.  `MeterInv` says of each flow that its meter is close
(`Close`) and that few answers are lost (`Few`), and that a cost waits to be
recorded only at the meter: every way out of a call either records its answer or
counts it as missed.

### The chunker (`ChunkerProofs`)

| Theorem | Statement |
|---|---|
| `TypeCorrect` | every offset stays inside the text |
| `ChunksCoverTheText` | the chunks follow one another without gap or overlap and cover the text when the function returns |
| `ChunkLengths` | no chunk is empty or longer than `MaxChars` |
| `ShortChunks` | a chunk before the last is shorter than `MinChars` only where an oversized paragraph was split or the next one did not fit |

For every text of any length and any bounds with `MaxChars > 0`: none of the four
needs a normalized text or `MinChars <= MaxChars`.  `SpansInv` says that what is
gathered, or what is left of an oversized paragraph, ends at the cursor, and that
there is never both; `ParagraphInv` that the cursor is at an end of the text or
behind a break, and that what is left to split is the tail of an oversized
paragraph.
`RoundAdds` reduces a round of the loops to adding no, one or two chunks that
continue where the last one ended, each of a legal length and, when short, forced;
`ChunksInv` follows from that alone.

### Reports (`RunReportsProofs`)

| Theorem | Statement |
|---|---|
| `TypeCorrect` | `Spec => []TypeOK` |
| `NoNakedConclusion` | every conclusion that is served comes with its evidence |
| `ServedReport` | a report asked for after conclude was checkpointed is one whole report, and the checkpointed one unless executions overlap |

For any executors, readers, connections and faults, whether or not there is a
verified statement.
`FlowInv` places an executor in the loop; `NakedInv` says that conclusions and
evidence are committed together and stay, so what the first statement saw has its
evidence at the second; `ReportInv` that there is a report exactly when conclude is
checkpointed, and an artifact only then; `SoleInv`, while nothing overlaps, that the
artifact, what the executor has loaded and what readers found are all that report.

### The provenance store (`ProvenanceStoreProofs`)

| Theorem | Statement |
|---|---|
| `TypeCorrect` | `Spec => []TypeOK` |
| `SchemaDeclared` | by whatever way up and down the newest revision was reached, the schema is the one the models declare |
| `UpgradesApply` | no upgrade fails, whatever the revision and the rows |
| `CollectsAreWhole` | a source that the connector returned has its passages and its blob as long as it is there |
| `HistoryKept` | while the append-only tables exist no row of theirs, and nothing that such a row rests on, is removed |

For any runs, any collectors and any contents; `StoreAssumption` says of them only
that the marks for "no run" and "no content" are none of them, and that the digest
of a content with its URI is that of no content alone.

`StoreInv` has five parts.  `SchemaInv`: the database is its rows under
the schema of its revision, nothing else (`Stored`); a schema depends on the
revision alone, which is what makes `SchemaIsDeclared` inductive.  `RowsInv`: rows
are in tables that exist.  `RequestsInv`: a request whose tenant id is still
good finds the tenant.  `CollectorsInv`: a collector has put the blob before it inserts.
`WholeInv`: every source that is not quarantined has its passages and its blob,
whoever inserted it; it survives the downgrades because what takes a passage away
by cascade takes its source too.

What a migration does is the lemma `Migration`, for any two revisions and any rows.
An upgrade succeeds and adds at most the default tenant.  A downgrade that succeeds
and stops above no revision takes a `Removal`: nothing append-only, nothing that
what stays refers to, and besides the tenant only what cascades from something it
takes.  It rests on one lemma for each script: `InitialUpRun`, `SeedUpRun`,
`PerRunUpRun` and their inverses, each operation by operation (`CreateStep`,
`DropStep`, ...).  `BackingStays` then shows for `HistoryKept` that no removal
reaches the backing of a row that stays.

`Run` and `Reached` are recursive functions, and what they compute is an
induction.  The library's theorems about recursion and induction take operators,
which the provers cannot instantiate; `NatInd` is induction for a *set* of
numbers, derived from the pigeonhole principle (`FS_PigeonHole`): were n the
missing number, adding 1 would map the numbers up to n that are in the set one to
one into themselves without 0.  `RunUnrolls` and `ReachedUnrolls` get from it that
the functions exist and satisfy their defining equations.

### Only model-checked

- *All liveness*: `ExecutionEnds`, `EveryStageBecomesDurable`, `EverythingComesToRest`,
  `IntakeCompletes`, `KnowledgeCompletes`, `EveryCallReturns`, `ChunkingEnds`,
  `EveryReadIsAnswered`, `RunCompletes`, `CollectsSucceed`.  TLAPS has no ENABLED,
  hence no fairness.
- *What normalization does to a text* (`NormalText`): it is built from folds and
  selections of the community modules, and what those compute is an induction over
  data that the library states for operators only.
- *Claims about two executions that are false*: the counterexamples of section 6.

## 6. Known counterexamples

Besides the four findings of `PROJECT.json`, the models show behaviours that no
document excludes, or excludes only by its tone.  Each has a property that states
what one might have hoped for and a configuration in which TLC refutes it:

| Configuration | Property | Behaviour |
|---|---|---|
| `PipelineRun_rerun.cfg` | `NoCompletedStageRerun` | with two executors a stage another has checkpointed runs again, calls included |
| `PipelineRun_overspend.cfg` | `SpendWithinBudget` | the breaker looks after a stage, not before a call: a stage may spend any amount |
| `PipelineRun_lost.cfg` | `MeterIsAccurate` | two executors load the spend before either commits, and a cost is lost; "accurate" says `cost_meter.py:1` |
| the same, property in its place | `MirrorNeverShrinks` | an executor writes an older list of stages over a newer one |
| `RunLifecycle_clobber.cfg` | `StartFailureSparesFlows` | a submission whose answer is lost marks as failed a run a worker has begun |
| `SourceIntake_lostpassage.cfg` | `NormalizedSourceIsWhole` | two executors normalize sources that share a chunk and a source loses it |
| `SourceIntake_malformed.cfg` | `EveryIntakeCompletes` | a document its parser refuses fails store at every resume |
| `EvidenceBase_reextract.cfg` | `NoDuplicateExtraction` | a resumed extract extracts a passage again: the test for work done compares a passage with a statement |
| the same, invariant exchanged | `OneFindingPerDomain` | a resumed find adds a domain's finding again |
| `EvidenceBase_nothing.cfg` | `EveryRunConcludes` | without a verified statement conclude raises at every resume |
| `EvidenceBase_markdown.cfg` | `MarkdownIsTheReport` | a resumed conclude keeps the old `report.md` beside the new report |
| `EvidenceBase_detectfails.cfg` | `FailedDetectWritesNothing` | a judge that fails at a later pair leaves the rows of earlier ones |
| `EvidenceBase_confirmrace.cfg` | `PairConfirmedOnce` | two executors confirm the same pair twice |
| `EvidenceBase_onesided.cfg` | `OneSidedIsReviewed` | a conclusion whose evidence is all of one domain is one-sided but not marked for human review, which only the LLM's flag or a high stake sets; `docs/architecture.md:162` has the check set it |
| `LLMGateway_joint.cfg` | `SpacedAcrossFlows` | two flows look at the limiter before either calls, and call together |
| `RunReports_poolfull.cfg` | `EveryReadIsAnswered` | as many requests as connections: each holds one and waits for a second; in the code until the pool's timeout |
| `RunReports_planlost.cfg` | `ResumedRunCompletes` | the plan expires before search is checkpointed, and search fails at every resume |
| `ProvenanceStore_otherrun.cfg` | `ReturnedForTheRun` | the connector's lookup ignores the run: a collect for one run returns another's row |
| `ProvenanceStore_duplicate.cfg` | `CollectedOnce` | under the per-run constraint two runs that collect one content at once both insert it |

`EvidenceBase_concurrent.cfg` goes the other way: `CitedWasVerified` holds with two
executors too, although `VerdictIsFinal` does not.

Further facts met while modelling:

- `docs/data-model.md` (section 8) still lists the global `uq_sources_content_hash`;
  revision `e3b4b1c57819` replaced it by a constraint per run.  Its downgrade is
  refused once two runs share a digest (`Satisfied`).
- `HistoryIsKept` speaks of tables that stay: the downgrade to no revision drops
  the tables with all their history.
- `_report_from_rows` builds a citation's scores from all the links, in no order,
  and leaves out warnings and one-sidedness, which `SupportIsEarned` and
  `ConflictsAreDisclosed` state of the report that conclude generates.
- `StatusIsLastVerdict` is stated for one executor: with three, the merge of a
  draft over a row that is a draft again omits the UPDATE and the status stays
  behind the last verdict.
- `OneSourcePerUrl` and `CheckpointsCoverTheWork` are stated for executions that do
  not overlap (`overlap` is a history variable); overlapping ones may fetch
  different contents of one URL.
- `chunk_passages` says lengths are in [min, max].  The last chunk, pieces of an
  oversized paragraph and a chunk closed before a paragraph that does not fit may
  be shorter, which `ShortChunksAreForced` states; one of them may be blank, and
  then extract raises at every resume (`ExtractBlank`).
- `_collapse_whitespace` caps newlines before it removes the blanks between them,
  so it is not idempotent and three newlines may be left.
- A provider call that fails leaves no time behind, so the next one may follow at
  once (`failed` in `OwnCallsAreSpaced`).
- An answer that was paid for is lost to the budget when it never fits its schema,
  has no content, or `record_call` raises (`missed` in `MeterDriftIsBounded`).

## 7. What is not modelled

- *Prompts, parsing, scores and heuristics* of the LLM services: choices or
  constants; the properties do not depend on them.
- *Fetcher, allowlist, content filter*: their outcomes are choices.
- *RSS and search collectors*: no stage calls the RSS connector; the search
  connectors' result is the constant `Urls`.
- *Read endpoints other than report and conclusions, schemas, metrics, logging*:
  no state change, one statement each.
- *Report renderer*: layout.
- *Audit rows other than `run.failed`*: nobody reads them back.  That the audit
  writer raises on a reason of more than 2000 characters, which collect takes
  from an exception (`str(exc)`), is left out: the models' faults are limited in
  number, and such a message would fail the stage at every attempt.
  `IntakeCompletes` is a statement about reasons that fit.
- *Columns, indexes, CHECK constraints and the rewriting of database URLs* in the
  migrations: no property of the rows depends on them.
- *S3 store, scripts, dashboards, containers*: I/O or deployment.
- *Prefect*: external; a submitted flow run is delivered to one worker once.
- *The LLM cache* of the gateway: no stage asks for it.

## 8. Plan

The order of work was the stage loop and its checkpoints with the proof of their
safety; the requests and workers around it; the rows of intake and of the
knowledge stages; gateway, normalizer and report endpoint; the connector and the
migrations; then the proofs about all of them, and the ledgers that intake and
the knowledge stages implement.  What is left, in order of value:

1. What remains true of the ledgers when executions overlap: the order of the
   stages and groundedness, as an abstract specification of its own.
2. Audit rows as a log with their redaction, the fetcher's per-domain delay, and
   the find and report renderers as operators checked against references.
