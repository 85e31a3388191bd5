----------------------------- MODULE RunReports -----------------------------
(***************************************************************************)
(* The artifacts a run hands on through the kv_cache table and its         *)
(* checkpoints, and GET /v1/runs/{id}/report and /conclusions, which read  *)
(* them.                                                                   *)
(*                                                                         *)
(* Define stores the research plan that search needs; conclude stores      *)
(* conclusion rows and, in its checkpoint, the report; trace copies that   *)
(* report into the trace artifact.  The other stages touch none of these.  *)
(* A report is known by its version, the number of the execution of        *)
(* conclude that generated it, and what a reader is served is the set of   *)
(* versions it is made of.                                                 *)
(*                                                                         *)
(* A connection comes from the pool at a session's first query and goes    *)
(* back when the session is closed.  The pool's timeout is left out: it    *)
(* ends a wait that the model shows to end by itself.                      *)
(***************************************************************************)
EXTENDS Naturals, FiniteSets

CONSTANTS
  Executors,  \* flow runs that may execute this run
  Readers,    \* concurrent requests for its report or its conclusions
  PoolSize,   \* connections of the engine's pool
  MaxFaults   \* bound: operations that fail and crashes

ASSUME ReportsAssumption ==
  /\ MaxFaults \in Nat
  /\ IsFiniteSet(Executors) /\ IsFiniteSet(Readers)
  /\ PoolSize \in Nat \ {0}

Stages == 1 .. 4     \* define, search, conclude, trace
Keys == {"plan", "trace"}

VARIABLES
  kv,       \* kv_cache: per key none, fresh or expired, and the report in it
  saved,    \* the stages that have a checkpoint
  report,   \* the report in conclude's checkpoint, 0 without one
  rows,     \* the versions that have conclusion rows
  cited,    \* the versions that have the rows of their evidence
  made,     \* number of reports generated
  pc,       \* per executor: the step it is at
  cur,      \* the stage it executes
  done,     \* its set `completed'
  seen,     \* KVCache.set: whether its SELECT found the row
  held,     \* the report it has generated or loaded
  rpc,      \* per reader: idle, trace, drop, checkpoint, rows, links, answered
  began,    \* history: conclude's checkpoint when it asked for the report
  answer,   \* the versions whose conclusions it was served
  linked,   \* and those whose evidence it was served
  planLost, \* history: the plan was gone before search was checkpointed
  supported, \* history: whether verify, which precedes conclude, verified a statement
  overlap,  \* history: two executors executed the run at once
  faults

artifacts == <<kv, saved, report, rows, cited, made>>
executor == <<pc, cur, done, seen, held>>
reader == <<rpc, began, answer, linked>>
history == <<planLost, supported, overlap, faults>>
vars == <<artifacts, executor, reader, history>>

Entry(state, version) == [state |-> state, report |-> version]
None == Entry("none", 0)

Init ==
  /\ kv = [k \in Keys |-> None]
  /\ saved = {} /\ report = 0 /\ rows = {} /\ cited = {} /\ made = 0
  /\ pc = [e \in Executors |-> "idle"]
  /\ cur = [e \in Executors |-> 0] /\ done = [e \in Executors |-> {}]
  /\ seen = [e \in Executors |-> FALSE] /\ held = [e \in Executors |-> 0]
  /\ rpc = [r \in Readers |-> "idle"]
  /\ began = [r \in Readers |-> 0]
  /\ answer = [r \in Readers |-> {}] /\ linked = [r \in Readers |-> {}]
  /\ planLost = FALSE /\ supported \in BOOLEAN /\ overlap = FALSE /\ faults = 0

\* Mutant: the cache's session stays open until the request ends.
Sessions_Kept(r) ==
  IF rpc[r] \in {"idle", "answered"} THEN 0 ELSE IF rpc[r] = "trace" THEN 1 ELSE 2

\* Connections a request holds: one session for its whole length, a second
\* one while KVCache.get is about to delete.
Sessions(r) == IF rpc[r] \in {"idle", "answered"} THEN 0 ELSE IF rpc[r] = "drop" THEN 2 ELSE 1

\* An executor holds one between the SELECT and the COMMIT of the cache.
InSession == {"planWrite", "planDrop", "traceWrite"}

Connected ==
  {x \in Readers \X (1 .. 2) : x[2] <= Sessions(x[1])}
    \cup {<<e, 1>> : e \in {e \in Executors : pc[e] \in InSession}}

Free == Cardinality(Connected) < PoolSize

-----------------------------------------------------------------------------
(* The executor *)

Goto(e, from, to) == pc[e] = from /\ pc' = [pc EXCEPT ![e] = to]

FirstStep == <<"plan", "lookup", "conclude", "load">>

\* The flow ends, or a stage raises and the flow marks the run failed.
Stop(e) ==
  /\ pc' = [pc EXCEPT ![e] = "idle"]
  /\ cur' = [cur EXCEPT ![e] = 0] /\ done' = [done EXCEPT ![e] = {}]
  /\ seen' = [seen EXCEPT ![e] = FALSE] /\ held' = [held EXCEPT ![e] = 0]

\* The loop of _execute_stages goes on after stage s.
Proceed(e, s, completed) ==
  LET rest == {t \in Stages : t > s /\ t \notin completed}
  IN  \/ rest = {} /\ Stop(e)
      \/ \E t \in rest :
           /\ \A u \in rest : t <= u
           /\ pc' = [pc EXCEPT ![e] = FirstStep[t]]
           /\ cur' = [cur EXCEPT ![e] = t]
           /\ done' = [done EXCEPT ![e] = completed]
           /\ seen' = [seen EXCEPT ![e] = FALSE] /\ held' = [held EXCEPT ![e] = 0]

Enter(e) ==
  /\ pc[e] = "idle" /\ saved # Stages /\ Free
  /\ Proceed(e, 0, saved)
  /\ overlap' = (overlap \/ \E o \in Executors : pc[o] # "idle")
  /\ UNCHANGED <<artifacts, reader, planLost, supported, faults>>

\* KVCache.set: SELECT ...
SelectRow(e, k, from, to) ==
  /\ Free /\ Goto(e, from, to)
  /\ seen' = [seen EXCEPT ![e] = kv[k].state # "none"]
  /\ UNCHANGED <<artifacts, cur, done, held, reader, history>>

\* ... then INSERT or UPDATE.  Another executor's row makes the INSERT fail,
\* a row that a reader deleted meanwhile the UPDATE.
WriteRow(e, k, from, version) ==
  /\ \/ /\ seen[e] = (kv[k].state # "none")
        /\ Goto(e, from, "save")
        /\ kv' = [kv EXCEPT ![k] = Entry("fresh", version)]
        /\ UNCHANGED <<cur, done, seen, held>>
     \/ /\ seen[e] # (kv[k].state # "none")
        /\ pc[e] = from /\ Stop(e)
        /\ UNCHANGED kv
  /\ UNCHANGED <<saved, report, rows, cited, made, reader, history>>

\* Mutant: search takes the plan out of the cache.
LookupPlan_Pops(e) ==
  /\ pc[e] = "lookup" /\ Free
  /\ \/ kv["plan"].state = "none" /\ Stop(e)
     \/ /\ kv["plan"].state # "none"
        /\ Goto(e, "lookup", IF kv["plan"].state = "fresh" THEN "save" ELSE "planDrop")
        /\ UNCHANGED <<cur, done, seen, held>>
  /\ kv' = IF kv["plan"].state = "fresh" THEN [kv EXCEPT !["plan"] = None] ELSE kv
  /\ UNCHANGED <<saved, report, rows, cited, made, reader, history>>

\* Search reads the plan; without it the stage fails, on every resume.
LookupPlan(e) ==
  /\ pc[e] = "lookup" /\ Free
  /\ \/ kv["plan"].state = "none" /\ Stop(e)
     \/ /\ kv["plan"].state # "none"
        /\ Goto(e, "lookup", IF kv["plan"].state = "fresh" THEN "save" ELSE "planDrop")
        /\ UNCHANGED <<cur, done, seen, held>>
  /\ UNCHANGED <<artifacts, reader, history>>

\* The DELETE of KVCache.get is by key: whatever the row holds by now.
DropPlan(e) ==
  /\ pc[e] = "planDrop" /\ Stop(e)
  /\ kv' = [kv EXCEPT !["plan"] = None]
  /\ UNCHANGED <<saved, report, rows, cited, made, reader, history>>

\* ReportGenerator.generate commits the conclusions of a new report and their
\* evidence at once.
Conclude(e) ==
  /\ supported
  /\ Goto(e, "conclude", "save") /\ Free
  /\ made' = made + 1
  /\ rows' = rows \cup {made + 1} /\ cited' = cited \cup {made + 1}
  /\ held' = [held EXCEPT ![e] = made + 1]
  /\ UNCHANGED <<kv, saved, report, cur, done, seen, reader, history>>

\* Without a verified statement it raises, on every resume.
ConcludeRaises(e) ==
  /\ ~ supported
  /\ pc[e] = "conclude" /\ Free /\ Stop(e)
  /\ UNCHANGED <<artifacts, reader, history>>

\* Trace loads conclude's checkpoint.
LoadReport(e) ==
  /\ Goto(e, "load", "traceSelect") /\ Free
  /\ held' = [held EXCEPT ![e] = report]
  /\ UNCHANGED <<artifacts, cur, done, seen, reader, history>>

\* CheckpointStore.save of the stage just executed.
Save(e) ==
  /\ pc[e] = "save" /\ Free
  /\ saved' = saved \cup {cur[e]}
  /\ report' = IF cur[e] = 3 THEN held[e] ELSE report
  /\ Proceed(e, cur[e], done[e])
  /\ UNCHANGED <<kv, rows, cited, made, reader, history>>

\* Any operation of a stage fails, or the process dies.
Fail(e) ==
  /\ pc[e] # "idle" /\ faults < MaxFaults
  /\ faults' = faults + 1
  /\ Stop(e)
  /\ UNCHANGED <<artifacts, reader, planLost, supported, overlap>>

Flow(e) ==
  \/ Enter(e) \/ SelectRow(e, "plan", "plan", "planWrite")
  \/ WriteRow(e, "plan", "planWrite", 0)
  \/ LookupPlan(e) \/ DropPlan(e) \/ Conclude(e) \/ ConcludeRaises(e) \/ LoadReport(e)
  \/ SelectRow(e, "trace", "traceSelect", "traceWrite")
  \/ WriteRow(e, "trace", "traceWrite", held[e]) \/ Save(e)

-----------------------------------------------------------------------------
(* get_report *)

\* The answer stands until the client has read it.
Answer(r, versions) ==
  /\ rpc' = [rpc EXCEPT ![r] = "answered"]
  /\ answer' = [answer EXCEPT ![r] = versions]
  /\ linked' = [linked EXCEPT ![r] = versions]

Finish(r) ==
  /\ rpc[r] = "answered"
  /\ rpc' = [rpc EXCEPT ![r] = "idle"]
  /\ began' = [began EXCEPT ![r] = 0]
  /\ answer' = [answer EXCEPT ![r] = {}] /\ linked' = [linked EXCEPT ![r] = {}]
  /\ UNCHANGED <<artifacts, executor, history>>

\* get_report asks for the artifact first, get_conclusions for the rows.
Request(r) ==
  /\ rpc[r] = "idle" /\ Free
  /\ \/ /\ rpc' = [rpc EXCEPT ![r] = "trace"]
        /\ began' = [began EXCEPT ![r] = report]
     \/ rpc' = [rpc EXCEPT ![r] = "rows"] /\ UNCHANGED began
  /\ UNCHANGED <<artifacts, executor, answer, linked, history>>

\* cache.get(trace:{run_id}), in a session of its own.
GetTrace(r) ==
  /\ rpc[r] = "trace" /\ Free
  /\ \/ kv["trace"].state = "fresh" /\ Answer(r, {kv["trace"].report})
     \/ /\ kv["trace"].state = "none"
        /\ rpc' = [rpc EXCEPT ![r] = "checkpoint"] /\ UNCHANGED <<answer, linked>>
     \/ /\ kv["trace"].state = "expired"
        /\ rpc' = [rpc EXCEPT ![r] = "drop"] /\ UNCHANGED <<answer, linked>>
  /\ UNCHANGED <<artifacts, executor, began, history>>

DropTrace(r) ==
  /\ rpc[r] = "drop"
  /\ rpc' = [rpc EXCEPT ![r] = "checkpoint"]
  /\ kv' = [kv EXCEPT !["trace"] = None]
  /\ UNCHANGED <<saved, report, rows, cited, made, executor, began, answer, linked, history>>

\* Mutant: an expired artifact sends the reader to the rows.
GetCheckpoint_RowsFirst(r) ==
  /\ rpc[r] = "checkpoint" /\ Free
  /\ \/ report # 0 /\ rows = {} /\ Answer(r, {report})
     \/ (report = 0 \/ rows # {}) /\ rpc' = [rpc EXCEPT ![r] = "rows"] /\ UNCHANGED <<answer, linked>>
  /\ UNCHANGED <<artifacts, executor, began, history>>

\* checkpoint_store.load(run_id, "conclude"), in a session of its own.
GetCheckpoint(r) ==
  /\ rpc[r] = "checkpoint" /\ Free
  /\ \/ report # 0 /\ Answer(r, {report})
     \/ report = 0 /\ rpc' = [rpc EXCEPT ![r] = "rows"] /\ UNCHANGED <<answer, linked>>
  /\ UNCHANGED <<artifacts, executor, began, history>>

\* Mutant: the evidence is read before the conclusions.
Queries_EvidenceFirst == <<"evidence", "conclusions">>

\* What the two SELECTs return; each sees what is committed by then.
Queries == <<"conclusions", "evidence">>

\* _report_from_rows or get_conclusions, in the request's session.
GetRows(r) ==
  \E i \in 1 .. 2 :
    /\ rpc[r] = <<"rows", "links">>[i]
    /\ rpc' = [rpc EXCEPT ![r] = <<"links", "answered">>[i]]
    /\ \/ /\ Queries[i] = "conclusions"
          /\ answer' = [answer EXCEPT ![r] = rows] /\ UNCHANGED linked
       \/ /\ Queries[i] = "evidence"
          /\ linked' = [linked EXCEPT ![r] = cited] /\ UNCHANGED answer
    /\ UNCHANGED <<artifacts, executor, began, history>>

Read(r) == GetTrace(r) \/ DropTrace(r) \/ GetCheckpoint(r) \/ GetRows(r) \/ Finish(r)

-----------------------------------------------------------------------------

\* Thirty days pass.
Expire(k) ==
  /\ kv[k].state = "fresh"
  /\ kv' = [kv EXCEPT ![k].state = "expired"]
  /\ planLost' = (planLost \/ (k = "plan" /\ 2 \notin saved))
  /\ UNCHANGED <<saved, report, rows, cited, made, executor, reader, supported, overlap, faults>>

Next ==
  \/ \E e \in Executors : Flow(e) \/ Fail(e)
  \/ \E r \in Readers : Request(r) \/ Read(r)
  \/ \E k \in Keys : Expire(k)

Spec == Init /\ [][Next]_vars

\* Executors and requests are scheduled, a waiting session gets a connection
\* that keeps being free, and somebody keeps resuming the run.
FairSpec ==
  /\ Spec
  /\ \A e \in Executors : SF_vars(Flow(e))
  /\ \A r \in Readers : SF_vars(Read(r))

-----------------------------------------------------------------------------
(* Properties *)

TypeOK ==
  /\ kv \in [Keys -> [state : {"none", "fresh", "expired"}, report : Nat]]
  /\ saved \subseteq Stages /\ report \in Nat
  /\ rows \subseteq Nat /\ cited \subseteq Nat /\ made \in Nat
  /\ pc \in [Executors -> {"idle", "plan", "lookup", "conclude", "load", "save",
                           "traceSelect"} \cup InSession]
  /\ cur \in [Executors -> Stages \cup {0}]
  /\ done \in [Executors -> SUBSET Stages]
  /\ seen \in [Executors -> BOOLEAN] /\ held \in [Executors -> Nat]
  /\ rpc \in [Readers -> {"idle", "trace", "drop", "checkpoint", "rows",
                           "links", "answered"}]
  /\ began \in [Readers -> Nat]
  /\ answer \in [Readers -> SUBSET Nat] /\ linked \in [Readers -> SUBSET Nat]
  /\ planLost \in BOOLEAN /\ supported \in BOOLEAN /\ overlap \in BOOLEAN
  /\ faults \in 0 .. MaxFaults

\* A report requested after conclude was checkpointed is one whole report,
\* never the mixture of versions that re-executions leave in the rows; unless
\* two flows executed the run at once it is the checkpointed one, whether the
\* artifact is there, has expired or is deleted while it is rewritten.
ServedIsCheckpointed ==
  \A r \in Readers :
    rpc[r] = "answered" /\ began[r] # 0 =>
      /\ Cardinality(answer[r]) = 1
      /\ overlap \/ answer[r] = {began[r]}

\* "A conclusion is never naked" (docs/architecture.md:162): although conclusions
\* and evidence are read by two statements that see different states, none is
\* served without its evidence while conclude commits.
NoConclusionIsNaked ==
  \A r \in Readers : rpc[r] = "answered" => answer[r] \subseteq linked[r]

\* No request waits for a connection for ever, although each holds one while
\* it asks for another (get_report; KVCache.get), as long as the pool has more
\* connections than there are requests.  The code bounds the requests nowhere:
\* RunReports_poolfull.cfg, with as many requests as connections, refutes it.
EveryReadIsAnswered == \A r \in Readers : rpc[r] # "idle" ~> rpc[r] = "idle"

\* A run that keeps being resumed is checkpointed as far as it can be, whatever
\* fails and expires: to the end, or without a verified statement to search.
\* The exception is a plan that expired before search was checkpointed: define
\* is not executed again, so search fails for ever.
RunCompletes ==
  <>(planLost \/ (IF supported THEN Stages ELSE {1, 2}) \subseteq saved)

\* The resume of docs/architecture.md without those exceptions: refuted, also
\* of a run with a verified statement, by RunReports_planlost.cfg.
ResumedRunCompletes == <>(supported => saved = Stages)
=============================================================================
