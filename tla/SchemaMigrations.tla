-------------------------- MODULE SchemaMigrations --------------------------
(***************************************************************************)
(* The schema of the provenance store: what app/db/models.py declares, and *)
(* the operations by which the revisions under alembic/versions reach it   *)
(* and leave it again.                                                     *)
(*                                                                         *)
(* A database is a record of its tables, foreign keys, unique constraints, *)
(* trigger functions, append-only triggers and rows.  Columns, indexes and *)
(* CHECK constraints are left out.  A row says which run it belongs to and *)
(* which content it is about, and refers to the rows of the same run and   *)
(* content that its table's foreign keys name.                             *)
(***************************************************************************)
EXTENDS Naturals, Sequences, FiniteSets

NoRun == "no run"  \* of the row of a tenant
NoContent == <<>>  \* of a row about no content in particular

Row(table, run, content) == [table |-> table, run |-> run, content |-> content]
DefaultTenant == Row("tenants", NoRun, NoContent)

Cascades(from, to) == [from |-> from, to |-> to, on |-> "CASCADE"]
Restricts(from, to) == [from |-> from, to |-> to, on |-> "RESTRICT"]
Unique(table, columns) == [table |-> table, columns |-> columns]

Database(tables, refs, uniques, functions, guarded) ==
  [tables |-> tables, refs |-> refs, uniques |-> uniques,
   functions |-> functions, guarded |-> guarded, rows |-> {}]

Empty == Database({}, {}, {}, {}, {})

-----------------------------------------------------------------------------
(* app/db/models.py *)

ScopeModels == {Cascades("runs", "tenants")}

SourceModels ==
  {Cascades("sources", "runs"), Cascades("passages", "sources"),
   Restricts("statements", "passages"), Cascades("statements", "runs")}

LinkModels ==
  {Restricts("evidence_links", "statements"),
   Restricts("evidence_links", "passages"), Restricts("evidence_links", "runs")}

FindingModels ==
  {Cascades("findings", "runs"), Cascades("finding_statements", "findings"),
   Restricts("finding_statements", "statements"),
   Cascades("contradictions", "runs"), Restricts("contradictions", "statements")}

ConclusionModels ==
  {Cascades("conclusions", "runs"),
   Cascades("conclusion_evidence", "conclusions"),
   Restricts("conclusion_evidence", "statements"),
   Restricts("conclusion_evidence", "findings")}

RecordModels == {Restricts("audit_trace", "runs"), Cascades("checkpoints", "runs")}

UniqueModels ==
  {Unique("tenants", {"namespace"}), Unique("sources", {"run_id", "content_hash"}),
   Unique("passages", {"source_id", "seq"}), Unique("checkpoints", {"run_id", "stage"})}

\* register_append_only
AppendOnly == {"evidence_links", "audit_trace"}

\* The models and the documents ask for all of this in the database.
Declared ==
  LET refs == ScopeModels \cup SourceModels \cup LinkModels \cup FindingModels
                \cup ConclusionModels \cup RecordModels
  IN  Database({"kv_cache"} \cup {r.from : r \in refs} \cup {r.to : r \in refs},
               refs, UniqueModels, {"trg_append_only"}, AppendOnly)

Schema(d) == [d EXCEPT !.rows = {}]

-----------------------------------------------------------------------------
(* Operations of a revision: what each needs and what it does *)

Op(do, table, refs, uniques) ==
  [do |-> do, table |-> table, refs |-> refs, uniques |-> uniques]

Create(table, refs, columns) ==
  Op("create", table, refs, {Unique(table, c) : c \in columns})
Drop(table) == Op("drop", table, {}, {})
Guard(table) == Op("guard", table, {}, {})
Unguard(table) == Op("unguard", table, {}, {})
CreateFunction(name) == Op("create function", name, {}, {})
DropFunction(name) == Op("drop function", name, {}, {})
AddUnique(table, columns) == Op("add unique", table, {}, {Unique(table, columns)})
DropUnique(table, columns) == Op("drop unique", table, {}, {Unique(table, columns)})
InsertTenant == Op("insert or keep", "tenants", {}, {})
InsertTenantOnly == Op("insert", "tenants", {}, {})
DeleteTenant == Op("delete", "tenants", {}, {})

\* Only the uniqueness of a content's source can be met by rows told apart by
\* run and content alone: passages, checkpoints and tenants always differ.
Clash(u, x, y) ==
  /\ u.table = "sources" /\ x.table = "sources" /\ y.table = "sources" /\ x # y
  /\ x.content = y.content /\ ("run_id" \in u.columns => x.run = y.run)

Satisfied(u, rows) == \A x, y \in rows : ~Clash(u, x, y)

\* x refers to y by the foreign key r.
RefersBy(r, x, y) ==
  /\ r.from = x.table /\ r.to = y.table
  /\ y.run \in {x.run, NoRun}
  /\ y.content = x.content \/ NoContent \in {x.content, y.content}

\* No chain of foreign keys is longer than the number of tables.
Depth == 14

\* What the edges lead to from the rows of S.
Reached(edges, S) ==
  LET layer[n \in 0 .. Depth] ==
        IF n = 0 THEN S
        ELSE LET before == layer[n - 1]
             IN  before \cup {e[2] : e \in {f \in edges : f[1] \in before}}
  IN  layer[Depth]

References(d, actions) ==
  {e \in d.rows \X d.rows : \E r \in d.refs : r.on \in actions /\ RefersBy(r, e[1], e[2])}

\* The rows that a delete of S takes with it.
Cascaded(d, S) == Reached({<<e[2], e[1]>> : e \in References(d, {"CASCADE"})}, S)

\* What the rows of S refer to, and what that refers to.
Backing(d, S) == Reached(References(d, {"CASCADE", "RESTRICT"}), S)

\* Foreign keys with RESTRICT and append-only triggers refuse a delete.
Deletable(d, S) ==
  LET gone == Cascaded(d, S)
  IN  /\ \A x \in gone : x.table \notin d.guarded
      /\ \A x \in d.rows \ gone : \A y \in gone : \A r \in d.refs :
           ~RefersBy(r, x, y)

Possible(d, op) ==
  CASE op.do = "create" ->
         op.table \notin d.tables /\ \A r \in op.refs : r.to \in d.tables
    [] op.do = "drop" ->
         op.table \in d.tables /\ \A r \in d.refs : r.to # op.table
    [] op.do = "guard" ->
         op.table \in d.tables /\ "trg_append_only" \in d.functions
    [] op.do = "unguard" -> op.table \in d.tables
    [] op.do = "create function" -> op.table \notin d.functions
    [] op.do = "drop function" -> d.guarded = {}
    [] op.do = "drop unique" -> op.uniques \subseteq d.uniques
    [] op.do = "add unique" -> \A u \in op.uniques : Satisfied(u, d.rows)
    [] op.do = "insert or keep" -> op.table \in d.tables
    [] op.do = "insert" -> op.table \in d.tables /\ DefaultTenant \notin d.rows
    [] op.do = "delete" ->
         op.table \in d.tables /\ Deletable(d, {DefaultTenant} \cap d.rows)

Effect(d, op) ==
  CASE op.do = "create" ->
         [d EXCEPT !.tables = @ \cup {op.table}, !.refs = @ \cup op.refs,
                   !.uniques = @ \cup op.uniques]
    [] op.do = "drop" ->
         [d EXCEPT !.tables = @ \ {op.table},
                   !.refs = {r \in @ : r.from # op.table},
                   !.uniques = {u \in @ : u.table # op.table},
                   !.guarded = @ \ {op.table},
                   !.rows = {x \in @ : x.table # op.table}]
    [] op.do = "guard" -> [d EXCEPT !.guarded = @ \cup {op.table}]
    [] op.do = "unguard" -> [d EXCEPT !.guarded = @ \ {op.table}]
    [] op.do = "create function" -> [d EXCEPT !.functions = @ \cup {op.table}]
    [] op.do = "drop function" -> [d EXCEPT !.functions = @ \ {op.table}]
    [] op.do = "drop unique" -> [d EXCEPT !.uniques = @ \ op.uniques]
    [] op.do = "add unique" -> [d EXCEPT !.uniques = @ \cup op.uniques]
    [] op.do \in {"insert or keep", "insert"} ->
         [d EXCEPT !.rows = @ \cup {DefaultTenant}]
    [] op.do = "delete" ->
         [d EXCEPT !.rows = @ \ Cascaded(d, {DefaultTenant} \cap @)]

-----------------------------------------------------------------------------
(* alembic/versions/8a6a416af425: the tables, in the order of creation *)

ScopeTables ==
  <<Create("kv_cache", {}, {}),
    Create("tenants", {}, {{"namespace"}}),
    Create("runs", {Cascades("runs", "tenants")}, {})>>

RunTables ==
  <<Create("audit_trace", {Restricts("audit_trace", "runs")}, {}),
    Create("checkpoints", {Cascades("checkpoints", "runs")}, {{"run_id", "stage"}}),
    Create("conclusions", {Cascades("conclusions", "runs")}, {}),
    Create("findings", {Cascades("findings", "runs")}, {}),
    Create("sources", {Cascades("sources", "runs")}, {{"content_hash"}})>>

TextTables ==
  <<Create("passages", {Cascades("passages", "sources")}, {{"source_id", "seq"}}),
    Create("statements", {Restricts("statements", "passages"),
                          Cascades("statements", "runs")}, {}),
    Create("conclusion_evidence",
           {Cascades("conclusion_evidence", "conclusions"),
            Restricts("conclusion_evidence", "findings"),
            Restricts("conclusion_evidence", "statements")}, {}),
    Create("contradictions",
           {Cascades("contradictions", "runs"),
            Restricts("contradictions", "statements")}, {})>>

LinkTables ==
  <<Create("evidence_links",
           {Restricts("evidence_links", "passages"), Restricts("evidence_links", "runs"),
            Restricts("evidence_links", "statements")}, {}),
    Create("finding_statements",
           {Cascades("finding_statements", "findings"),
            Restricts("finding_statements", "statements")}, {})>>

Triggers ==
  <<CreateFunction("trg_append_only"), Guard("evidence_links"), Guard("audit_trace")>>

\* Mutant: every table but the two append-only ones cascades from its run as
\* usual, and those are left to the listeners of the ORM.
InitialUp_LeftToOrm ==
  LET all == ScopeTables \o RunTables \o TextTables \o LinkTables
  IN  [i \in DOMAIN all |->
         [all[i] EXCEPT !.refs = {Cascades(r.from, r.to) : r \in @}]]
      \o <<CreateFunction("trg_append_only")>>
InitialUp == ScopeTables \o RunTables \o TextTables \o LinkTables \o Triggers

InitialDown ==
  <<Unguard("audit_trace"), Unguard("evidence_links"),
    DropFunction("trg_append_only"),
    Drop("finding_statements"), Drop("evidence_links"),
    Drop("contradictions"), Drop("conclusion_evidence"), Drop("statements"),
    Drop("passages"), Drop("sources"), Drop("findings"), Drop("conclusions"),
    Drop("checkpoints"), Drop("audit_trace"), Drop("runs"), Drop("tenants"),
    Drop("kv_cache")>>

(* alembic/versions/5f2e3a8c9b1d *)

SeedUp_Plain == <<InsertTenantOnly>>   \* Mutant: no ON CONFLICT.
SeedUp == <<InsertTenant>>
SeedDown == <<DeleteTenant>>

(* alembic/versions/e3b4b1c57819 *)

\* Mutant: the global constraint stays.
PerRunUp_KeepsGlobal == <<AddUnique("sources", {"run_id", "content_hash"})>>
PerRunUp ==
  <<DropUnique("sources", {"content_hash"}),
    AddUnique("sources", {"run_id", "content_hash"})>>
PerRunDown ==
  <<DropUnique("sources", {"run_id", "content_hash"}),
    AddUnique("sources", {"content_hash"})>>

Revisions == 0 .. 3
Newest == 3

Ups == <<InitialUp, SeedUp, PerRunUp>>
Downs == <<InitialDown, SeedDown, PerRunDown>>

\* The scripts between two revisions, one after the other.
Script(from, to) ==
  LET up(n) == IF from < n /\ n <= to THEN Ups[n] ELSE <<>>
      down(n) == IF to < n /\ n <= from THEN Downs[n] ELSE <<>>
  IN  up(1) \o up(2) \o up(3) \o down(3) \o down(2) \o down(1)

\* What is left of d after an operation, if all before it were possible.
Step(result, op) ==
  IF result.ok /\ Possible(result.d, op)
  THEN [ok |-> TRUE, d |-> Effect(result.d, op)]
  ELSE [ok |-> FALSE, d |-> result.d]

\* All the operations are one transaction: one that is impossible undoes them.
Run(script, d) ==
  LET after[i \in 0 .. Len(script)] ==
        IF i = 0 THEN [ok |-> TRUE, d |-> d] ELSE Step(after[i - 1], script[i])
      last == after[Len(script)]
  IN  [ok |-> last.ok, d |-> IF last.ok THEN last.d ELSE d]
=============================================================================
