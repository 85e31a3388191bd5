-------------------------- MODULE ProvenanceStore --------------------------
(***************************************************************************)
(* The database over the life of a deployment: it is upgraded and          *)
(* downgraded by alembic while the seed script, POST /v1/runs, the stages  *)
(* of the pipeline and the direct-URL connector                            *)
(* (app/services/collectors/url.py) insert their rows.                     *)
(*                                                                         *)
(* A connector's digest is the content itself.  The stages hash content    *)
(* and URI together, so that what they collect has a digest of its own.    *)
(* A migration is one transaction: one that fails, or whose process dies,  *)
(* changes nothing.                                                        *)
(***************************************************************************)
EXTENDS SchemaMigrations

CONSTANTS
  Runs,        \* the ids of the runs ever created, under the default tenant
  Executed,    \* those whose stages are executed
  Collectors,  \* concurrent callers of the connector
  Serves,      \* Serves[k]: what the URL of collector k may serve, redacted
  Unsafe       \* the contents the safety filter refuses

Contents == UNION {Serves[k] : k \in Collectors}

\* The digest of a content that a stage has collected, hashed with its URI.
Staged(c) == <<"with its URI", c>>

\* Different digests are different values: a digest with its URI is that of no
\* content alone, and a row that has none is about no content.
ASSUME StoreAssumption ==
  /\ Executed \subseteq Runs /\ Unsafe \subseteq Contents
  /\ NoRun \notin Runs /\ NoContent \notin Contents
  /\ \A c \in Contents : Staged(c) \notin Contents

VARIABLES
  revision,  \* the number of revisions applied
  db,        \* schema and rows
  blobs,     \* the digests in the blob store
  created,   \* history: the runs ever created
  resolved,  \* runs about to be inserted, their tenant looked up
  seeding,   \* the seed script has found no tenant and is about to insert it
  pc,        \* per collector: idle, lookup, put, insert or done
  job,       \* the run and the content it collects
  got        \* the row it has returned

requests == <<created, resolved, seeding>>
collector == <<pc, job, got>>
vars == <<revision, db, blobs, requests, collector>>

Nothing == NoContent

Init ==
  /\ revision = 0 /\ db = Empty /\ blobs = {}
  /\ created = {} /\ resolved = {} /\ seeding = FALSE
  /\ pc = [k \in Collectors |-> "idle"]
  /\ job = [k \in Collectors |-> Nothing]
  /\ got = [k \in Collectors |-> Nothing]

\* A commit of new rows is accepted when their tables exist, what they refer
\* to does too, and no unique constraint is violated.
Accepted(new) ==
  LET rows == db.rows \cup new
  IN  /\ \A x \in new : x.table \in db.tables
      /\ \A x \in new : \A r \in db.refs :
           r.from = x.table => \E y \in rows : RefersBy(r, x, y)
      /\ \A u \in db.uniques : Satisfied(u, rows)

Insert(new) == db' = [db EXCEPT !.rows = @ \cup new]

-----------------------------------------------------------------------------
(* alembic upgrade and downgrade *)

\* A tenant that is deleted takes the id with it that requests have read.
Migrate(to) ==
  LET result == Run(Script(revision, to), db)
  IN  /\ to # revision /\ result.ok
      /\ revision' = to /\ db' = result.d
      /\ resolved' = IF DefaultTenant \in result.d.rows THEN resolved ELSE {}
  /\ UNCHANGED <<blobs, created, seeding, collector>>

-----------------------------------------------------------------------------
(* The seed script: SELECT, then INSERT under a new id *)

SeedLooksUp ==
  /\ "tenants" \in db.tables /\ DefaultTenant \notin db.rows /\ ~seeding
  /\ seeding' = TRUE
  /\ UNCHANGED <<revision, db, blobs, created, resolved, collector>>

\* The namespace is unique: the script fails when it has been inserted since.
SeedInserts ==
  /\ seeding /\ seeding' = FALSE
  /\ \/ DefaultTenant \notin db.rows /\ Accepted({DefaultTenant}) /\ Insert({DefaultTenant})
     \/ (DefaultTenant \in db.rows \/ ~Accepted({DefaultTenant})) /\ UNCHANGED db
  /\ UNCHANGED <<revision, blobs, created, resolved, collector>>

-----------------------------------------------------------------------------
(* POST /v1/runs: the tenant in a session of its own, then the run *)

ResolveTenant(r) ==
  /\ r \notin created \cup resolved /\ DefaultTenant \in db.rows
  /\ resolved' = resolved \cup {r}
  /\ UNCHANGED <<revision, db, blobs, created, seeding, collector>>

CreateRun(r) ==
  /\ r \in resolved
  /\ resolved' = resolved \ {r} /\ created' = created \cup {r}
  /\ Insert({Row("runs", r, NoContent)})
  /\ UNCHANGED <<revision, blobs, seeding, collector>>

-----------------------------------------------------------------------------
(* Commits of the pipeline's stages *)

\* A source and its audit row, its passages, statements and their links.
StageRows(r, c) ==
  {{Row("sources", r, Staged(c)), Row("audit_trace", r, NoContent)},
   {Row("passages", r, Staged(c))},
   {Row("statements", r, NoContent), Row("evidence_links", r, NoContent)}}

CommitStage(r) ==
  /\ \E c \in Contents \ Unsafe : \E new \in StageRows(r, c) :
       ~(new \subseteq db.rows) /\ Accepted(new) /\ Insert(new)
  /\ UNCHANGED <<revision, blobs, requests, collector>>

-----------------------------------------------------------------------------
(* URLConnector.collect *)

Goto(k, from, to) == pc[k] = from /\ pc' = [pc EXCEPT ![k] = to]

FetchUrl(k, r, c) ==
  /\ Goto(k, "idle", "lookup") /\ r \in created /\ c \in Serves[k]
  /\ job' = [job EXCEPT ![k] = [run |-> r, content |-> c]]
  /\ UNCHANGED <<revision, db, blobs, requests, got>>

\* The rows of any run with this digest.
Existing(k) ==
  {x \in db.rows : x.table = "sources" /\ x.content = job[k].content}

\* Mutant: the blob is put after the row is committed, if ever.
AfterLookup_NoBlob(content) == "insert"
AfterLookup(content) == IF content \in Unsafe THEN "insert" ELSE "put"

\* Mutant: a row of another run does not count.
SelectSource_OwnRun(k) ==
  /\ pc[k] = "lookup"
  /\ \/ \E x \in Existing(k) :
          /\ x.run = job[k].run
          /\ Goto(k, "lookup", "done") /\ got' = [got EXCEPT ![k] = x]
     \/ /\ \A x \in Existing(k) : x.run # job[k].run
        /\ "sources" \in db.tables
        /\ Goto(k, "lookup", AfterLookup(job[k].content)) /\ UNCHANGED got
  /\ UNCHANGED <<revision, db, blobs, requests, job>>

SelectSource(k) ==
  /\ pc[k] = "lookup"
  /\ \/ \E x \in Existing(k) :
          Goto(k, "lookup", "done") /\ got' = [got EXCEPT ![k] = x]
     \/ /\ Existing(k) = {} /\ "sources" \in db.tables
        /\ Goto(k, "lookup", AfterLookup(job[k].content)) /\ UNCHANGED got
  /\ UNCHANGED <<revision, db, blobs, requests, job>>

PutBlob(k) ==
  /\ Goto(k, "put", "insert")
  /\ blobs' = blobs \cup {job[k].content}
  /\ UNCHANGED <<revision, db, requests, job, got>>

\* A quarantined source has no passages.
SourceRows(r, c) ==
  {Row("sources", r, c)} \cup IF c \in Unsafe THEN {} ELSE {Row("passages", r, c)}

Gone(k) ==
  /\ pc' = [pc EXCEPT ![k] = "idle"] /\ job' = [job EXCEPT ![k] = Nothing]
  /\ got' = [got EXCEPT ![k] = Nothing]

\* A collect that raises is called again, unless its run no longer exists.
InsertSource(k) ==
  /\ pc[k] = "insert"
  /\ LET r == job[k].run
         c == job[k].content
         new == SourceRows(r, c)
         taken == Row("sources", r, c) \in db.rows
     IN  \/ /\ ~taken /\ Accepted(new) /\ Insert(new)
            /\ Goto(k, "insert", "done")
            /\ got' = [got EXCEPT ![k] = Row("sources", r, c)]
            /\ UNCHANGED job
         \/ /\ taken \/ ~Accepted(new)
            /\ \/ Row("runs", r, NoContent) \in db.rows
                  /\ Goto(k, "insert", "lookup") /\ UNCHANGED <<job, got>>
               \/ Row("runs", r, NoContent) \notin db.rows /\ Gone(k)
            /\ UNCHANGED db
  /\ UNCHANGED <<revision, blobs, requests>>

\* The process dies; or the caller has used the row.
Leave(k) ==
  /\ pc[k] # "idle" /\ Gone(k)
  /\ UNCHANGED <<revision, db, blobs, requests>>

Collect(k) == SelectSource(k) \/ PutBlob(k) \/ InsertSource(k)

-----------------------------------------------------------------------------

Next ==
  \/ \E to \in Revisions : Migrate(to)
  \/ SeedLooksUp \/ SeedInserts
  \/ \E r \in Runs : ResolveTenant(r) \/ CreateRun(r)
  \/ \E r \in Executed : CommitStage(r)
  \/ \E k \in Collectors :
       \/ \E r \in Runs : \E c \in Contents : FetchUrl(k, r, c)
       \/ Collect(k) \/ Leave(k)

Spec == Init /\ [][Next]_vars

\* A collect goes on until it returns.
FairSpec == Spec /\ \A k \in Collectors : WF_vars(Collect(k))

-----------------------------------------------------------------------------
(* Properties *)

TypeOK ==
  /\ revision \in Revisions
  /\ db.tables \subseteq Declared.tables
  /\ \A x \in db.rows : x.table \in db.tables /\ x.run \in Runs \cup {NoRun}
  /\ blobs \subseteq Contents /\ created \subseteq Runs /\ resolved \subseteq Runs
  /\ seeding \in BOOLEAN
  /\ pc \in [Collectors -> {"idle", "lookup", "put", "insert", "done"}]

\* However a database has been upgraded and downgraded, at the newest revision
\* it has the foreign keys, unique constraints and append-only triggers that
\* the models and their documentation declare.
SchemaIsDeclared == revision = Newest => Schema(db) = Declared

\* "alembic upgrade head", which every start of the container runs, cannot fail
\* on anything the code has stored, at whatever revision it stored it.
UpgradeApplies ==
  \A to \in Revisions : to > revision => Run(Script(revision, to), db).ok

\* "A run owning them can never be hard-deleted - provenance is tombstoned,
\* never destroyed" (docs/architecture.md:170): as long as the tables exist no
\* migration removes an append-only row, nor anything such a row rests on.
HistoryIsKept ==
  [][LET removed == db.rows \ db'.rows
     IN  removed # {} =>
           \A x \in db.rows : x.table \in AppendOnly \cap db'.tables =>
             Backing(db, {x}) \cap removed = {}]_vars

\* What a collect has returned is whole, whoever inserted it: a source that is
\* not quarantined comes with its passages and its blob.
CollectReturnsWhole ==
  \A k \in Collectors :
    pc[k] = "done" /\ got[k] \in db.rows /\ got[k].content \notin Unsafe =>
      /\ Row("passages", got[k].run, got[k].content) \in db.rows
      /\ got[k].content \in blobs

\* "Re-collection is idempotent" (collectors/url.py:8): a collect that loses a
\* race for its content and is called again gets the winner's row, under the
\* global as under the per-run constraint; it never fails for ever.
CollectsSucceed ==
  <>[](revision # 0) =>
    \A k \in Collectors : pc[k] # "idle" ~> pc[k] \in {"idle", "done"}

\* "a content hash already present returns the existing Source row without
\* duplicating rows" (collectors/url.py:9).
CollectedOnce ==
  \A x, y \in db.rows :
    x.table = "sources" /\ y.table = "sources" /\ x.content = y.content => x = y

\* "Ingest uri into the provenance store; return the persisted Source"
\* (collectors/url.py:69), for the run it was called for.
ReturnedForTheRun ==
  \A k \in Collectors : pc[k] = "done" => got[k].run = job[k].run
=============================================================================
