---------------------------- MODULE SourceIntake ----------------------------
(***************************************************************************)
(* Stages collect and store: how the URLs of the search checkpoint become  *)
(* `sources' rows, blobs and `passages' rows                               *)
(* (app/pipeline/stages/collect.py and store.py).                          *)
(*                                                                         *)
(* Executors run the two stages of one run, crash and are resumed; several *)
(* may run at once.  A source row is identified by its content_hash, which *)
(* is unique in the run.  A hash is modelled by what is hashed; a page by  *)
(* a model value, its chunks by the sequence of their texts.               *)
(***************************************************************************)
EXTENDS Naturals, Sequences, FiniteSets

CONSTANTS
  Urls,       \* the URLs of the search checkpoint, a sequence without repeats
  Denied,     \* those the egress allowlist refuses
  Pages,      \* Pages[u]: the contents a fetch of u may return
  Unsafe,     \* the contents the safety filter refuses
  Malformed,  \* the contents whose parser (PDF, DOCX, RTF) raises
  Chunks,     \* Chunks[c]: the texts of the passages of content c
  Executors,
  MaxFaults,  \* bound: crashes and service failures
  MaxBlobs    \* bound: blobs ever written

UrlSet == {Urls[i] : i \in DOMAIN Urls}
Contents == UNION {Pages[u] : u \in UrlSet}
Nothing == <<>>

Texts == UNION {{Chunks[c][i] : i \in DOMAIN Chunks[c]} : c \in Contents}

ASSUME IntakeAssumption ==
  /\ Urls \in Seq(UrlSet)
  /\ \A i, j \in DOMAIN Urls : Urls[i] = Urls[j] => i = j
  /\ Denied \subseteq UrlSet /\ Unsafe \subseteq Contents /\ Malformed \subseteq Contents
  /\ \A c \in Contents : Chunks[c] \in Seq(Texts)
  /\ IsFiniteSet(Executors)
  /\ MaxFaults \in Nat /\ MaxBlobs \in Nat

VARIABLES
  sources,   \* the source rows: [uri, hash, status, ref, page]
  blobs,     \* the blob store: blobs[ref] is a content
  passages,  \* the passage rows: [source, seq, text]
  cps,       \* which of the two stages are checkpointed
  pc, left,  \* per executor: point of control, stages to execute
  next,      \* index of the next URL
  existing,  \* URIs of the source rows read when collect began
  seen,      \* seen_hashes: content -> blob ref
  pending,   \* the source row about to be inserted
  todo,      \* store: fetched sources still to normalize
  hashes,    \* store: texts of passages stored when it began
  faults,
  found,     \* constant: did the search find the URLs, or none at all?
  overlap    \* history: have two executions ever been active at once?

db == <<sources, blobs, passages, cps>>
mine == <<left, next, existing, seen, pending, todo, hashes>>
vars == <<db, pc, mine, faults, found, overlap>>

Points == {"idle", "between", "url", "record", "store", "hashes", "normalize"}

\* What is hashed for content_hash.
OfUri(u) == <<"uri", u>>
OfContent(c) == <<"content", c>>
OfBoth(c, u) == <<"content:uri", c, u>>

Row(u, hash, status, ref, page) ==
  [uri |-> u, hash |-> hash, status |-> status, ref |-> ref, page |-> page]

Init ==
  /\ sources = {} /\ blobs = Nothing /\ passages = {} /\ cps = {}
  /\ pc = [e \in Executors |-> "idle"]
  /\ left = [e \in Executors |-> {}]
  /\ next = [e \in Executors |-> 1]
  /\ existing = [e \in Executors |-> {}]
  /\ seen = [e \in Executors |-> Nothing]
  /\ pending = [e \in Executors |-> Nothing]
  /\ todo = [e \in Executors |-> {}]
  /\ hashes = [e \in Executors |-> {}]
  /\ faults = 0 /\ found \in BOOLEAN /\ overlap = FALSE

Set(f, e, v) == [f EXCEPT ![e] = v]

Blank(e) ==
  /\ next' = Set(next, e, 1)
  /\ existing' = Set(existing, e, {})
  /\ seen' = Set(seen, e, Nothing)
  /\ pending' = Set(pending, e, Nothing)
  /\ todo' = Set(todo, e, {})
  /\ hashes' = Set(hashes, e, {})

\* The execution ends, whatever the reason.
Stop(e) ==
  /\ pc' = Set(pc, e, "idle")
  /\ left' = Set(left, e, {})
  /\ Blank(e)

\* completed_stages is read once, when the execution starts.
Start(e) ==
  /\ pc[e] = "idle" /\ {"collect", "store"} \ cps # {}
  /\ left' = Set(left, e, {"collect", "store"} \ cps)
  /\ pc' = Set(pc, e, "between")
  /\ UNCHANGED <<db, next, existing, seen, pending, todo, hashes, faults>>

\* The stage's checkpoint is saved; store is the last of the two.
Complete(e, stage) ==
  /\ cps' = cps \cup {stage}
  /\ left' = Set(left, e, left[e] \ {stage})
  /\ pc' = Set(pc, e, IF left[e] = {stage} THEN "idle" ELSE "between")
  /\ Blank(e)

-----------------------------------------------------------------------------
(* collect *)

\* Mutant: the URIs already collected are not read.
BeginCollect_Afresh(e) ==
  /\ pc[e] = "between" /\ "collect" \in left[e] /\ found
  /\ pc' = Set(pc, e, "url")
  /\ UNCHANGED <<db, mine, faults>>

BeginCollect(e) ==
  /\ pc[e] = "between" /\ "collect" \in left[e] /\ found
  /\ pc' = Set(pc, e, "url")
  /\ existing' = Set(existing, e, {s.uri : s \in sources})
  /\ UNCHANGED <<db, left, next, seen, pending, todo, hashes, faults>>

\* The checkpoint of search has no URLs: ValueError, at every resume.
NoUrls(e) ==
  /\ pc[e] = "between" /\ "collect" \in left[e] /\ ~ found
  /\ Stop(e)
  /\ UNCHANGED <<db, faults>>

AtUrl(e, u) == pc[e] = "url" /\ next[e] \in DOMAIN Urls /\ u = Urls[next[e]]

SkipUrl(e, u) ==
  /\ AtUrl(e, u) /\ u \in existing[e]
  /\ next' = Set(next, e, next[e] + 1)
  /\ UNCHANGED <<db, pc, left, existing, seen, pending, todo, hashes, faults>>

\* The row the current URL will get.
Prepare(e, r) ==
  /\ pc' = Set(pc, e, "record")
  /\ pending' = Set(pending, e, r)
  /\ UNCHANGED <<sources, passages, cps, left, next, existing, todo, hashes, faults>>

DenyUrl(e, u) ==
  /\ AtUrl(e, u) /\ u \notin existing[e] /\ u \in Denied
  /\ Prepare(e, Row(u, OfUri(u), "quarantined", 0, Nothing))
  /\ UNCHANGED <<blobs, seen>>

\* The allowlist lets u pass, and Fetcher.fetch returns a content or raises.
Fetchable(e, u) == AtUrl(e, u) /\ u \notin existing[e] \cup Denied

\* Mutant: a URL that cannot be fetched is passed over.
FetchFails_NoRow(e, u) ==
  /\ Fetchable(e, u)
  /\ next' = Set(next, e, next[e] + 1)
  /\ UNCHANGED <<db, pc, left, existing, seen, pending, todo, hashes, faults>>

FetchFails(e, u) ==
  /\ Fetchable(e, u)
  /\ Prepare(e, Row(u, OfUri(u), "failed", 0, Nothing))
  /\ UNCHANGED <<blobs, seen>>

FetchUnsafe(e, u) ==
  /\ Fetchable(e, u)
  /\ \E c \in Pages[u] \cap Unsafe :
       Prepare(e, Row(u, OfContent(c), "quarantined", 0, Nothing))
  /\ UNCHANGED <<blobs, seen>>

\* A content seen in this execution shares its blob; any other is put under
\* a fresh ref before its row exists.  seen maps contents to refs.
FetchSafe(e, u) ==
  /\ Fetchable(e, u)
  /\ \E c \in Pages[u] \ Unsafe :
       \/ /\ c \in DOMAIN seen[e]
          /\ Prepare(e, Row(u, OfBoth(c, u), "fetched", seen[e][c], c))
          /\ UNCHANGED <<blobs, seen>>
       \/ LET ref == Len(blobs) + 1
          IN  /\ c \notin DOMAIN seen[e]
              /\ ref <= MaxBlobs
              /\ blobs' = Append(blobs, c)
              /\ seen' = Set(seen, e, [d \in DOMAIN seen[e] \cup {c} |->
                                         IF d = c THEN ref ELSE seen[e][d]])
              /\ Prepare(e, Row(u, OfBoth(c, u), "fetched", ref, c))

\* _record_source: the row and its audit row in one commit.
RecordSource(e) ==
  /\ pc[e] = "record"
  /\ \A s \in sources : s.hash # pending[e].hash
  /\ sources' = sources \cup {pending[e]}
  /\ pc' = Set(pc, e, "url")
  /\ next' = Set(next, e, next[e] + 1)
  /\ pending' = Set(pending, e, Nothing)
  /\ UNCHANGED <<blobs, passages, cps, left, existing, seen, todo, hashes, faults>>

\* uq_sources_run_content_hash: the commit raises and the stage fails.
RecordConflict(e) ==
  /\ pc[e] = "record"
  /\ \E s \in sources : s.hash = pending[e].hash
  /\ Stop(e)
  /\ UNCHANGED <<db, faults>>

FinishCollect(e) ==
  /\ pc[e] = "url" /\ next[e] \notin DOMAIN Urls
  /\ Complete(e, "collect")
  /\ UNCHANGED <<sources, blobs, passages, faults>>

-----------------------------------------------------------------------------
(* store *)

Fetched == {s \in sources : s.status = "fetched"}

BeginStore(e) ==
  /\ pc[e] = "between" /\ left[e] = {"store"}
  /\ todo' = Set(todo, e, Fetched)
  /\ pc' = Set(pc, e, IF Fetched = {} THEN "normalize" ELSE "hashes")
  /\ UNCHANGED <<db, left, next, existing, seen, pending, hashes, faults>>

\* Mutant: the hashes of all passages are read, not those of its sources.
ReadHashes_All(e) ==
  /\ pc[e] = "hashes"
  /\ hashes' = Set(hashes, e, {p.text : p \in passages})
  /\ pc' = Set(pc, e, "normalize")
  /\ UNCHANGED <<db, left, next, existing, seen, pending, todo, faults>>

ReadHashes(e) ==
  /\ pc[e] = "hashes"
  /\ LET ids == {s.hash : s \in todo[e]}
     IN  hashes' = Set(hashes, e, {p.text : p \in {q \in passages : q.source \in ids}})
  /\ pc' = Set(pc, e, "normalize")
  /\ UNCHANGED <<db, left, next, existing, seen, pending, todo, faults>>

PassagesOf(s, c, skip) ==
  {[source |-> s.hash, seq |-> i, text |-> Chunks[c][i]] :
     i \in {j \in DOMAIN Chunks[c] : Chunks[c][j] \notin skip}}

Taken(new) ==
  \E p \in new, q \in passages : p.source = q.source /\ p.seq = q.seq

\* The blob is read, normalized and chunked; the passages and the source's
\* status are one commit.
NormalizeSource(e, s) ==
  /\ pc[e] = "normalize" /\ s \in todo[e]
  /\ s.ref \in DOMAIN blobs /\ blobs[s.ref] \notin Malformed
  /\ LET new == PassagesOf(s, blobs[s.ref], hashes[e])
     IN  ~ Taken(new) /\ passages' = passages \cup new
  /\ sources' = (sources \ {s}) \cup {[s EXCEPT !.status = "normalized"]}
  /\ todo' = Set(todo, e, todo[e] \ {s})
  /\ UNCHANGED <<blobs, cps, pc, left, next, existing, seen, pending, hashes,
                 faults>>

\* BlobNotFoundError, a content its parser refuses, or uq_passages_source_seq.
NormalizeRaises(e, s) ==
  /\ pc[e] = "normalize" /\ s \in todo[e]
  /\ \/ s.ref \notin DOMAIN blobs
     \/ s.ref \in DOMAIN blobs /\ blobs[s.ref] \in Malformed
     \/ s.ref \in DOMAIN blobs /\ Taken(PassagesOf(s, blobs[s.ref], hashes[e]))
  /\ Stop(e)
  /\ UNCHANGED <<db, faults>>

FinishStore(e) ==
  /\ pc[e] = "normalize" /\ todo[e] = {}
  /\ Complete(e, "store")
  /\ UNCHANGED <<sources, blobs, passages, faults>>

-----------------------------------------------------------------------------

\* A crash, or a service or the database failing, at any await.
Interrupt(e) ==
  /\ pc[e] # "idle" /\ faults < MaxFaults
  /\ faults' = faults + 1
  /\ Stop(e)
  /\ UNCHANGED db

Progress(e) ==
  \/ Start(e) \/ BeginCollect(e) \/ NoUrls(e)
  \/ \E u \in UrlSet : SkipUrl(e, u) \/ DenyUrl(e, u) \/ FetchFails(e, u)
                       \/ FetchUnsafe(e, u) \/ FetchSafe(e, u)
  \/ RecordSource(e) \/ RecordConflict(e) \/ FinishCollect(e)
  \/ BeginStore(e) \/ ReadHashes(e)
  \/ \E s \in todo[e] : NormalizeSource(e, s) \/ NormalizeRaises(e, s)
  \/ FinishStore(e)

Watch ==
  /\ overlap' = (overlap \/ Cardinality({e \in Executors : pc'[e] # "idle"}) > 1)
  /\ found' = found

Flow(e) == Progress(e) /\ Watch

Next == \E e \in Executors : Flow(e) \/ (Interrupt(e) /\ Watch)

Spec == Init /\ [][Next]_vars

\* The flow is scheduled, and resumed whenever it has stopped.
ResumedSpec == Spec /\ \A e \in Executors : WF_vars(Flow(e))

-----------------------------------------------------------------------------
(* Properties *)

RowType == {"fetched", "failed", "quarantined", "normalized"}

Hashes ==
  {OfUri(u) : u \in UrlSet} \cup {OfContent(c) : c \in Contents}
    \cup {OfBoth(c, u) : c \in Contents, u \in UrlSet}

Rows ==
  [uri : UrlSet, hash : Hashes, status : RowType, ref : Nat,
   page : Contents \cup {Nothing}]

TypeOK ==
  /\ sources \subseteq Rows
  /\ blobs \in Seq(Contents)
  /\ passages \subseteq [source : Hashes, seq : Nat, text : Texts]
  /\ cps \subseteq {"collect", "store"}
  /\ pc \in [Executors -> Points]
  /\ left \in [Executors -> SUBSET {"collect", "store"}]
  /\ next \in [Executors -> 1 .. Len(Urls) + 1]
  /\ existing \in [Executors -> SUBSET UrlSet]
  /\ DOMAIN seen = Executors
  /\ \A e \in Executors :
       DOMAIN seen[e] \subseteq Contents /\ seen[e] \in [DOMAIN seen[e] -> Nat]
  /\ pending \in [Executors -> Rows \cup {Nothing}]
  /\ todo \in [Executors -> SUBSET Rows]
  /\ hashes \in [Executors -> SUBSET Texts]
  /\ faults \in 0 .. MaxFaults
  /\ found \in BOOLEAN /\ overlap \in BOOLEAN

\* "Passage hashes use the chunk text so already-stored chunks are skipped on
\* resume (idempotent)" (store.py:5): the chunks dropped as already stored are
\* stored for that source, which has every passage of its content.
NormalizedSourceIsWhole ==
  \A s \in sources : s.status = "normalized" =>
    {p \in passages : p.source = s.hash} = PassagesOf(s, s.page, {})

\* While executions of the run follow each other, however they were cut off,
\* the three hold: no passage is lost, ...
ResumedSourceIsWhole == ~ overlap => NormalizedSourceIsWhole

\* ... resuming collect never records a URL twice, although the second fetch
\* may end differently from the first, ...
OneSourcePerUrl ==
  ~ overlap => \A s, t \in sources : s.uri = t.uri => s = t

\* ... and once collect is checkpointed every URL has a source row, once store
\* is no fetched source is left behind: the stages are never run again.
CheckpointsCoverTheWork ==
  ~ overlap =>
  /\ "collect" \in cps => \A u \in UrlSet : \E s \in sources : s.uri = u
  /\ "store" \in cps => Fetched = {}

\* What is recorded of a source, and of the sources with one of these states.
Entry(s) == [uri |-> s.uri, hash |-> s.hash, page |-> s.page]
Entries(states) == {Entry(s) : s \in {t \in sources : t.status \in states}}

Ledger == INSTANCE IntakeLedger WITH
  Wanted <- UrlSet,
  done <- cps,
  waiting <- Entries({"fetched"}),
  refused <- Entries({"failed", "quarantined"}),
  whole <- Entries({"normalized"}),
  kept <- passages

\* "URIs already collected for the run are skipped (idempotent resume)"
\* (collect.py:11) and "already-stored chunks are skipped on resume" (store.py:6):
\* until two executions of the run overlap, collect and store implement the
\* ledger.  Crashes, resumes and fetches that end differently the second time
\* neither record a URL twice nor touch what is recorded, a source gets all its
\* passages in one step, and a stage is checkpointed only when its work is done.
ImplementsIntake ==
  Ledger!Init /\ [][overlap' \/ Ledger!Next]_(Ledger!ledgerVars)

\* The fetched sources that no parser can read.
Unreadable == {s \in Fetched : s.page \in Malformed}

\* Resumed often enough, collect gets through whatever the fetches return,
\* unless the search found nothing (collect.py:90), and store too, unless a
\* source that was fetched cannot be parsed: the parser raises again at every
\* resume (store.py:54), and store is then never completed.  Two URLs that serve
\* the same refused page are a third exception (SourceIntake_poison.cfg), and
\* every reason is taken to fit the audit trace (at most 2000 characters).
IntakeCompletes ==
  found => <>("collect" \in cps /\ ("store" \in cps \/ Unreadable # {}))

\* "Normalize every fetched source and chunk it" (store.py:26), as a promise
\* that the stage ends.  Refuted by SourceIntake_malformed.cfg: one malformed
\* document, an answer like any other to collect, keeps the run from completing.
EveryIntakeCompletes == found => <>(cps = {"collect", "store"})
=============================================================================
