------------------------- MODULE SourceIntakeProofs -------------------------
(***************************************************************************)
(* Proofs about SourceIntake for any URLs, contents, chunks and executors, *)
(* any faults and any bound on the blobs.                                  *)
(***************************************************************************)
EXTENDS SourceIntake, FiniteSetTheorems, TLAPS

(***************************************************************************)
(* Type correctness.                                                       *)
(***************************************************************************)
LEMMA Constants ==
  /\ Len(Urls) \in Nat /\ DOMAIN Urls = 1 .. Len(Urls)
  /\ \A i \in DOMAIN Urls : Urls[i] \in UrlSet
  /\ \A i, j \in DOMAIN Urls : Urls[i] = Urls[j] => i = j
  /\ \A c \in Contents : \A i \in DOMAIN Chunks[c] : i \in Nat /\ Chunks[c][i] \in Texts
  /\ \A u \in UrlSet : Pages[u] \subseteq Contents
  /\ MaxFaults \in Nat /\ IsFiniteSet(Executors)
<1>1. Len(Urls) \in Nat /\ DOMAIN Urls = 1 .. Len(Urls)
  BY IntakeAssumption
<1>2. \A i \in DOMAIN Urls : Urls[i] \in UrlSet
  BY DEF UrlSet
<1>3. \A c \in Contents : \A i \in DOMAIN Chunks[c] : i \in Nat /\ Chunks[c][i] \in Texts
  BY IntakeAssumption
<1>4. \A u \in UrlSet : Pages[u] \subseteq Contents
  BY DEF Contents
<1>. QED
  BY <1>1, <1>2, <1>3, <1>4, IntakeAssumption

\* The types of what an executor keeps.
MineType ==
  /\ pc \in [Executors -> Points]
  /\ left \in [Executors -> SUBSET {"collect", "store"}]
  /\ next \in [Executors -> 1 .. Len(Urls) + 1]
  /\ existing \in [Executors -> SUBSET UrlSet]
  /\ DOMAIN seen = Executors
  /\ \A e \in Executors :
       DOMAIN seen[e] \subseteq Contents /\ seen[e] \in [DOMAIN seen[e] -> Nat]
  /\ pending \in [Executors -> Rows \cup {Nothing}]
  /\ todo \in [Executors -> SUBSET Rows]
  /\ hashes \in [Executors -> SUBSET Texts]

DbType ==
  /\ sources \subseteq Rows
  /\ blobs \in Seq(Contents)
  /\ passages \subseteq [source : Hashes, seq : Nat, text : Texts]
  /\ cps \subseteq {"collect", "store"}

\* A row is only recorded for a URL that collect has come to.
Recording ==
  \A e \in Executors :
    pc[e] = "record" => pending[e] \in Rows /\ next[e] \in DOMAIN Urls

LEMMA TypeParts ==
  /\ TypeOK <=> DbType /\ MineType /\ faults \in 0 .. MaxFaults /\ (found \in BOOLEAN /\ overlap \in BOOLEAN)
  /\ TypeOK' <=> DbType' /\ MineType' /\ faults' \in 0 .. MaxFaults
                 /\ (found' \in BOOLEAN /\ overlap' \in BOOLEAN)
<1>1. TypeOK <=> DbType /\ MineType /\ faults \in 0 .. MaxFaults /\ (found \in BOOLEAN /\ overlap \in BOOLEAN)
  BY Zenon DEF TypeOK, DbType, MineType
<1>2. TypeOK' <=> DbType' /\ MineType' /\ faults' \in 0 .. MaxFaults
                 /\ (found' \in BOOLEAN /\ overlap' \in BOOLEAN)
  BY Zenon DEF TypeOK, DbType, MineType
<1>. QED
  BY <1>1, <1>2

LEMMA InitTypeOK == Init => TypeOK
<1>1. Init => DbType
  BY DEF Init, DbType, Nothing
<1>2. Init => MineType
  BY Constants DEF Init, MineType, Nothing, Points
<1>3. Init => faults \in 0 .. MaxFaults
  BY Constants DEF Init
<1>4. Init => (found \in BOOLEAN /\ overlap \in BOOLEAN)
  BY Zenon DEF Init
<1>. QED
  BY <1>1, <1>2, <1>3, <1>4, TypeParts

LEMMA BlankType ==
  ASSUME MineType, NEW e \in Executors, Blank(e),
         pc' \in [Executors -> Points],
         left' \in [Executors -> SUBSET {"collect", "store"}]
  PROVE  MineType'
<1>. USE DEF MineType, Blank, Set, Nothing
<1>1. <<>> \in [{} -> Nat] /\ DOMAIN <<>> = {}
  OBVIOUS
<1>2. /\ DOMAIN seen' = Executors
      /\ \A f \in Executors :
           DOMAIN seen'[f] \subseteq Contents /\ seen'[f] \in [DOMAIN seen'[f] -> Nat]
  BY <1>1
<1>3. next' \in [Executors -> 1 .. Len(Urls) + 1]
  BY Constants
<1>. QED
  BY <1>2, <1>3

LEMMA StopType ==
  ASSUME MineType, NEW e \in Executors, Stop(e)
  PROVE  MineType'
<1>1. pc' \in [Executors -> Points] /\ left' \in [Executors -> SUBSET {"collect", "store"}]
  BY DEF Stop, Set, MineType, Points
<1>. QED
  BY <1>1, BlankType DEF Stop

LEMMA CompleteType ==
  ASSUME MineType, DbType, NEW e \in Executors, NEW stage \in {"collect", "store"},
         Complete(e, stage)
  PROVE  MineType' /\ cps' \subseteq {"collect", "store"}
<1>1. pc' \in [Executors -> Points] /\ left' \in [Executors -> SUBSET {"collect", "store"}]
  BY DEF Complete, Set, MineType, Points
<1>. QED
  BY <1>1, BlankType DEF Complete, DbType

\* The row of a URL, and what else a step of collect to it leaves alone.
LEMMA PrepareType ==
  ASSUME MineType, NEW e \in Executors, NEW u \in UrlSet, NEW hash \in Hashes,
         NEW status \in RowType, NEW ref \in Nat, NEW page \in Contents \cup {Nothing},
         Prepare(e, Row(u, hash, status, ref, page)),
         DOMAIN seen' = Executors,
         \A f \in Executors :
           DOMAIN seen'[f] \subseteq Contents /\ seen'[f] \in [DOMAIN seen'[f] -> Nat]
  PROVE  MineType'
<1>1. Row(u, hash, status, ref, page) \in Rows
  BY DEF Row, Rows
<1>. QED
  BY <1>1 DEF MineType, Prepare, Set, Points

LEMMA FetchType ==
  ASSUME MineType, DbType, NEW e \in Executors, NEW u \in UrlSet,
         DenyUrl(e, u) \/ FetchFails(e, u) \/ FetchUnsafe(e, u) \/ FetchSafe(e, u)
  PROVE  MineType' /\ DbType'
<1>. USE DEF RowType
<1>1. DOMAIN seen = Executors
      /\ \A f \in Executors :
           DOMAIN seen[f] \subseteq Contents /\ seen[f] \in [DOMAIN seen[f] -> Nat]
  BY DEF MineType
<1>2. 0 \in Nat /\ OfUri(u) \in Hashes
      /\ \A c \in Contents : OfContent(c) \in Hashes /\ OfBoth(c, u) \in Hashes
  BY DEF Hashes
<1>3. \A c \in Pages[u] : c \in Contents
  BY Constants
<1>4. CASE DenyUrl(e, u) \/ FetchFails(e, u)
  <2>1. MineType'
    BY <1>1, <1>2, <1>4, PrepareType DEF DenyUrl, FetchFails
  <2>. QED
    BY <1>4, <2>1 DEF DenyUrl, FetchFails, Prepare, DbType
<1>5. CASE FetchUnsafe(e, u)
  <2>1. MineType'
    BY <1>1, <1>2, <1>3, <1>5, PrepareType DEF FetchUnsafe
  <2>. QED
    BY <1>5, <2>1 DEF FetchUnsafe, Prepare, DbType
<1>6. CASE FetchSafe(e, u)
  <2>1. PICK c \in Pages[u] \ Unsafe : FetchSafe(e, u)!2!(c)
    BY <1>6 DEF FetchSafe
  <2>2. CASE c \in DOMAIN seen[e]
    <3>1. seen[e][c] \in Nat
      BY <1>1, <2>2
    <3>2. Prepare(e, Row(u, OfBoth(c, u), "fetched", seen[e][c], c)) /\ UNCHANGED <<blobs, seen>>
      BY <2>1, <2>2
    <3>3. MineType'
      BY <1>1, <1>2, <1>3, <3>1, <3>2, PrepareType
    <3>. QED
      BY <3>2, <3>3 DEF Prepare, DbType
  <2>3. CASE c \notin DOMAIN seen[e]
    <3>. DEFINE ref == Len(blobs) + 1
    <3>1. /\ Prepare(e, Row(u, OfBoth(c, u), "fetched", ref, c))
          /\ blobs' = Append(blobs, c)
          /\ seen' = [seen EXCEPT ![e] = [d \in DOMAIN seen[e] \cup {c} |->
                                            IF d = c THEN ref ELSE seen[e][d]]]
      BY <2>1, <2>3 DEF Set
    <3>2. ref \in Nat /\ blobs' \in Seq(Contents)
      BY <1>3, <3>1 DEF DbType
    <3>. HIDE DEF ref
    <3>3. /\ DOMAIN seen' = Executors
          /\ \A f \in Executors :
               DOMAIN seen'[f] \subseteq Contents /\ seen'[f] \in [DOMAIN seen'[f] -> Nat]
      BY <1>1, <1>3, <3>1, <3>2
    <3>4. MineType'
      BY <1>2, <1>3, <3>1, <3>2, <3>3, PrepareType
    <3>. QED
      BY <3>1, <3>2, <3>4 DEF Prepare, DbType
  <2>. QED
    BY <2>2, <2>3
<1>. QED
  BY <1>4, <1>5, <1>6

LEMMA ProgressType ==
  ASSUME MineType, DbType, Recording, NEW e \in Executors, Progress(e)
  PROVE  MineType' /\ DbType'
<1>. USE DEF db, mine
<1>1. CASE Start(e)
  BY <1>1 DEF Start, Set, MineType, DbType, Points
<1>2. CASE BeginCollect(e)
  <2>1. {s.uri : s \in sources} \subseteq UrlSet
    BY DEF DbType, Rows
  <2>. QED
    BY <1>2, <2>1 DEF BeginCollect, Set, MineType, DbType, Points
<1>3. ASSUME NEW u \in UrlSet, SkipUrl(e, u)
      PROVE  MineType' /\ DbType'
  BY <1>3, Constants DEF SkipUrl, AtUrl, Set, MineType, DbType, Points
<1>4. CASE RecordSource(e)
  BY <1>4, Constants DEF RecordSource, Set, MineType, DbType, Points, Recording
<1>5. CASE RecordConflict(e) \/ NoUrls(e)
  BY <1>5, StopType DEF RecordConflict, NoUrls, DbType
<1>6. CASE FinishCollect(e)
  BY <1>6, CompleteType DEF FinishCollect, DbType
<1>7. CASE BeginStore(e)
  <2>1. Fetched \subseteq Rows
    BY DEF Fetched, DbType
  <2>. QED
    BY <1>7, <2>1 DEF BeginStore, Set, MineType, DbType, Points
<1>8. CASE ReadHashes(e)
  <2>1. {p.text : p \in passages} \subseteq Texts
    BY DEF DbType
  <2>. QED
    BY <1>8, <2>1 DEF ReadHashes, Set, MineType, DbType, Points
<1>9. ASSUME NEW s \in todo[e], NormalizeSource(e, s)
      PROVE  MineType' /\ DbType'
  <2>1. s \in Rows
    BY DEF MineType
  <2>2. [s EXCEPT !.status = "normalized"] \in Rows
    BY <2>1 DEF Rows, RowType
  <2>3. blobs[s.ref] \in Contents
    BY <1>9 DEF NormalizeSource, DbType
  <2>4. PassagesOf(s, blobs[s.ref], hashes[e]) \subseteq
          [source : Hashes, seq : Nat, text : Texts]
    BY <2>1, <2>3, Constants DEF PassagesOf, Rows
  <2>. QED
    BY <1>9, <2>2, <2>4 DEF NormalizeSource, Set, MineType, DbType
<1>10. ASSUME NEW s \in todo[e], NormalizeRaises(e, s)
      PROVE  MineType' /\ DbType'
  BY <1>10, StopType DEF NormalizeRaises, DbType
<1>11. CASE FinishStore(e)
  BY <1>11, CompleteType DEF FinishStore, DbType
<1>. QED
  BY <1>1, <1>2, <1>3, <1>4, <1>5, <1>6, <1>7, <1>8, <1>9, <1>10, <1>11, FetchType DEF Progress

\* A step of one executor leaves alone what the others keep.
LEMMA Others ==
  ASSUME MineType, NEW e \in Executors, Progress(e) \/ Interrupt(e),
         NEW f \in Executors \ {e}
  PROVE  /\ pc'[f] = pc[f] /\ left'[f] = left[f] /\ next'[f] = next[f]
         /\ existing'[f] = existing[f] /\ seen'[f] = seen[f] /\ pending'[f] = pending[f]
         /\ todo'[f] = todo[f] /\ hashes'[f] = hashes[f]
<1>. USE DEF MineType, mine, Set, Blank
<1>1. CASE \/ Start(e) \/ BeginCollect(e) \/ RecordSource(e) \/ BeginStore(e) \/ ReadHashes(e)
           \/ \E u \in UrlSet : SkipUrl(e, u)
           \/ \E s \in todo[e] : NormalizeSource(e, s)
  BY <1>1 DEF Start, BeginCollect, RecordSource, BeginStore, ReadHashes, SkipUrl,
              NormalizeSource
<1>2. CASE \/ \E u \in UrlSet : DenyUrl(e, u) \/ FetchFails(e, u) \/ FetchUnsafe(e, u)
                                \/ FetchSafe(e, u)
  BY <1>2 DEF DenyUrl, FetchFails, FetchUnsafe, FetchSafe, Prepare
<1>3. CASE \/ RecordConflict(e) \/ NoUrls(e) \/ Interrupt(e) \/ \E s \in todo[e] : NormalizeRaises(e, s)
  BY <1>3 DEF RecordConflict, NoUrls, Interrupt, NormalizeRaises, Stop
<1>4. CASE FinishCollect(e) \/ FinishStore(e)
  BY <1>4 DEF FinishCollect, FinishStore, Complete
<1>. QED
  BY <1>1, <1>2, <1>3, <1>4 DEF Progress

LEMMA RecordingStep ==
  ASSUME MineType, DbType, MineType', Recording, NEW e \in Executors, Progress(e) \/ Interrupt(e)
  PROVE  Recording'
<1>1. pc'[e] = "record" => pending'[e] \in Rows /\ next'[e] \in DOMAIN Urls
  <2>. USE DEF MineType, mine, Set, Blank
  <2>1. CASE \/ Start(e) \/ BeginCollect(e) \/ RecordSource(e) \/ BeginStore(e)
             \/ ReadHashes(e)
             \/ \E u \in UrlSet : SkipUrl(e, u)
             \/ \E s \in todo[e] : NormalizeSource(e, s)
    BY <2>1 DEF Start, BeginCollect, RecordSource, BeginStore, ReadHashes, SkipUrl,
                AtUrl, NormalizeSource
  <2>2. CASE \E u \in UrlSet : DenyUrl(e, u) \/ FetchFails(e, u) \/ FetchUnsafe(e, u)
                               \/ FetchSafe(e, u)
    <3>1. next'[e] = next[e] /\ next[e] \in DOMAIN Urls
      BY <2>2 DEF DenyUrl, FetchFails, FetchUnsafe, FetchSafe, Prepare, Fetchable, AtUrl
    <3>2. \A u, hash, status, ref, page :
            Prepare(e, Row(u, hash, status, ref, page)) => pending'[e] # Nothing
      BY DEF Row, Nothing, Prepare
    <3>3. pending'[e] # Nothing
      BY <2>2, <3>2 DEF DenyUrl, FetchFails, FetchUnsafe, FetchSafe
    <3>. QED
      BY <3>1, <3>3
  <2>3. CASE \/ RecordConflict(e) \/ NoUrls(e) \/ Interrupt(e) \/ \E s \in todo[e] : NormalizeRaises(e, s)
    BY <2>3 DEF RecordConflict, NoUrls, Interrupt, NormalizeRaises, Stop
  <2>4. CASE FinishCollect(e) \/ FinishStore(e)
    BY <2>4 DEF FinishCollect, FinishStore, Complete
  <2>. QED
    BY <2>1, <2>2, <2>3, <2>4 DEF Progress
<1>. QED
  BY <1>1, Others DEF Recording

LEMMA NextTypeOK ==
  ASSUME TypeOK, Recording, [Next]_vars
  PROVE  TypeOK' /\ Recording'
<1>. USE TypeParts
<1>1. ASSUME NEW e \in Executors, Flow(e)
      PROVE  TypeOK' /\ Recording'
  <2>1. found' \in BOOLEAN /\ overlap' \in BOOLEAN
    BY <1>1, Zenon DEF Flow, Watch, TypeOK
  <2>2. faults' = faults
    BY <1>1 DEF Flow, Progress, Start, BeginCollect, SkipUrl, DenyUrl, FetchFails,
                FetchUnsafe, FetchSafe, Prepare, RecordSource, RecordConflict, NoUrls,
                FinishCollect, BeginStore, ReadHashes, NormalizeSource, NormalizeRaises,
                FinishStore
  <2>3. MineType' /\ DbType' /\ Recording'
    BY <1>1, ProgressType, RecordingStep DEF Flow
  <2>. QED
    BY <2>1, <2>2, <2>3
<1>2. ASSUME NEW e \in Executors, Interrupt(e), Watch
      PROVE  TypeOK' /\ Recording'
  <2>1. found' \in BOOLEAN /\ overlap' \in BOOLEAN
    BY <1>2, Zenon DEF Watch, TypeOK
  <2>2. faults' \in 0 .. MaxFaults
    BY <1>2, Constants DEF Interrupt
  <2>3. MineType' /\ DbType'
    BY <1>2, StopType DEF Interrupt, DbType, db
  <2>. QED
    BY <1>2, <2>1, <2>2, <2>3, RecordingStep
<1>3. CASE UNCHANGED vars
  <2>1. found' \in BOOLEAN /\ overlap' \in BOOLEAN /\ faults' \in 0 .. MaxFaults
    BY <1>3 DEF vars
  <2>. QED
    BY <1>3, <2>1 DEF vars, db, mine, MineType, DbType, Recording
<1>. QED
  BY <1>1, <1>2, <1>3 DEF Next

(***************************************************************************)
(* Executions that follow each other.                                      *)
(***************************************************************************)
Uris == {s.uri : s \in sources}

\* The rows, while executions follow each other.  A passage belongs to a source
\* that is normalized, and no two sources have one hash: a source that is only
\* fetched has no passages, and its blob is what was fetched.
RowsInv ==
  /\ \A s, t \in sources : s.hash = t.hash => s = t
  /\ \A s, t \in sources : s.uri = t.uri => s = t
  /\ \A s \in sources : s.status \in {"fetched", "normalized"} => s.page \in Contents
  /\ \A s \in sources : s.status = "fetched" =>
       s.ref \in DOMAIN blobs /\ blobs[s.ref] = s.page
  /\ \A p \in passages : \E s \in sources : s.status = "normalized" /\ p.source = s.hash
  /\ NormalizedSourceIsWhole
  /\ \A s \in sources : s.status = "normalized" => "collect" \in cps
  /\ "collect" \in cps => UrlSet \subseteq Uris
  /\ "store" \in cps => Fetched = {} /\ "collect" \in cps

\* An execution, as long as it is the only one.  The stages it has left are the
\* ones without a checkpoint; what collect has passed has a row, what it has
\* still to do has none unless it knows; store has read no passage of what it is
\* to normalize, and that is all there is to normalize.
ExecutorInv(e) ==
  /\ pc[e] # "idle" => left[e] = {"collect", "store"} \ cps
  /\ pc[e] \in {"idle", "between"} =>
       next[e] = 1 /\ seen[e] = Nothing /\ hashes[e] = {}
  /\ pc[e] \in {"url", "record"} =>
       /\ "collect" \in left[e]
       /\ existing[e] \subseteq Uris
       /\ Uris \subseteq existing[e] \cup {Urls[i] : i \in 1 .. next[e] - 1}
       /\ \A i \in 1 .. next[e] - 1 : Urls[i] \in Uris
  /\ \A c \in DOMAIN seen[e] :
       seen[e][c] \in DOMAIN blobs /\ blobs[seen[e][c]] = c
  /\ pc[e] = "record" =>
       /\ pending[e] \in Rows
       /\ next[e] \in DOMAIN Urls /\ pending[e].uri = Urls[next[e]]
       /\ pending[e].uri \notin existing[e]
       /\ pending[e].status # "normalized"
       /\ pending[e].status = "fetched" =>
            /\ pending[e].page \in Contents
            /\ pending[e].ref \in DOMAIN blobs
            /\ blobs[pending[e].ref] = pending[e].page
  /\ pc[e] \in {"hashes", "normalize"} =>
       left[e] = {"store"} /\ todo[e] = Fetched /\ hashes[e] = {}

OneActive ==
  \A e, f \in Executors : pc[e] # "idle" /\ pc[f] # "idle" => e = f

IntakeInv ==
  ~ overlap => RowsInv /\ OneActive /\ \A e \in Executors : ExecutorInv(e)

LEMMA TwoActive ==
  ASSUME Watch, ~overlap', NEW e \in Executors, NEW f \in Executors,
         pc'[e] # "idle", pc'[f] # "idle"
  PROVE  e = f
<1>. SUFFICES ASSUME e # f PROVE FALSE
  OBVIOUS
<1>. DEFINE active == {x \in Executors : pc'[x] # "idle"}
<1>1. IsFiniteSet(active)
  BY Constants, FS_Subset
<1>2. Cardinality({e, f}) = 2
  <2>1. IsFiniteSet({e}) /\ Cardinality({e}) = 1
    BY FS_Singleton
  <2>2. Cardinality({e} \cup {f}) = Cardinality({e}) + 1
    BY <2>1, FS_AddElement
  <2>3. {e} \cup {f} = {e, f}
    OBVIOUS
  <2>. QED
    BY <2>1, <2>2, <2>3
<1>3. {e, f} \in SUBSET active
  OBVIOUS
<1>4. Cardinality({e, f}) <= Cardinality(active)
  BY <1>1, <1>3, FS_Subset
<1>5. Cardinality(active) \in Nat
  BY <1>1, FS_CardinalityType
<1>6. ~ (Cardinality(active) > 1)
  BY Zenon DEF Watch
<1>. HIDE DEF active
<1>. QED
  BY <1>2, <1>4, <1>5, <1>6

\* An execution that has ended.
LEMMA Idle ==
  ASSUME NEW e \in Executors, pc'[e] = "idle",
         next'[e] = 1, seen'[e] = Nothing, hashes'[e] = {}
  PROVE  ExecutorInv(e)'
  BY DEF ExecutorInv, Nothing

LEMMA RowsFrame ==
  ASSUME RowsInv, DbType,
         UNCHANGED <<sources, passages, cps>>,
         blobs' = blobs \/ \E c \in Contents : blobs' = Append(blobs, c)
  PROVE  RowsInv'
<1>1. \A i \in DOMAIN blobs : i \in DOMAIN blobs' /\ blobs'[i] = blobs[i]
  BY DEF DbType
<1>. QED
  BY <1>1 DEF RowsInv, Uris, Fetched, NormalizedSourceIsWhole

\* A stage's checkpoint: what is left are still the stages without one.
LEMMA CompleteInv ==
  ASSUME MineType, NEW e \in Executors, NEW stage \in {"collect", "store"},
         ExecutorInv(e), pc[e] # "idle", Complete(e, stage), blobs' = blobs
  PROVE  ExecutorInv(e)'
<1>1. left'[e] = {"collect", "store"} \ cps'
  BY DEF ExecutorInv, Complete, Set, MineType
<1>2. /\ pc'[e] \in {"idle", "between"}
      /\ next'[e] = 1 /\ seen'[e] = Nothing /\ hashes'[e] = {}
  BY DEF Complete, Blank, Set, MineType
<1>. QED
  BY <1>1, <1>2 DEF ExecutorInv, Nothing

LEMMA StopInv ==
  ASSUME MineType, DbType, RowsInv, NEW e \in Executors, Stop(e), UNCHANGED db
  PROVE  RowsInv' /\ ExecutorInv(e)'
<1>1. pc'[e] = "idle" /\ next'[e] = 1 /\ seen'[e] = Nothing /\ hashes'[e] = {}
  BY DEF Stop, Blank, Set, MineType
<1>. QED
  BY <1>1, Idle, RowsFrame DEF db

LEMMA CollectInv ==
  ASSUME MineType, DbType, RowsInv, NEW e \in Executors, ExecutorInv(e),
         NEW u \in UrlSet,
         \/ SkipUrl(e, u) \/ DenyUrl(e, u) \/ FetchFails(e, u)
         \/ FetchUnsafe(e, u) \/ FetchSafe(e, u)
  PROVE  RowsInv' /\ ExecutorInv(e)'
<1>. USE DEF Set
<1>1. /\ pc[e] = "url" /\ next[e] \in DOMAIN Urls /\ u = Urls[next[e]]
      /\ next[e] \in 1 .. Len(Urls)
      /\ left[e] = {"collect", "store"} \ cps /\ "collect" \in left[e]
      /\ existing[e] \subseteq Uris
      /\ Uris \subseteq existing[e] \cup {Urls[i] : i \in 1 .. next[e] - 1}
      /\ \A i \in 1 .. next[e] - 1 : Urls[i] \in Uris
      /\ \A c \in DOMAIN seen[e] : seen[e][c] \in DOMAIN blobs /\ blobs[seen[e][c]] = c
  BY Constants DEF ExecutorInv, SkipUrl, DenyUrl, FetchFails, FetchUnsafe, FetchSafe,
                   Fetchable, AtUrl
<1>2. CASE SkipUrl(e, u)
  <2>1. /\ u \in existing[e] /\ next'[e] = next[e] + 1 /\ pc'[e] = "url"
        /\ left'[e] = left[e] /\ existing'[e] = existing[e] /\ seen'[e] = seen[e]
        /\ UNCHANGED db
    BY <1>1, <1>2 DEF SkipUrl, MineType
  <2>2. Uris' = Uris /\ cps' = cps /\ blobs' = blobs
    BY <2>1 DEF db, Uris
  <2>3. \A i \in 1 .. next'[e] - 1 : Urls[i] \in Uris
    <3>. SUFFICES ASSUME NEW i \in 1 .. next'[e] - 1 PROVE Urls[i] \in Uris
      OBVIOUS
    <3>1. i = next[e] \/ i \in 1 .. next[e] - 1
      BY <1>1, <2>1
    <3>. QED
      BY <1>1, <2>1, <3>1
  <2>4. 1 .. next[e] - 1 \subseteq 1 .. next'[e] - 1
    BY <1>1, <2>1
  <2>5. ExecutorInv(e)'
    BY <1>1, <2>1, <2>2, <2>3, <2>4 DEF ExecutorInv
  <2>. QED
    BY <2>1, <2>5, RowsFrame DEF db
<1>3. ASSUME NEW r \in Rows, Prepare(e, r), r.uri = u, u \notin existing[e],
             r.status # "normalized",
             r.status = "fetched" =>
               r.page \in Contents /\ r.ref \in DOMAIN blobs' /\ blobs'[r.ref] = r.page,
             \A c \in DOMAIN seen'[e] : seen'[e][c] \in DOMAIN blobs' /\ blobs'[seen'[e][c]] = c,
             blobs' = blobs \/ \E c \in Contents : blobs' = Append(blobs, c)
      PROVE  RowsInv' /\ ExecutorInv(e)'
  <2>1. /\ pc'[e] = "record" /\ pending'[e] = r /\ next'[e] = next[e]
        /\ left'[e] = left[e] /\ existing'[e] = existing[e] /\ cps' = cps
        /\ UNCHANGED <<sources, passages>>
    BY <1>3 DEF Prepare, MineType
  <2>2. Uris' = Uris
    BY <2>1 DEF Uris
  <2>3. ExecutorInv(e)'
    BY <1>1, <1>3, <2>1, <2>2 DEF ExecutorInv
  <2>. QED
    BY <1>3, <2>1, <2>3, RowsFrame
<1>4. /\ u \in UrlSet /\ OfUri(u) \in Hashes /\ 0 \in Nat /\ Nothing \in Contents \cup {Nothing}
      /\ \A c \in Contents : OfContent(c) \in Hashes /\ OfBoth(c, u) \in Hashes
      /\ \A c \in Pages[u] : c \in Contents
  BY Constants DEF Hashes
<1>5. CASE DenyUrl(e, u) \/ FetchFails(e, u) \/ FetchUnsafe(e, u)
  <2>1. PICK hash \in Hashes, status \in {"quarantined", "failed"} :
          Prepare(e, Row(u, hash, status, 0, Nothing))
    BY <1>4, <1>5 DEF DenyUrl, FetchFails, FetchUnsafe
  <2>. DEFINE r == Row(u, hash, status, 0, Nothing)
  <2>2. r \in Rows /\ r.uri = u /\ r.status = status
    BY <1>4 DEF Row, Rows, RowType
  <2>3. u \notin existing[e] /\ UNCHANGED <<blobs, seen>>
    BY <1>5 DEF DenyUrl, FetchFails, FetchUnsafe, Fetchable
  <2>. HIDE DEF r
  <2>. QED
    BY <1>1, <1>3, <2>1, <2>2, <2>3 DEF r
<1>6. CASE FetchSafe(e, u)
  <2>1. PICK c \in Pages[u] \ Unsafe : FetchSafe(e, u)!2!(c)
    BY <1>6 DEF FetchSafe
  <2>2. c \in Contents /\ u \notin existing[e]
    BY <1>4, <1>6 DEF FetchSafe, Fetchable
  <2>3. ASSUME NEW ref \in Nat
        PROVE  LET r == Row(u, OfBoth(c, u), "fetched", ref, c)
               IN  r \in Rows /\ r.uri = u /\ r.status = "fetched" /\ r.ref = ref /\ r.page = c
    BY <1>4, <2>2 DEF Row, Rows, RowType
  <2>4. CASE c \in DOMAIN seen[e]
    <3>. DEFINE ref == seen[e][c]
    <3>1. Prepare(e, Row(u, OfBoth(c, u), "fetched", ref, c)) /\ UNCHANGED <<blobs, seen>>
      BY <2>1, <2>4
    <3>2. ref \in DOMAIN blobs /\ blobs[ref] = c /\ ref \in Nat
      BY <1>1, <2>4 DEF MineType
    <3>. HIDE DEF ref
    <3>. QED
      BY <1>1, <1>3, <2>2, <2>3, <3>1, <3>2
  <2>5. CASE c \notin DOMAIN seen[e]
    <3>. DEFINE ref == Len(blobs) + 1
    <3>1. /\ Prepare(e, Row(u, OfBoth(c, u), "fetched", ref, c))
          /\ blobs' = Append(blobs, c)
          /\ seen' = [seen EXCEPT ![e] = [d \in DOMAIN seen[e] \cup {c} |->
                                            IF d = c THEN ref ELSE seen[e][d]]]
      BY <2>1, <2>5
    <3>2. /\ ref \in Nat /\ ref \in DOMAIN blobs' /\ blobs'[ref] = c
          /\ \A i \in DOMAIN blobs : i \in DOMAIN blobs' /\ blobs'[i] = blobs[i]
      BY <2>2, <3>1 DEF DbType
    <3>. HIDE DEF ref
    <3>3. seen'[e] = [d \in DOMAIN seen[e] \cup {c} |-> IF d = c THEN ref ELSE seen[e][d]]
      BY <3>1 DEF MineType
    <3>4. \A d \in DOMAIN seen'[e] : seen'[e][d] \in DOMAIN blobs' /\ blobs'[seen'[e][d]] = d
      BY <1>1, <3>2, <3>3
    <3>. QED
      BY <1>3, <2>2, <2>3, <3>1, <3>2, <3>4
  <2>. QED
    BY <2>4, <2>5
<1>. QED
  BY <1>2, <1>5, <1>6

\* The row about to be committed is of a URL that has none.
LEMMA Unrecorded ==
  ASSUME MineType, DbType, RowsInv, NEW e \in Executors, ExecutorInv(e), pc[e] = "record"
  PROVE  /\ pending[e] \in Rows /\ pending[e].uri \notin Uris
         /\ cps = {} /\ pending[e].status # "normalized"
<1>1. /\ pending[e] \in Rows /\ pending[e].uri = Urls[next[e]]
      /\ next[e] \in 1 .. Len(Urls) /\ pending[e].uri \notin existing[e]
      /\ pending[e].status # "normalized"
      /\ left[e] = {"collect", "store"} \ cps /\ "collect" \in left[e]
      /\ Uris \subseteq existing[e] \cup {Urls[i] : i \in 1 .. next[e] - 1}
  BY Constants DEF ExecutorInv
<1>2. pending[e].uri \notin Uris
  BY <1>1, Constants
<1>3. cps = {}
  BY <1>1 DEF RowsInv, DbType
<1>. QED
  BY <1>1, <1>2, <1>3

LEMMA RecordInv ==
  ASSUME MineType, DbType, RowsInv, NEW e \in Executors, ExecutorInv(e), RecordSource(e)
  PROVE  RowsInv' /\ ExecutorInv(e)'
<1>. DEFINE r == pending[e]
            u == Urls[next[e]]
<1>1. /\ pc[e] = "record" /\ r \in Rows /\ r.uri = u /\ u \notin existing[e]
      /\ next[e] \in 1 .. Len(Urls) /\ r.status # "normalized"
      /\ r.status = "fetched" =>
           r.page \in Contents /\ r.ref \in DOMAIN blobs /\ blobs[r.ref] = r.page
      /\ left[e] = {"collect", "store"} \ cps /\ "collect" \in left[e]
      /\ existing[e] \subseteq Uris
      /\ Uris \subseteq existing[e] \cup {Urls[i] : i \in 1 .. next[e] - 1}
      /\ \A i \in 1 .. next[e] - 1 : Urls[i] \in Uris
  BY Constants DEF ExecutorInv, RecordSource
<1>2. /\ \A s \in sources : s.hash # r.hash
      /\ sources' = sources \cup {r} /\ UNCHANGED <<blobs, passages, cps>>
      /\ pc'[e] = "url" /\ next'[e] = next[e] + 1
      /\ left'[e] = left[e] /\ existing'[e] = existing[e] /\ seen'[e] = seen[e]
  BY DEF RecordSource, Set, MineType
<1>3. u \notin Uris
  BY <1>1, Constants
<1>4. Uris' = Uris \cup {u}
  BY <1>1, <1>2 DEF Uris
<1>. HIDE DEF r, u
<1>5. RowsInv'
  <2>1. "collect" \notin cps /\ "store" \notin cps
    BY <1>1 DEF RowsInv
  <2>2. \A s \in sources : s.uri # r.uri
    BY <1>1, <1>3 DEF Uris
  <2>3. NormalizedSourceIsWhole'
    BY <1>1, <1>2 DEF NormalizedSourceIsWhole, RowsInv
  <2>. QED
    BY <1>1, <1>2, <2>1, <2>2, <2>3 DEF RowsInv
<1>6. ExecutorInv(e)'
  <2>1. \A i \in 1 .. next'[e] - 1 : i \in 1 .. next[e] - 1 \/ i = next[e]
    BY <1>1, <1>2
  <2>2. Uris' \subseteq existing[e] \cup {Urls[i] : i \in 1 .. next'[e] - 1}
    <3>1. next[e] \in 1 .. next'[e] - 1 /\ 1 .. next[e] - 1 \subseteq 1 .. next'[e] - 1
      BY <1>1, <1>2
    <3>. QED
      BY <1>1, <1>4, <3>1 DEF u
  <2>3. \A i \in 1 .. next'[e] - 1 : Urls[i] \in Uris'
    BY <1>1, <1>4, <2>1 DEF u
  <2>4. \A c \in DOMAIN seen[e] : seen[e][c] \in DOMAIN blobs /\ blobs[seen[e][c]] = c
    BY DEF ExecutorInv
  <2>. QED
    BY <1>1, <1>2, <1>4, <2>2, <2>3, <2>4 DEF ExecutorInv
<1>. QED
  BY <1>5, <1>6

LEMMA NormalizeInv ==
  ASSUME MineType, DbType, RowsInv, NEW e \in Executors, ExecutorInv(e),
         NEW s \in todo[e], NormalizeSource(e, s)
  PROVE  RowsInv' /\ ExecutorInv(e)'
<1>. DEFINE t == [s EXCEPT !.status = "normalized"]
            new == PassagesOf(s, s.page, {})
<1>1. /\ pc[e] = "normalize" /\ left[e] = {"store"} /\ left[e] = {"collect", "store"} \ cps
      /\ todo[e] = Fetched /\ hashes[e] = {}
      /\ \A c \in DOMAIN seen[e] : seen[e][c] \in DOMAIN blobs /\ blobs[seen[e][c]] = c
  BY DEF ExecutorInv, NormalizeSource
<1>2. s \in sources /\ s.status = "fetched" /\ s \in Rows
  BY <1>1 DEF Fetched, DbType
<1>3. blobs[s.ref] = s.page /\ s.page \in Contents
  BY <1>2 DEF RowsInv
<1>4. /\ passages' = passages \cup new /\ sources' = (sources \ {s}) \cup {t}
      /\ UNCHANGED <<blobs, cps>>
      /\ pc'[e] = pc[e] /\ left'[e] = left[e] /\ seen'[e] = seen[e]
      /\ hashes'[e] = hashes[e] /\ todo'[e] = todo[e] \ {s}
  BY <1>1, <1>3 DEF NormalizeSource, Set, MineType
<1>5. /\ t.uri = s.uri /\ t.hash = s.hash /\ t.status = "normalized"
      /\ t.page = s.page /\ t.ref = s.ref
  BY <1>2 DEF Rows
<1>6. \A p \in new : p.source = s.hash
  BY DEF PassagesOf
<1>7. \A p \in passages : p.source # s.hash
  BY <1>2 DEF RowsInv
<1>8. PassagesOf(t, t.page, {}) = new
  BY <1>5 DEF PassagesOf
<1>. HIDE DEF t, new
<1>9. Fetched' = Fetched \ {s}
  BY <1>4, <1>5 DEF Fetched
<1>10. Uris' = Uris
  BY <1>2, <1>4, <1>5 DEF Uris
<1>11. RowsInv'
  <2>1. /\ \A a, b \in sources' : a.hash = b.hash => a = b
        /\ \A a, b \in sources' : a.uri = b.uri => a = b
    BY <1>2, <1>4, <1>5 DEF RowsInv
  <2>2. \A a \in sources' : a.status = "fetched" =>
          a.ref \in DOMAIN blobs /\ blobs[a.ref] = a.page
    BY <1>4, <1>5 DEF RowsInv
  <2>3. \A p \in passages' : \E a \in sources' : a.status = "normalized" /\ p.source = a.hash
    <3>1. \A p \in new : t.status = "normalized" /\ p.source = t.hash
      BY <1>5, <1>6
    <3>2. \A p \in passages : \E a \in sources \ {s} :
            a.status = "normalized" /\ p.source = a.hash
      BY <1>2 DEF RowsInv
    <3>. QED
      BY <1>4, <3>1, <3>2
  <2>4. NormalizedSourceIsWhole'
    <3>. SUFFICES ASSUME NEW a \in sources', a.status = "normalized"
                  PROVE  {p \in passages' : p.source = a.hash} = PassagesOf(a, a.page, {})
      BY DEF NormalizedSourceIsWhole
    <3>1. CASE a = t
      BY <1>4, <1>5, <1>6, <1>7, <1>8, <3>1
    <3>2. CASE a # t
      <4>1. a \in sources /\ a # s /\ a.hash # s.hash
        BY <1>2, <1>4, <3>2 DEF RowsInv
      <4>2. {p \in passages : p.source = a.hash} = PassagesOf(a, a.page, {})
        BY <4>1 DEF RowsInv, NormalizedSourceIsWhole
      <4>. QED
        BY <1>4, <1>6, <4>1, <4>2
    <3>. QED
      BY <3>1, <3>2
  <2>5. \A a \in sources' : a.status \in {"fetched", "normalized"} => a.page \in Contents
    BY <1>3, <1>4, <1>5 DEF RowsInv
  <2>. QED
    BY <1>1, <1>4, <1>9, <1>10, <2>1, <2>2, <2>3, <2>4, <2>5 DEF RowsInv
<1>12. ExecutorInv(e)'
  BY <1>1, <1>4, <1>9 DEF ExecutorInv
<1>. QED
  BY <1>11, <1>12

LEMMA StepInv ==
  ASSUME MineType, DbType, RowsInv, NEW e \in Executors, ExecutorInv(e), Progress(e)
  PROVE  RowsInv' /\ ExecutorInv(e)'
<1>. USE DEF db, mine, Set
<1>1. CASE Start(e)
  BY <1>1, RowsFrame DEF Start, MineType, ExecutorInv, Nothing
<1>2. CASE BeginCollect(e)
  <2>1. /\ pc'[e] = "url" /\ next[e] = 1 /\ next'[e] = 1 /\ existing'[e] = Uris
        /\ seen'[e] = Nothing /\ left'[e] = left[e] /\ UNCHANGED db
        /\ left[e] = {"collect", "store"} \ cps /\ "collect" \in left[e]
    BY <1>2 DEF BeginCollect, MineType, ExecutorInv, Uris
  <2>2. Uris' = Uris
    BY <2>1 DEF Uris
  <2>. QED
    BY <2>1, <2>2, RowsFrame DEF ExecutorInv, Nothing
<1>3. CASE FinishCollect(e)
  <2>1. /\ pc[e] = "url" /\ next[e] \in 1 .. Len(Urls) + 1 /\ next[e] \notin 1 .. Len(Urls)
        /\ \A i \in 1 .. next[e] - 1 : Urls[i] \in Uris
    BY <1>3, Constants DEF FinishCollect, ExecutorInv, MineType
  <2>2. next[e] - 1 = Len(Urls)
    BY <2>1, Constants
  <2>3. UrlSet \subseteq Uris
    BY <2>1, <2>2, Constants DEF UrlSet
  <2>4. cps' = cps \cup {"collect"} /\ UNCHANGED <<sources, blobs, passages>>
    BY <1>3 DEF FinishCollect, Complete
  <2>5. RowsInv'
    BY <2>3, <2>4 DEF RowsInv, Uris, Fetched, NormalizedSourceIsWhole
  <2>. QED
    BY <1>3, <2>1, <2>5, CompleteInv DEF FinishCollect
<1>4. CASE BeginStore(e)
  <2>1. /\ pc'[e] \in {"hashes", "normalize"} /\ left'[e] = {"store"}
        /\ left[e] = {"store"} /\ left[e] = {"collect", "store"} \ cps
        /\ todo'[e] = Fetched /\ hashes'[e] = {} /\ seen'[e] = Nothing /\ UNCHANGED db
    BY <1>4 DEF BeginStore, MineType, ExecutorInv
  <2>2. Fetched' = Fetched
    BY <2>1 DEF Fetched
  <2>. QED
    BY <2>1, <2>2, RowsFrame DEF ExecutorInv, Nothing
<1>5. CASE ReadHashes(e)
  <2>1. /\ pc[e] = "hashes" /\ pc'[e] = "normalize" /\ todo'[e] = todo[e]
        /\ todo[e] = Fetched /\ left'[e] = left[e] /\ left[e] = {"store"}
        /\ left[e] = {"collect", "store"} \ cps
        /\ seen'[e] = seen[e] /\ UNCHANGED db
        /\ hashes'[e] =
             {p.text : p \in {q \in passages : q.source \in {s.hash : s \in Fetched}}}
    BY <1>5 DEF ReadHashes, MineType, ExecutorInv
  <2>2. \A q \in passages : q.source \notin {s.hash : s \in Fetched}
    BY DEF RowsInv, Fetched
  <2>3. hashes'[e] = {} /\ Fetched' = Fetched
    BY <2>1, <2>2 DEF Fetched
  <2>4. \A c \in DOMAIN seen[e] : seen[e][c] \in DOMAIN blobs /\ blobs[seen[e][c]] = c
    BY DEF ExecutorInv
  <2>. QED
    BY <2>1, <2>3, <2>4, RowsFrame DEF ExecutorInv
<1>6. CASE FinishStore(e)
  <2>1. /\ pc[e] = "normalize" /\ Fetched = {} /\ "collect" \in cps
    BY <1>6 DEF FinishStore, ExecutorInv
  <2>2. cps' = cps \cup {"store"} /\ UNCHANGED <<sources, blobs, passages>>
    BY <1>6 DEF FinishStore, Complete
  <2>3. RowsInv'
    BY <2>1, <2>2 DEF RowsInv, Uris, Fetched, NormalizedSourceIsWhole
  <2>. QED
    BY <1>6, <2>1, <2>3, CompleteInv DEF FinishStore
<1>7. CASE RecordConflict(e) \/ NoUrls(e) \/ \E s \in todo[e] : NormalizeRaises(e, s)
  BY <1>7, StopInv DEF RecordConflict, NoUrls, NormalizeRaises
<1>. QED
  BY <1>1, <1>2, <1>3, <1>4, <1>5, <1>6, <1>7, CollectInv, RecordInv, NormalizeInv DEF Progress

\* Other executions are idle as long as no two were active at once.
LEMMA IntakeStep ==
  ASSUME TypeOK, IntakeInv, [Next]_vars
  PROVE  IntakeInv'
<1>. USE TypeParts
<1>1. ASSUME NEW e \in Executors, Progress(e) \/ Interrupt(e), Watch, ~overlap'
      PROVE  RowsInv' /\ OneActive' /\ \A f \in Executors : ExecutorInv(f)'
  <2>1. ~overlap
    BY <1>1, Zenon DEF Watch
  <2>2. RowsInv /\ OneActive /\ \A f \in Executors : ExecutorInv(f)
    BY <2>1 DEF IntakeInv
  <2>3. RowsInv' /\ ExecutorInv(e)'
    BY <1>1, <2>2, StepInv, StopInv DEF Interrupt
  <2>4. OneActive'
    BY <1>1, TwoActive DEF OneActive
  <2>5. ASSUME NEW f \in Executors \ {e}
        PROVE  ExecutorInv(f)'
    <3>1. /\ pc'[f] = pc[f] /\ next'[f] = next[f] /\ seen'[f] = seen[f]
          /\ hashes'[f] = hashes[f]
      BY <1>1, Others
    <3>2. CASE pc[f] = "idle"
      BY <2>2, <3>1, <3>2, Idle DEF ExecutorInv
    <3>3. CASE pc[f] # "idle"
      <4>1. pc'[e] = "idle"
        BY <2>4, <3>1, <3>3 DEF OneActive
      <4>2. pc[e] # "idle"
        BY <1>1, <4>1 DEF Progress, Interrupt, Start, MineType, Set, BeginCollect, SkipUrl,
             DenyUrl, FetchFails, FetchUnsafe, FetchSafe, Fetchable, AtUrl, RecordSource,
             RecordConflict, NoUrls, FinishCollect, BeginStore, ReadHashes, NormalizeSource,
             NormalizeRaises, FinishStore
      <4>. QED
        BY <2>2, <3>3, <4>2 DEF OneActive
    <3>. QED
      BY <3>2, <3>3
  <2>. QED
    BY <2>3, <2>4, <2>5
<1>2. CASE UNCHANGED vars
  BY <1>2 DEF vars, db, mine, IntakeInv, RowsInv, OneActive, ExecutorInv, Uris, Fetched,
              NormalizedSourceIsWhole
<1>. QED
  BY <1>1, <1>2 DEF Next, Flow, IntakeInv

(***************************************************************************)
(* Executions that follow each other implement IntakeLedger.               *)
(***************************************************************************)
LEMMA EntryOfRow ==
  ASSUME NEW s
  PROVE  Entry(s).uri = s.uri /\ Entry(s).hash = s.hash /\ Entry(s).page = s.page
  BY DEF Entry

\* A row is known by its entry, and a state by the rows that have it.
LEMMA EntryIsRow ==
  ASSUME RowsInv, NEW s \in sources, NEW states
  PROVE  Entry(s) \in Entries(states) <=> s.status \in states
<1>1. ASSUME NEW t \in sources, Entry(s) = Entry(t) PROVE s = t
  BY <1>1, EntryOfRow DEF RowsInv
<1>. QED
  BY <1>1 DEF Entries

LEMMA StatesOfRows ==
  ASSUME NEW s \in Rows
  PROVE  s.status \in {"fetched", "failed", "quarantined", "normalized"}
  BY DEF Rows, RowType

LEMMA LedgerFrame ==
  ASSUME UNCHANGED <<sources, passages, cps>>
  PROVE  UNCHANGED Ledger!ledgerVars
<1>1. \A states : Entries(states)' = Entries(states)
  BY DEF Entries
<1>. QED
  BY <1>1 DEF Ledger!ledgerVars

\* The commit of a source row records its URL.
LEMMA RecordInLedger ==
  ASSUME MineType, DbType, RowsInv, NEW e \in Executors, ExecutorInv(e), RecordSource(e)
  PROVE  Ledger!Record
<1>. DEFINE r == pending[e]
            x == Entry(r)
<1>1. /\ pc[e] = "record" /\ sources' = sources \cup {r}
      /\ \A s \in sources : s.hash # r.hash
      /\ UNCHANGED <<passages, cps>>
  BY DEF RecordSource
<1>2. r \in Rows /\ r.uri \notin Uris /\ cps = {} /\ r.status # "normalized"
  BY <1>1, Unrecorded
<1>3. x.uri = r.uri /\ x.hash = r.hash
  BY EntryOfRow
<1>. HIDE DEF r
<1>4. \A states : Entries(states)' = Entries(states) \cup (IF r.status \in states THEN {x} ELSE {})
  BY <1>1 DEF Entries
<1>5. Ledger!New(x)
  <2>1. x.uri \in UrlSet
    BY <1>2, <1>3 DEF Rows
  <2>2. \A states : \A y \in Entries(states) : y.uri # x.uri /\ y.hash # x.hash
    BY <1>1, <1>2, <1>3, EntryOfRow DEF Entries, Uris
  <2>. QED
    BY <2>1, <2>2 DEF Ledger!New
<1>. HIDE DEF x
<1>6. Entries({"normalized"})' = Entries({"normalized"})
  BY <1>2, <1>4
<1>7. CASE r.status = "fetched"
  <2>1. /\ Entries({"fetched"})' = Entries({"fetched"}) \cup {x}
        /\ Entries({"failed", "quarantined"})' = Entries({"failed", "quarantined"})
    BY <1>4, <1>7
  <2>. QED
    BY <1>1, <1>2, <1>5, <1>6, <2>1 DEF Ledger!Record
<1>8. CASE r.status \in {"failed", "quarantined"}
  <2>1. /\ Entries({"fetched"})' = Entries({"fetched"})
        /\ Entries({"failed", "quarantined"})' = Entries({"failed", "quarantined"}) \cup {x}
    BY <1>4, <1>8
  <2>. QED
    BY <1>1, <1>2, <1>5, <1>6, <2>1 DEF Ledger!Record
<1>. QED
  BY <1>2, <1>7, <1>8, StatesOfRows

\* The commit of a source's passages and status makes it whole.
LEMMA NormalizeInLedger ==
  ASSUME MineType, DbType, RowsInv, NEW e \in Executors, ExecutorInv(e),
         NEW s \in todo[e], NormalizeSource(e, s)
  PROVE  Ledger!MakeWhole
<1>. DEFINE t == [s EXCEPT !.status = "normalized"]
            x == Entry(s)
<1>1. /\ pc[e] = "normalize" /\ {"collect", "store"} \ cps = {"store"}
      /\ todo[e] = Fetched /\ hashes[e] = {}
  BY DEF ExecutorInv, NormalizeSource
<1>2. s \in sources /\ s.status = "fetched" /\ s \in Rows /\ cps = {"collect"}
  BY <1>1 DEF Fetched, DbType
<1>3. blobs[s.ref] = s.page
  BY <1>2 DEF RowsInv
<1>4. /\ passages' = passages \cup PassagesOf(s, s.page, {})
      /\ sources' = (sources \ {s}) \cup {t} /\ UNCHANGED cps
  BY <1>1, <1>3 DEF NormalizeSource
<1>5. Entry(t) = x /\ t.status = "normalized"
  BY <1>2 DEF Entry, Rows
<1>6. x.hash = s.hash /\ x.page = s.page
  BY EntryOfRow
<1>. HIDE DEF t, x
<1>7. PassagesOf(s, s.page, {}) = Ledger!PassagesFor(x)
  BY <1>6 DEF PassagesOf, Ledger!PassagesFor
<1>8. \A p \in passages : p.source # x.hash
  BY <1>2, <1>6 DEF RowsInv
<1>9. ASSUME NEW states
      PROVE  Entries(states)' =
               (Entries(states) \ {x}) \cup (IF "normalized" \in states THEN {x} ELSE {})
  <2>1. \A a \in sources : Entry(a) = x => a = s
    BY <1>2, EntryOfRow DEF RowsInv, x
  <2>2. Entries(states)' = {Entry(a) : a \in {b \in sources \ {s} : b.status \in states}}
                             \cup (IF "normalized" \in states THEN {x} ELSE {})
    BY <1>4, <1>5 DEF Entries
  <2>3. {Entry(a) : a \in {b \in sources \ {s} : b.status \in states}} = Entries(states) \ {x}
    BY <2>1 DEF Entries, x
  <2>. QED
    BY <2>2, <2>3
<1>10. /\ x \in Entries({"fetched"}) /\ x \notin Entries({"normalized"})
       /\ x \notin Entries({"failed", "quarantined"})
  BY <1>2, EntryIsRow DEF x
<1>11. /\ Entries({"fetched"})' = Entries({"fetched"}) \ {x}
       /\ Entries({"failed", "quarantined"})' = Entries({"failed", "quarantined"})
       /\ Entries({"normalized"})' = Entries({"normalized"}) \cup {x}
  BY <1>9, <1>10
<1>. QED
  BY <1>2, <1>4, <1>7, <1>8, <1>10, <1>11 DEF Ledger!MakeWhole

LEMMA StepInLedger ==
  ASSUME MineType, DbType, RowsInv, RowsInv', NEW e \in Executors, ExecutorInv(e), Progress(e)
  PROVE  Ledger!Next \/ UNCHANGED Ledger!ledgerVars
<1>. USE DEF Ledger!Next
<1>1. CASE FinishCollect(e)
  <2>1. UNCHANGED <<sources, passages>> /\ cps' = cps \cup {"collect"}
    BY <1>1 DEF FinishCollect, Complete
  <2>2. cps = {}
    BY <1>1 DEF FinishCollect, ExecutorInv, RowsInv, DbType
  <2>3. \A u \in UrlSet : \E s \in sources : s.uri = u
    BY <2>1 DEF RowsInv, Uris
  <2>4. \A u \in UrlSet : \E x \in Entries({"fetched"}) \cup Entries({"failed", "quarantined"}) :
          x.uri = u
    <3>. SUFFICES ASSUME NEW s \in sources
                  PROVE  Entry(s) \in Entries({"fetched"}) \cup Entries({"failed", "quarantined"})
      BY <2>3, EntryOfRow
    <3>1. s.status # "normalized"
      BY <2>2 DEF RowsInv
    <3>. QED
      BY <3>1, EntryIsRow, StatesOfRows DEF DbType
  <2>5. \A states : Entries(states)' = Entries(states)
    BY <2>1 DEF Entries
  <2>. QED
    BY <2>1, <2>2, <2>4, <2>5 DEF Ledger!FinishCollect
<1>2. CASE FinishStore(e)
  <2>1. UNCHANGED <<sources, passages>> /\ cps' = cps \cup {"store"}
    BY <1>2 DEF FinishStore, Complete
  <2>2. cps = {"collect"} /\ Fetched = {}
    <3>1. pc[e] = "normalize" /\ todo[e] = {}
      BY <1>2 DEF FinishStore
    <3>2. {"collect", "store"} \ cps = {"store"} /\ todo[e] = Fetched
      BY <3>1 DEF ExecutorInv
    <3>. QED
      BY <3>1, <3>2 DEF DbType
  <2>3. Entries({"fetched"}) = {}
    BY <2>2 DEF Entries, Fetched
  <2>4. \A states : Entries(states)' = Entries(states)
    BY <2>1 DEF Entries
  <2>. QED
    BY <2>1, <2>2, <2>3, <2>4 DEF Ledger!FinishStore
<1>3. CASE RecordSource(e) \/ \E s \in todo[e] : NormalizeSource(e, s)
  BY <1>3, RecordInLedger, NormalizeInLedger
<1>4. CASE \/ Start(e) \/ BeginCollect(e) \/ BeginStore(e) \/ ReadHashes(e)
           \/ \E u \in UrlSet : SkipUrl(e, u) \/ DenyUrl(e, u) \/ FetchFails(e, u)
                                \/ FetchUnsafe(e, u) \/ FetchSafe(e, u)
           \/ RecordConflict(e) \/ NoUrls(e) \/ \E s \in todo[e] : NormalizeRaises(e, s)
  <2>1. UNCHANGED <<sources, passages, cps>>
    BY <1>4 DEF db, Start, BeginCollect, BeginStore, ReadHashes, SkipUrl, DenyUrl, FetchFails,
         FetchUnsafe, FetchSafe, Prepare, RecordConflict, NoUrls, NormalizeRaises
  <2>. QED
    BY <2>1, LedgerFrame
<1>. QED
  BY <1>1, <1>2, <1>3, <1>4 DEF Progress

(***************************************************************************)
(* The theorems.                                                           *)
(***************************************************************************)
LEMMA Invariance == Spec => [](TypeOK /\ Recording /\ IntakeInv)
<1>1. Init => TypeOK /\ Recording /\ IntakeInv
  <2>1. Init => Recording
    BY DEF Init, Recording
  <2>2. Init => RowsInv /\ OneActive
    BY DEF Init, RowsInv, OneActive, Uris, Fetched, NormalizedSourceIsWhole
  <2>3. Init => \A e \in Executors : ExecutorInv(e)
    BY DEF Init, ExecutorInv, Nothing
  <2>. QED
    BY <2>1, <2>2, <2>3, InitTypeOK DEF IntakeInv
<1>2. TypeOK /\ Recording /\ IntakeInv /\ [Next]_vars => (TypeOK /\ Recording /\ IntakeInv)'
  BY NextTypeOK, IntakeStep
<1>. QED
  BY <1>1, <1>2, PTL DEF Spec

\* The rows, blobs and passages of the run and what each execution keeps of them
\* have their types, also when executions race.
THEOREM TypeCorrect == Spec => []TypeOK
<1>. QED
  BY Invariance, PTL

\* However often store is interrupted and resumed, a source it marks normalized
\* has every passage of its content: the texts it skips as already stored are
\* those of sources that are normalized (run_store in
\* src/app/pipeline/stages/store.py).
THEOREM ResumeLosesNoPassage == Spec => []ResumedSourceIsWhole
<1>1. IntakeInv => ResumedSourceIsWhole
  BY DEF IntakeInv, RowsInv, ResumedSourceIsWhole
<1>. QED
  BY <1>1, Invariance, PTL

\* However often collect is interrupted and resumed, and whatever the second
\* fetch of a URL returns, a URL has at most one source row (collect skips
\* the URIs that have one, src/app/pipeline/stages/collect.py).
THEOREM OneRowPerUrl == Spec => []OneSourcePerUrl
<1>1. IntakeInv => OneSourcePerUrl
  BY DEF IntakeInv, RowsInv, OneSourcePerUrl
<1>. QED
  BY <1>1, Invariance, PTL

\* A checkpointed stage has done its work, although it is never run again:
\* every URL has a row once collect is checkpointed, no fetched source is left
\* once store is.
THEOREM CheckpointsAreEarned == Spec => []CheckpointsCoverTheWork
<1>1. IntakeInv => CheckpointsCoverTheWork
  BY DEF IntakeInv, RowsInv, CheckpointsCoverTheWork, Uris
<1>. QED
  BY <1>1, Invariance, PTL

\* As long as executions follow each other, collect and store implement
\* IntakeLedger: each commit is one of its steps, and nothing that run_collect
\* and run_store read early makes it another.
THEOREM IntakeImplemented == Spec => ImplementsIntake
<1>1. Init => Ledger!Init
  BY DEF Init, Ledger!Init, Entries
<1>2. TypeOK /\ IntakeInv /\ IntakeInv' /\ [Next]_vars =>
        [overlap' \/ Ledger!Next]_(Ledger!ledgerVars)
  <2>. SUFFICES ASSUME TypeOK, IntakeInv, IntakeInv', [Next]_vars, ~overlap'
                PROVE  Ledger!Next \/ UNCHANGED Ledger!ledgerVars
    OBVIOUS
  <2>1. ASSUME NEW e \in Executors, Progress(e), Watch
        PROVE  Ledger!Next \/ UNCHANGED Ledger!ledgerVars
    <3>1. ~overlap
      BY <2>1, Zenon DEF Watch
    <3>2. RowsInv /\ ExecutorInv(e) /\ RowsInv'
      BY <3>1 DEF IntakeInv
    <3>. QED
      BY <2>1, <3>2, StepInLedger, TypeParts
  <2>2. CASE UNCHANGED <<sources, passages, cps>>
    BY <2>2, LedgerFrame
  <2>3. (\E e \in Executors : Interrupt(e)) \/ UNCHANGED vars =>
          UNCHANGED <<sources, passages, cps>>
    BY DEF Interrupt, vars, db
  <2>. QED
    BY <2>1, <2>2, <2>3 DEF Next, Flow
<1>. QED
  BY <1>1, <1>2, Invariance, PTL DEF Spec, ImplementsIntake
=============================================================================
