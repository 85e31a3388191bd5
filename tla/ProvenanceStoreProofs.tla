----------------------- MODULE ProvenanceStoreProofs -----------------------
(***************************************************************************)
(* Proofs about ProvenanceStore, for any runs, collectors and contents.    *)
(* First what the scripts of SchemaMigrations do to a database, one        *)
(* operation after the other; then what every step of the store keeps.     *)
(***************************************************************************)
EXTENDS ProvenanceStore, FiniteSetTheorems, SequenceTheorems, TLAPS

(***************************************************************************)
(* Induction.  The library states it for an operator; here it is, for a    *)
(* set, from the pigeonhole principle: the numbers of S up to one that is  *)
(* missing would all fit, one further, into themselves without 0.          *)
(***************************************************************************)
LEMMA NatInd ==
  ASSUME NEW S, 0 \in S, \A n \in Nat : n \in S => n + 1 \in S
  PROVE  Nat \subseteq S
<1> SUFFICES ASSUME NEW n \in Nat, n \notin S PROVE FALSE
  OBVIOUS
<1> DEFINE T == {i \in 0 .. n : i \in S}
           f == [i \in T |-> i + 1]
<1>1. IsFiniteSet(T)
  BY FS_Interval, FS_Subset, T \in SUBSET (0 .. n), 0 \in Int, n \in Int
<1>2. IsFiniteSet(T \ {0}) /\ Cardinality(T \ {0}) = Cardinality(T) - 1
  <2>1. 0 \in T
    OBVIOUS
  <2> QED BY <2>1, <1>1, FS_RemoveElement
<1>3. Cardinality(T \ {0}) < Cardinality(T)
  BY <1>1, <1>2, FS_CardinalityType
<1>4. f \in [T -> T \ {0}]
  OBVIOUS
<1>5. \E x, y \in T : x # y /\ f[x] = f[y]
  <2> DEFINE U == T \ {0}
  <2>1. IsFiniteSet(U) /\ Cardinality(U) < Cardinality(T) /\ f \in [T -> U]
    BY <1>2, <1>3, <1>4
  <2> HIDE DEF T, U, f
  <2> QED BY <1>1, <2>1, FS_PigeonHole
<1> QED BY <1>5

-----------------------------------------------------------------------------
(* What Run and Reached compute *)

\* From position k on, a is what the operations of script make of a[k].
Follows(a, k, script) ==
  \A i \in 1 .. Len(script) : a[k + i] = Step(a[(k + i) - 1], script[i])

\* The unrolling of Run, one operation after the other.
LEMMA RunUnrolls ==
  ASSUME NEW O, NEW script \in Seq(O), NEW d
  PROVE  \E a : /\ a[0] = [ok |-> TRUE, d |-> d]
                /\ Follows(a, 0, script)
                /\ Run(script, d) =
                     [ok |-> a[Len(script)].ok,
                      d |-> IF a[Len(script)].ok THEN a[Len(script)].d ELSE d]
<1>. DEFINE start == [ok |-> TRUE, d |-> d]
            N == Len(script)
            Eq(f, n) == f = [i \in 0 .. n |-> IF i = 0 THEN start ELSE Step(f[i - 1], script[i])]
            S == {n \in Nat : \E f : Eq(f, n)}
<1>1. 0 \in S
  <2>1. Eq([i \in 0 .. 0 |-> start], 0)
    OBVIOUS
  <2>. QED BY <2>1
<1>2. ASSUME NEW n \in Nat, n \in S PROVE n + 1 \in S
  <2>. HIDE DEF start
  <2>1. PICK f : Eq(f, n)
    BY <1>2
  <2>. DEFINE g == [i \in 0 .. n + 1 |-> IF i = n + 1 THEN Step(f[n], script[n + 1]) ELSE f[i]]
  <2>2. Eq(g, n + 1)
    <3>. SUFFICES ASSUME NEW i \in 0 .. n + 1
                  PROVE  g[i] = IF i = 0 THEN start ELSE Step(g[i - 1], script[i])
      OBVIOUS
    <3>1. CASE i = n + 1
      <4>1. g[i] = Step(f[n], script[n + 1]) /\ g[n] = f[n] /\ i - 1 = n /\ i # 0
        BY <3>1
      <4>. QED BY <3>1, <4>1
    <3>2. CASE i # n + 1
      <4>1. i \in 0 .. n
        BY <3>2
      <4>2. f[i] = IF i = 0 THEN start ELSE Step(f[i - 1], script[i])
        BY <2>1, <4>1
      <4>3. g[i] = f[i] /\ (i # 0 => g[i - 1] = f[i - 1])
        BY <3>2, <4>1
      <4>. QED BY <4>2, <4>3
    <3>. QED BY <3>1, <3>2
  <2>3. \E h : Eq(h, n + 1)
    <3>. HIDE DEF Eq, g
    <3>. QED BY <2>2
  <2>. HIDE DEF Eq
  <2>. QED BY <2>3
<1>3. Nat \subseteq S
  <2>. HIDE DEF S
  <2>. QED BY <1>1, <1>2, NatInd
<1>. DEFINE after == CHOOSE f : Eq(f, N)
<1>4. N \in Nat /\ Eq(after, N)
  <2>1. N \in Nat
    OBVIOUS
  <2>2. \E f : Eq(f, N)
    BY <1>3, <2>1
  <2>. HIDE DEF Eq
  <2>. QED BY <2>1, <2>2
<1>5. Run(script, d) =
        [ok |-> after[N].ok, d |-> IF after[N].ok THEN after[N].d ELSE d]
  BY Zenon DEF Run
<1>6. after[0] = start
  <2>. HIDE DEF start, after
  <2>. QED BY <1>4
<1>7. ASSUME NEW i \in 1 .. N PROVE after[0 + i] = Step(after[(0 + i) - 1], script[i])
  <2>. HIDE DEF start, after
  <2>. QED BY <1>4
<1>. HIDE DEF after
<1>. QED BY <1>5, <1>6, <1>7 DEF Follows

\* Scripts one after the other.
LEMMA FollowsConcat ==
  ASSUME NEW O, NEW s \in Seq(O), NEW t \in Seq(O), NEW a, NEW k \in Nat,
         Follows(a, k, s \o t)
  PROVE  Follows(a, k, s) /\ Follows(a, k + Len(s), t)
<1>1. /\ Len(s) \in Nat /\ Len(t) \in Nat /\ Len(s \o t) = Len(s) + Len(t)
      /\ \A i \in 1 .. Len(s) : (s \o t)[i] = s[i]
      /\ \A i \in 1 .. Len(t) : (s \o t)[Len(s) + i] = t[i]
  OBVIOUS
<1>2. Follows(a, k, s)
  BY <1>1 DEF Follows
<1>3. ASSUME NEW i \in 1 .. Len(t)
      PROVE  a[(k + Len(s)) + i] = Step(a[((k + Len(s)) + i) - 1], t[i])
  <2>1. Len(s) + i \in 1 .. Len(s \o t) /\ k + (Len(s) + i) = (k + Len(s)) + i
    BY <1>1
  <2>2. a[k + (Len(s) + i)] = Step(a[(k + (Len(s) + i)) - 1], (s \o t)[Len(s) + i])
    BY <2>1 DEF Follows
  <2>. QED BY <1>1, <2>1, <2>2
<1>. QED BY <1>2, <1>3 DEF Follows

Layer(edges, before) == before \cup {e[2] : e \in {f \in edges : f[1] \in before}}

\* The unrolling of Reached, one layer after the other.
LEMMA ReachedUnrolls ==
  ASSUME NEW edges, NEW S
  PROVE  \E f : /\ f[0] = S /\ Reached(edges, S) = f[Depth]
                /\ \A n \in 1 .. Depth : f[n] = Layer(edges, f[n - 1])
<1>. DEFINE Eq(f, m) == f = [n \in 0 .. m |-> IF n = 0 THEN S ELSE Layer(edges, f[n - 1])]
            B == {n \in Nat : \E f : Eq(f, n)}
<1>1. 0 \in B
  <2>1. Eq([n \in 0 .. 0 |-> S], 0)
    OBVIOUS
  <2>. QED BY <2>1
<1>2. ASSUME NEW n \in Nat, n \in B PROVE n + 1 \in B
  <2>1. PICK f : Eq(f, n)
    BY <1>2
  <2>. DEFINE g == [i \in 0 .. n + 1 |-> IF i = n + 1 THEN Layer(edges, f[n]) ELSE f[i]]
  <2>2. Eq(g, n + 1)
    <3>. SUFFICES ASSUME NEW i \in 0 .. n + 1
                  PROVE  g[i] = IF i = 0 THEN S ELSE Layer(edges, g[i - 1])
      OBVIOUS
    <3>1. CASE i = n + 1
      <4>1. g[i] = Layer(edges, f[n]) /\ g[n] = f[n] /\ i - 1 = n /\ i # 0
        BY <3>1
      <4>. QED BY <3>1, <4>1
    <3>2. CASE i # n + 1
      <4>1. i \in 0 .. n
        BY <3>2
      <4>2. f[i] = IF i = 0 THEN S ELSE Layer(edges, f[i - 1])
        BY <2>1, <4>1
      <4>3. g[i] = f[i] /\ (i # 0 => g[i - 1] = f[i - 1])
        BY <3>2, <4>1
      <4>. QED BY <4>2, <4>3
    <3>. QED BY <3>1, <3>2
  <2>3. \E h : Eq(h, n + 1)
    <3>. HIDE DEF Eq, g
    <3>. QED BY <2>2
  <2>. HIDE DEF Eq
  <2>. QED BY <2>3
<1>3. Nat \subseteq B
  <2>. HIDE DEF B
  <2>. QED BY <1>1, <1>2, NatInd
<1>. DEFINE layer == CHOOSE f : Eq(f, Depth)
<1>4. Depth \in Nat /\ Eq(layer, Depth)
  <2>1. Depth \in Nat
    BY DEF Depth
  <2>2. \E f : Eq(f, Depth)
    BY <1>3, <2>1
  <2>. HIDE DEF Eq
  <2>. QED BY <2>1, <2>2
<1>5. Reached(edges, S) = layer[Depth]
  BY Zenon DEF Reached, Layer
<1>6. layer[0] = S /\ \A n \in 1 .. Depth : layer[n] = Layer(edges, layer[n - 1])
  <2>. HIDE DEF layer
  <2>. QED BY <1>4
<1>. HIDE DEF layer
<1>. QED BY <1>5, <1>6

\* Nothing is reached outside a set that no edge leaves.
LEMMA ReachedWithin ==
  ASSUME NEW edges, NEW S, NEW T, S \subseteq T,
         \A e \in edges : e[1] \in T => e[2] \in T
  PROVE  Reached(edges, S) \subseteq T
<1>1. PICK f : /\ f[0] = S /\ Reached(edges, S) = f[Depth]
               /\ \A n \in 1 .. Depth : f[n] = Layer(edges, f[n - 1])
  BY ReachedUnrolls
<1>. DEFINE B == {n \in Nat : n <= Depth => f[n] \subseteq T}
<1>2. 0 \in B
  BY <1>1
<1>3. ASSUME NEW n \in Nat, n \in B PROVE n + 1 \in B
  <2>1. CASE n + 1 <= Depth
    <3>1. f[n + 1] = Layer(edges, f[n]) /\ f[n] \subseteq T
      BY <1>1, <1>3, <2>1 DEF Depth
    <3>. QED BY <3>1 DEF Layer
  <2>. QED BY <2>1 DEF Depth
<1>4. Nat \subseteq B
  <2>. HIDE DEF B
  <2>. QED BY <1>2, <1>3, NatInd
<1>. QED BY <1>1, <1>4 DEF Depth

\* Whatever is reached is there from the start or is reached by an edge from
\* something that is.
LEMMA ReachedGrounds ==
  ASSUME NEW edges, NEW S
  PROVE  /\ S \subseteq Reached(edges, S)
         /\ \A x \in Reached(edges, S) \ S :
              \E e \in edges : e[1] \in Reached(edges, S) /\ e[2] = x
<1>1. PICK f : /\ f[0] = S /\ Reached(edges, S) = f[Depth]
               /\ \A n \in 1 .. Depth : f[n] = Layer(edges, f[n - 1])
  BY ReachedUnrolls
<1>. DEFINE P(L) == S \subseteq L /\ \A x \in L \ S : \E e \in edges : e[1] \in L /\ e[2] = x
            B == {n \in Nat : n <= Depth => P(f[n])}
<1>2. 0 \in B
  BY <1>1
<1>3. ASSUME NEW n \in Nat, n \in B PROVE n + 1 \in B
  <2>1. CASE n + 1 <= Depth
    <3>1. f[n + 1] = Layer(edges, f[n]) /\ P(f[n])
      BY <1>1, <1>3, <2>1 DEF Depth
    <3>2. P(Layer(edges, f[n]))
      BY <3>1 DEF Layer
    <3>. QED BY <3>1, <3>2
  <2>. QED BY <2>1 DEF Depth
<1>4. Nat \subseteq B
  <2>. HIDE DEF B
  <2>. QED BY <1>2, <1>3, NatInd
<1>. QED BY <1>1, <1>4 DEF Depth

-----------------------------------------------------------------------------
(* Operations, one at a time *)

DB(t, r, u, f, g, x) ==
  [tables |-> t, refs |-> r, uniques |-> u, functions |-> f, guarded |-> g, rows |-> x]

Going(t, r, u, f, g, x) == [ok |-> TRUE, d |-> DB(t, r, u, f, g, x)]

\* An operation that goes through had its way free and had its effect.
LEMMA StepGoesOn ==
  ASSUME NEW result, NEW op, Step(result, op).ok
  PROVE  /\ result.ok /\ Possible(result.d, op)
         /\ Step(result, op).d = Effect(result.d, op)
  BY DEF Step

\* A table is created where there is none and what it refers to exists.
LEMMA CreateStep ==
  ASSUME NEW t, NEW r, NEW u, NEW f, NEW g, NEW x,
         NEW table, NEW refs, NEW columns,
         table \notin t, \A e \in refs : e.to \in t
  PROVE  Step(Going(t, r, u, f, g, x), Create(table, refs, columns)) =
           Going(t \cup {table}, r \cup refs,
                 u \cup {Unique(table, c) : c \in columns}, f, g, x)
<1>. DEFINE op == Create(table, refs, columns)
            d == DB(t, r, u, f, g, x)
            new == {Unique(table, c) : c \in columns}
<1>1. /\ op.do = "create" /\ op.table = table /\ op.refs = refs /\ op.uniques = new
  BY DEF Create, Op
<1>2. Possible(d, op)
  <2>. HIDE DEF op
  <2>. QED BY <1>1 DEF Possible, DB
<1>3. Effect(d, op) = DB(t \cup {table}, r \cup refs, u \cup new, f, g, x)
  <2>. HIDE DEF op, new
  <2>. QED BY <1>1 DEF Effect, DB
<1>4. Step(Going(t, r, u, f, g, x), op) =
        Going(t \cup {table}, r \cup refs, u \cup new, f, g, x)
  <2>. HIDE DEF op, new
  <2>. QED BY <1>2, <1>3 DEF Step, Going
<1>. QED BY <1>4

\* What is left of a result once tables have been dropped.
Leaves(result, t, r, u, f, g, x, dropped) ==
  result.ok =>
    result.d = DB(t \ dropped, {e \in r : e.from \notin dropped},
                  {w \in u : w.table \notin dropped}, f, g \ dropped,
                  {y \in x : y.table \notin dropped})

\* A drop takes the table with its keys, constraints, trigger and rows.
LEMMA DropStep ==
  ASSUME NEW result, NEW t, NEW r, NEW u, NEW f, NEW g, NEW x, NEW dropped, NEW table,
         Leaves(result, t, r, u, f, g, x, dropped)
  PROVE  Leaves(Step(result, Drop(table)), t, r, u, f, g, x, dropped \cup {table})
<1>. DEFINE op == Drop(table)
            after == Step(result, op)
            gone == dropped \cup {table}
            d == DB(t \ dropped, {e \in r : e.from \notin dropped},
                    {w \in u : w.table \notin dropped}, f, g \ dropped,
                    {y \in x : y.table \notin dropped})
<1>1. op.do = "drop" /\ op.table = table
  BY DEF Drop, Op
<1>. SUFFICES ASSUME after.ok
              PROVE  after.d = DB(t \ gone, {e \in r : e.from \notin gone},
                                  {w \in u : w.table \notin gone}, f, g \ gone,
                                  {y \in x : y.table \notin gone})
  BY DEF Leaves
<1>2. after.d = Effect(d, op)
  <2>1. result.ok /\ after.d = Effect(result.d, op)
    <3>. HIDE DEF op
    <3>. QED BY StepGoesOn
  <2>. QED BY <2>1 DEF Leaves
<1>3. Effect(d, op) =
        [d EXCEPT !.tables = @ \ {table}, !.refs = {e \in @ : e.from # table},
                  !.uniques = {w \in @ : w.table # table}, !.guarded = @ \ {table},
                  !.rows = {y \in @ : y.table # table}]
  <2>. HIDE DEF op, d
  <2>. QED BY <1>1 DEF Effect
<1>4. Effect(d, op) =
        DB((t \ dropped) \ {table}, {e \in d.refs : e.from # table},
           {w \in d.uniques : w.table # table}, f, (g \ dropped) \ {table},
           {y \in d.rows : y.table # table})
  BY <1>3 DEF DB
<1>5. /\ (t \ dropped) \ {table} = t \ gone /\ (g \ dropped) \ {table} = g \ gone
      /\ {e \in d.refs : e.from # table} = {e \in r : e.from \notin gone}
      /\ {w \in d.uniques : w.table # table} = {w \in u : w.table \notin gone}
      /\ {y \in d.rows : y.table # table} = {y \in x : y.table \notin gone}
  BY DEF DB
<1>. HIDE DEF d, gone, op, after
<1>. QED BY <1>2, <1>4, <1>5

-----------------------------------------------------------------------------
(* The first revision *)

\* What the groups of InitialUp create.
ScopeNames == {"kv_cache", "tenants", "runs"}
RunNames == {"audit_trace", "checkpoints", "conclusions", "findings", "sources"}
TextNames == {"passages", "statements", "conclusion_evidence", "contradictions"}
LinkNames == {"evidence_links", "finding_statements"}
Names == ScopeNames \cup RunNames \cup TextNames \cup LinkNames

RunRefs ==
  {Restricts("audit_trace", "runs"), Cascades("checkpoints", "runs"),
   Cascades("conclusions", "runs"), Cascades("findings", "runs"),
   Cascades("sources", "runs")}
TextRefs ==
  {Cascades("passages", "sources"), Restricts("statements", "passages"),
   Cascades("statements", "runs"),
   Cascades("conclusion_evidence", "conclusions"),
   Restricts("conclusion_evidence", "findings"),
   Restricts("conclusion_evidence", "statements"),
   Cascades("contradictions", "runs"), Restricts("contradictions", "statements")}
LinkRefs ==
  {Restricts("evidence_links", "passages"), Restricts("evidence_links", "runs"),
   Restricts("evidence_links", "statements"),
   Cascades("finding_statements", "findings"),
   Restricts("finding_statements", "statements")}
Refs == ScopeModels \cup RunRefs \cup TextRefs \cup LinkRefs

RunUniques ==
  {Unique("checkpoints", {"run_id", "stage"}), Unique("sources", {"content_hash"})}
Uniques ==
  ({Unique("tenants", {"namespace"})} \cup RunUniques)
    \cup {Unique("passages", {"source_id", "seq"})}

\* The refs name only the tables they should.
LEMMA RefFields ==
  ASSUME NEW from, NEW to
  PROVE  /\ Cascades(from, to).from = from /\ Cascades(from, to).to = to
         /\ Cascades(from, to).on = "CASCADE"
         /\ Restricts(from, to).from = from /\ Restricts(from, to).to = to
         /\ Restricts(from, to).on = "RESTRICT"
  BY DEF Cascades, Restricts

LEMMA CreatePlain ==
  ASSUME NEW t, NEW r, NEW u, NEW table, NEW refs,
         table \notin t, \A e \in refs : e.to \in t
  PROVE  Step(Going(t, r, u, {}, {}, {}), Create(table, refs, {})) =
           Going(t \cup {table}, r \cup refs, u, {}, {}, {})
<1>. DEFINE op == Create(table, refs, {})
            d == DB(t, r, u, {}, {}, {})
<1>1. op.do = "create" /\ op.table = table /\ op.refs = refs /\ op.uniques = {}
  BY DEF Create, Op
<1>2. Possible(d, op)
  <2>. HIDE DEF op
  <2>. QED BY <1>1 DEF Possible, DB
<1>3. Effect(d, op) = DB(t \cup {table}, r \cup refs, u, {}, {}, {})
  <2>. HIDE DEF op
  <2>. QED BY <1>1 DEF Effect, DB
<1>4. Step(Going(t, r, u, {}, {}, {}), op) = Going(t \cup {table}, r \cup refs, u, {}, {}, {})
  <2>. HIDE DEF op
  <2>. QED BY <1>2, <1>3 DEF Step, Going
<1>. QED BY <1>4

LEMMA CreateUnique ==
  ASSUME NEW t, NEW r, NEW u, NEW table, NEW refs, NEW columns,
         table \notin t, \A e \in refs : e.to \in t
  PROVE  Step(Going(t, r, u, {}, {}, {}), Create(table, refs, {columns})) =
           Going(t \cup {table}, r \cup refs, u \cup {Unique(table, columns)}, {}, {}, {})
<1>1. {Unique(table, c) : c \in {columns}} = {Unique(table, columns)}
  OBVIOUS
<1>2. Step(Going(t, r, u, {}, {}, {}), Create(table, refs, {columns})) =
        Going(t \cup {table}, r \cup refs, u \cup {Unique(table, c) : c \in {columns}}, {}, {}, {})
  BY CreateStep
<1>. QED BY <1>1, <1>2

LEMMA ScopeTablesRun ==
  ASSUME NEW a, NEW k \in Nat, Follows(a, k, ScopeTables), NEW t, NEW r, NEW u,
         t \cap ScopeNames = {}, a[k] = Going(t, r, u, {}, {}, {})
  PROVE  a[k + 3] = Going(t \cup ScopeNames, r \cup ScopeModels,
                          u \cup {Unique("tenants", {"namespace"})}, {}, {}, {})
<1>. DEFINE t1 == t \cup {"kv_cache"}
            t2 == t1 \cup {"tenants"}
            t3 == t2 \cup {"runs"}
            u2 == u \cup {Unique("tenants", {"namespace"})}
            r3 == ((r \cup {}) \cup {}) \cup {Cascades("runs", "tenants")}
<1>1. /\ a[k + 1] = Step(a[k], Create("kv_cache", {}, {}))
      /\ a[k + 2] = Step(a[k + 1], Create("tenants", {}, {{"namespace"}}))
      /\ a[k + 3] = Step(a[k + 2], Create("runs", {Cascades("runs", "tenants")}, {}))
  <2>1. /\ Len(ScopeTables) = 3
        /\ ScopeTables[1] = Create("kv_cache", {}, {})
        /\ ScopeTables[2] = Create("tenants", {}, {{"namespace"}})
        /\ ScopeTables[3] = Create("runs", {Cascades("runs", "tenants")}, {})
    BY DEF ScopeTables
  <2>. QED BY <2>1 DEF Follows
<1>2. a[k + 1] = Going(t1, r \cup {}, u, {}, {}, {})
  BY <1>1, CreatePlain DEF ScopeNames
<1>3. a[k + 2] = Going(t2, (r \cup {}) \cup {}, u2, {}, {}, {})
  <2>1. "tenants" \notin t1
    BY DEF ScopeNames
  <2>. DEFINE rr == r \cup {}
              ns == {"namespace"}
  <2>2. \A e \in {} : e.to \in t1
    OBVIOUS
  <2>3. Step(Going(t1, rr, u, {}, {}, {}), Create("tenants", {}, {ns})) =
          Going(t1 \cup {"tenants"}, rr \cup {}, u \cup {Unique("tenants", ns)}, {}, {}, {})
    <3>. HIDE DEF t1, rr, ns
    <3>. QED BY ONLY <2>1, <2>2, CreateUnique
  <2>. QED BY <1>1, <1>2, <2>3
<1>4. a[k + 3] = Going(t3, r3, u2, {}, {}, {})
  <2>1. "runs" \notin t2 /\ \A e \in {Cascades("runs", "tenants")} : e.to \in t2
    BY RefFields DEF ScopeNames
  <2>. HIDE DEF t2, u2
  <2>. QED BY <1>1, <1>3, <2>1, CreatePlain
<1>5. t3 = t \cup ScopeNames /\ r3 = r \cup ScopeModels
  BY DEF ScopeNames, ScopeModels
<1>. HIDE DEF t3, r3
<1>. QED BY <1>4, <1>5

LEMMA RunTablesRun ==
  ASSUME NEW a, NEW k \in Nat, Follows(a, k, RunTables), NEW t, NEW r, NEW u,
         "runs" \in t, t \cap RunNames = {},
         a[k] = Going(t, r, u, {}, {}, {})
  PROVE  a[k + 5] = Going(t \cup RunNames, r \cup RunRefs,
                          u \cup RunUniques, {}, {}, {})
<1>. DEFINE e1 == {Restricts("audit_trace", "runs")}
            e2 == {Cascades("checkpoints", "runs")}
            e3 == {Cascades("conclusions", "runs")}
            e4 == {Cascades("findings", "runs")}
            e5 == {Cascades("sources", "runs")}
            t1 == t \cup {"audit_trace"}
            t2 == t1 \cup {"checkpoints"}
            t3 == t2 \cup {"conclusions"}
            t4 == t3 \cup {"findings"}
            t5 == t4 \cup {"sources"}
            r1 == r \cup e1
            r2 == r1 \cup e2
            r3 == r2 \cup e3
            r4 == r3 \cup e4
            r5 == r4 \cup e5
            c2 == {"run_id", "stage"}
            u2 == u \cup {Unique("checkpoints", c2)}
            c5 == {"content_hash"}
            u5 == u2 \cup {Unique("sources", c5)}
<1>1. /\ a[k + 1] = Step(a[k], Create("audit_trace", e1, {}))
      /\ a[k + 2] = Step(a[k + 1], Create("checkpoints", e2, {c2}))
      /\ a[k + 3] = Step(a[k + 2], Create("conclusions", e3, {}))
      /\ a[k + 4] = Step(a[k + 3], Create("findings", e4, {}))
      /\ a[k + 5] = Step(a[k + 4], Create("sources", e5, {c5}))
  <2>1. /\ Len(RunTables) = 5
        /\ RunTables[1] = Create("audit_trace", e1, {})
        /\ RunTables[2] = Create("checkpoints", e2, {c2})
        /\ RunTables[3] = Create("conclusions", e3, {})
        /\ RunTables[4] = Create("findings", e4, {})
        /\ RunTables[5] = Create("sources", e5, {c5})
    BY DEF RunTables
  <2>. QED BY <2>1 DEF Follows
<1>2. a[k + 1] = Going(t1, r1, u, {}, {}, {})
  <2>1. "audit_trace" \notin t /\ \A e \in e1 : e.to \in t
    BY RefFields DEF RunNames
  <2>2. Step(Going(t, r, u, {}, {}, {}), Create("audit_trace", e1, {})) =
          Going(t1, r1, u, {}, {}, {})
    <3>. HIDE DEF e1
    <3>. QED BY ONLY <2>1, CreatePlain
  <2>. QED BY <1>1, <2>2
<1>3. a[k + 2] = Going(t2, r2, u2, {}, {}, {})
  <2>1. "checkpoints" \notin t1 /\ \A e \in e2 : e.to \in t1
    BY RefFields DEF RunNames
  <2>2. Step(Going(t1, r1, u, {}, {}, {}), Create("checkpoints", e2, {c2})) =
          Going(t2, r2, u2, {}, {}, {})
    <3>. HIDE DEF t1, r1, e2, c2
    <3>. QED BY ONLY <2>1, CreateUnique
  <2>. QED BY <1>1, <1>2, <2>2
<1>4. a[k + 3] = Going(t3, r3, u2, {}, {}, {})
  <2>1. "conclusions" \notin t2 /\ \A e \in e3 : e.to \in t2
    BY RefFields DEF RunNames
  <2>2. Step(Going(t2, r2, u2, {}, {}, {}), Create("conclusions", e3, {})) =
          Going(t3, r3, u2, {}, {}, {})
    <3>. HIDE DEF t2, r2, u2, e3
    <3>. QED BY ONLY <2>1, CreatePlain
  <2>. QED BY <1>1, <1>3, <2>2
<1>5. a[k + 4] = Going(t4, r4, u2, {}, {}, {})
  <2>1. "findings" \notin t3 /\ \A e \in e4 : e.to \in t3
    BY RefFields DEF RunNames
  <2>2. Step(Going(t3, r3, u2, {}, {}, {}), Create("findings", e4, {})) =
          Going(t4, r4, u2, {}, {}, {})
    <3>. HIDE DEF t3, r3, u2, e4
    <3>. QED BY ONLY <2>1, CreatePlain
  <2>. QED BY <1>1, <1>4, <2>2
<1>6. a[k + 5] = Going(t5, r5, u5, {}, {}, {})
  <2>1. "sources" \notin t4 /\ \A e \in e5 : e.to \in t4
    BY RefFields DEF RunNames
  <2>2. Step(Going(t4, r4, u2, {}, {}, {}), Create("sources", e5, {c5})) =
          Going(t5, r5, u5, {}, {}, {})
    <3>. HIDE DEF t4, r4, u2, e5, c5
    <3>. QED BY ONLY <2>1, CreateUnique
  <2>. QED BY <1>1, <1>5, <2>2
<1>7. /\ t5 = t \cup RunNames
      /\ r5 = r \cup RunRefs
      /\ u5 = u \cup RunUniques
  BY DEF RunNames, RunRefs, RunUniques
<1>. HIDE DEF t5, r5, u5
<1>. QED BY <1>6, <1>7

LEMMA TextTablesRun ==
  ASSUME NEW a, NEW k \in Nat, Follows(a, k, TextTables), NEW t, NEW r, NEW u,
         {"runs", "sources", "findings", "conclusions"} \subseteq t, t \cap TextNames = {},
         a[k] = Going(t, r, u, {}, {}, {})
  PROVE  a[k + 4] = Going(t \cup TextNames, r \cup TextRefs,
                          u \cup {Unique("passages", {"source_id", "seq"})}, {}, {}, {})
<1>. DEFINE e1 == {Cascades("passages", "sources")}
            e2 == {Restricts("statements", "passages"),
                  Cascades("statements", "runs")}
            e3 == {Cascades("conclusion_evidence", "conclusions"),
                  Restricts("conclusion_evidence", "findings"),
                  Restricts("conclusion_evidence", "statements")}
            e4 == {Cascades("contradictions", "runs"),
                  Restricts("contradictions", "statements")}
            t1 == t \cup {"passages"}
            t2 == t1 \cup {"statements"}
            t3 == t2 \cup {"conclusion_evidence"}
            t4 == t3 \cup {"contradictions"}
            r1 == r \cup e1
            r2 == r1 \cup e2
            r3 == r2 \cup e3
            r4 == r3 \cup e4
            c1 == {"source_id", "seq"}
            u1 == u \cup {Unique("passages", c1)}
<1>1. /\ a[k + 1] = Step(a[k], Create("passages", e1, {c1}))
      /\ a[k + 2] = Step(a[k + 1], Create("statements", e2, {}))
      /\ a[k + 3] = Step(a[k + 2], Create("conclusion_evidence", e3, {}))
      /\ a[k + 4] = Step(a[k + 3], Create("contradictions", e4, {}))
  <2>1. /\ Len(TextTables) = 4
        /\ TextTables[1] = Create("passages", e1, {c1})
        /\ TextTables[2] = Create("statements", e2, {})
        /\ TextTables[3] = Create("conclusion_evidence", e3, {})
        /\ TextTables[4] = Create("contradictions", e4, {})
    BY DEF TextTables
  <2>. QED BY <2>1 DEF Follows
<1>2. a[k + 1] = Going(t1, r1, u1, {}, {}, {})
  <2>1. "passages" \notin t /\ \A e \in e1 : e.to \in t
    BY RefFields DEF TextNames
  <2>2. Step(Going(t, r, u, {}, {}, {}), Create("passages", e1, {c1})) =
          Going(t1, r1, u1, {}, {}, {})
    <3>. HIDE DEF e1, c1
    <3>. QED BY ONLY <2>1, CreateUnique
  <2>. QED BY <1>1, <2>2
<1>3. a[k + 2] = Going(t2, r2, u1, {}, {}, {})
  <2>1. "statements" \notin t1 /\ \A e \in e2 : e.to \in t1
    BY RefFields DEF TextNames
  <2>2. Step(Going(t1, r1, u1, {}, {}, {}), Create("statements", e2, {})) =
          Going(t2, r2, u1, {}, {}, {})
    <3>. HIDE DEF t1, r1, u1, e2
    <3>. QED BY ONLY <2>1, CreatePlain
  <2>. QED BY <1>1, <1>2, <2>2
<1>4. a[k + 3] = Going(t3, r3, u1, {}, {}, {})
  <2>1. "conclusion_evidence" \notin t2 /\ \A e \in e3 : e.to \in t2
    BY RefFields DEF TextNames
  <2>2. Step(Going(t2, r2, u1, {}, {}, {}), Create("conclusion_evidence", e3, {})) =
          Going(t3, r3, u1, {}, {}, {})
    <3>. HIDE DEF t2, r2, u1, e3
    <3>. QED BY ONLY <2>1, CreatePlain
  <2>. QED BY <1>1, <1>3, <2>2
<1>5. a[k + 4] = Going(t4, r4, u1, {}, {}, {})
  <2>1. "contradictions" \notin t3 /\ \A e \in e4 : e.to \in t3
    BY RefFields DEF TextNames
  <2>2. Step(Going(t3, r3, u1, {}, {}, {}), Create("contradictions", e4, {})) =
          Going(t4, r4, u1, {}, {}, {})
    <3>. HIDE DEF t3, r3, u1, e4
    <3>. QED BY ONLY <2>1, CreatePlain
  <2>. QED BY <1>1, <1>4, <2>2
<1>6. /\ t4 = t \cup TextNames
      /\ r4 = r \cup TextRefs
      /\ u1 = u \cup {Unique("passages", {"source_id", "seq"})}
  BY DEF TextNames, TextRefs
<1>. HIDE DEF t4, r4, u1
<1>. QED BY <1>5, <1>6

LEMMA LinkTablesRun ==
  ASSUME NEW a, NEW k \in Nat, Follows(a, k, LinkTables), NEW t, NEW r, NEW u,
         {"runs", "passages", "statements", "findings"} \subseteq t, t \cap LinkNames = {},
         a[k] = Going(t, r, u, {}, {}, {})
  PROVE  a[k + 2] = Going(t \cup LinkNames, r \cup LinkRefs,
                          u, {}, {}, {})
<1>. DEFINE e1 == {Restricts("evidence_links", "passages"),
                  Restricts("evidence_links", "runs"),
                  Restricts("evidence_links", "statements")}
            e2 == {Cascades("finding_statements", "findings"),
                  Restricts("finding_statements", "statements")}
            t1 == t \cup {"evidence_links"}
            t2 == t1 \cup {"finding_statements"}
            r1 == r \cup e1
            r2 == r1 \cup e2
<1>1. /\ a[k + 1] = Step(a[k], Create("evidence_links", e1, {}))
      /\ a[k + 2] = Step(a[k + 1], Create("finding_statements", e2, {}))
  <2>1. /\ Len(LinkTables) = 2
        /\ LinkTables[1] = Create("evidence_links", e1, {})
        /\ LinkTables[2] = Create("finding_statements", e2, {})
    BY DEF LinkTables
  <2>. QED BY <2>1 DEF Follows
<1>2. a[k + 1] = Going(t1, r1, u, {}, {}, {})
  <2>1. "evidence_links" \notin t /\ \A e \in e1 : e.to \in t
    BY RefFields DEF LinkNames
  <2>2. Step(Going(t, r, u, {}, {}, {}), Create("evidence_links", e1, {})) =
          Going(t1, r1, u, {}, {}, {})
    <3>. HIDE DEF e1
    <3>. QED BY ONLY <2>1, CreatePlain
  <2>. QED BY <1>1, <2>2
<1>3. a[k + 2] = Going(t2, r2, u, {}, {}, {})
  <2>1. "finding_statements" \notin t1 /\ \A e \in e2 : e.to \in t1
    BY RefFields DEF LinkNames
  <2>2. Step(Going(t1, r1, u, {}, {}, {}), Create("finding_statements", e2, {})) =
          Going(t2, r2, u, {}, {}, {})
    <3>. HIDE DEF t1, r1, e2
    <3>. QED BY ONLY <2>1, CreatePlain
  <2>. QED BY <1>1, <1>2, <2>2
<1>4. /\ t2 = t \cup LinkNames
      /\ r2 = r \cup LinkRefs
  BY DEF LinkNames, LinkRefs
<1>. HIDE DEF t2, r2
<1>. QED BY <1>3, <1>4

\* A possible operation goes through.
LEMMA GoesOn ==
  ASSUME NEW d, NEW op, Possible(d, op)
  PROVE  Step([ok |-> TRUE, d |-> d], op) = [ok |-> TRUE, d |-> Effect(d, op)]
  BY DEF Step

\* All that a revision's scripts are made of.
Operations ==
  UNION {{s[i] : i \in 1 .. 17} :
           s \in {ScopeTables, RunTables, TextTables, LinkTables, Triggers, InitialDown,
                  SeedUp, SeedDown, PerRunUp, PerRunDown}}

LEMMA Operation ==
  ASSUME NEW s \in {ScopeTables, RunTables, TextTables, LinkTables, Triggers, InitialDown,
                    SeedUp, SeedDown, PerRunUp, PerRunDown},
         NEW i \in 1 .. 17
  PROVE  s[i] \in Operations
  BY DEF Operations

LEMMA GroupsTyped ==
  /\ ScopeTables \in Seq(Operations) /\ Len(ScopeTables) = 3
  /\ RunTables \in Seq(Operations) /\ Len(RunTables) = 5
  /\ TextTables \in Seq(Operations) /\ Len(TextTables) = 4
  /\ LinkTables \in Seq(Operations) /\ Len(LinkTables) = 2
  /\ Triggers \in Seq(Operations) /\ Len(Triggers) = 3
<1>1. ScopeTables \in Seq(Operations) /\ Len(ScopeTables) = 3
  <2>1. \A i \in 1 .. 3 : ScopeTables[i] \in Operations
    BY Operation
  <2>. QED BY <2>1 DEF ScopeTables
<1>2. RunTables \in Seq(Operations) /\ Len(RunTables) = 5
  <2>1. \A i \in 1 .. 5 : RunTables[i] \in Operations
    BY Operation
  <2>. QED BY <2>1 DEF RunTables
<1>3. TextTables \in Seq(Operations) /\ Len(TextTables) = 4
  <2>1. \A i \in 1 .. 4 : TextTables[i] \in Operations
    BY Operation
  <2>. QED BY <2>1 DEF TextTables
<1>4. LinkTables \in Seq(Operations) /\ Len(LinkTables) = 2
  <2>1. \A i \in 1 .. 2 : LinkTables[i] \in Operations
    BY Operation
  <2>. QED BY <2>1 DEF LinkTables
<1>5. Triggers \in Seq(Operations) /\ Len(Triggers) = 3
  <2>1. \A i \in 1 .. 3 : Triggers[i] \in Operations
    BY Operation
  <2>. QED BY <2>1 DEF Triggers
<1>. QED BY <1>1, <1>2, <1>3, <1>4, <1>5

LEMMA ConcatTyped ==
  ASSUME NEW s \in Seq(Operations), NEW t \in Seq(Operations)
  PROVE  s \o t \in Seq(Operations) /\ Len(s \o t) = Len(s) + Len(t)
  OBVIOUS

Prefix2 == ScopeTables \o RunTables
Prefix3 == Prefix2 \o TextTables
Prefix4 == Prefix3 \o LinkTables

LEMMA PrefixesTyped ==
  /\ Prefix2 \in Seq(Operations) /\ Len(Prefix2) = 8
  /\ Prefix3 \in Seq(Operations) /\ Len(Prefix3) = 12
  /\ Prefix4 \in Seq(Operations) /\ Len(Prefix4) = 14
  /\ InitialUp = Prefix4 \o Triggers
  /\ InitialUp \in Seq(Operations) /\ Len(InitialUp) = 17
<1>1. Prefix2 \in Seq(Operations) /\ Len(Prefix2) = Len(ScopeTables) + Len(RunTables)
  BY GroupsTyped, ConcatTyped DEF Prefix2
<1>2. Prefix3 \in Seq(Operations) /\ Len(Prefix3) = Len(Prefix2) + Len(TextTables)
  BY <1>1, GroupsTyped, ConcatTyped DEF Prefix3
<1>3. Prefix4 \in Seq(Operations) /\ Len(Prefix4) = Len(Prefix3) + Len(LinkTables)
  BY <1>2, GroupsTyped, ConcatTyped DEF Prefix4
<1>4. InitialUp = Prefix4 \o Triggers
  BY DEF InitialUp, Prefix4, Prefix3, Prefix2
<1>5. InitialUp \in Seq(Operations) /\ Len(InitialUp) = Len(Prefix4) + Len(Triggers)
  BY <1>3, <1>4, GroupsTyped, ConcatTyped
<1>. QED BY <1>1, <1>2, <1>3, <1>4, <1>5, GroupsTyped

LEMMA ScriptsTyped ==
  /\ InitialUp \in Seq(Operations) /\ InitialDown \in Seq(Operations)
  /\ SeedUp \in Seq(Operations) /\ SeedDown \in Seq(Operations)
  /\ PerRunUp \in Seq(Operations) /\ PerRunDown \in Seq(Operations)
  /\ Len(InitialUp) = 17 /\ Len(InitialDown) = 17
  /\ Len(SeedUp) = 1 /\ Len(SeedDown) = 1 /\ Len(PerRunUp) = 2 /\ Len(PerRunDown) = 2
<1>1. InitialUp \in Seq(Operations) /\ Len(InitialUp) = 17
  BY PrefixesTyped
<1>2. InitialDown \in Seq(Operations) /\ Len(InitialDown) = 17
  <2>1. \A i \in 1 .. 17 : InitialDown[i] \in Operations
    BY Operation
  <2>. QED BY <2>1 DEF InitialDown
<1>3. /\ SeedUp \in Seq(Operations) /\ SeedDown \in Seq(Operations)
      /\ Len(SeedUp) = 1 /\ Len(SeedDown) = 1
  <2>1. SeedUp[1] \in Operations /\ SeedDown[1] \in Operations
    BY Operation
  <2>. QED BY <2>1 DEF SeedUp, SeedDown
<1>4. /\ PerRunUp \in Seq(Operations) /\ PerRunDown \in Seq(Operations)
      /\ Len(PerRunUp) = 2 /\ Len(PerRunDown) = 2
  <2>1. \A i \in 1 .. 2 : PerRunUp[i] \in Operations /\ PerRunDown[i] \in Operations
    BY Operation
  <2>. QED BY <2>1 DEF PerRunUp, PerRunDown
<1>. QED BY <1>1, <1>2, <1>3, <1>4

LEMMA TriggersRun ==
  ASSUME NEW a, NEW k \in Nat, Follows(a, k, Triggers), NEW t, NEW r, NEW u,
         AppendOnly \subseteq t, a[k] = Going(t, r, u, {}, {}, {})
  PROVE  a[k + 3] = Going(t, r, u, {"trg_append_only"}, AppendOnly, {})
<1>. DEFINE f == {"trg_append_only"}
            op1 == CreateFunction("trg_append_only")
            op2 == Guard("evidence_links")
            op3 == Guard("audit_trace")
<1>1. /\ a[k + 1] = Step(a[k], op1)
      /\ a[k + 2] = Step(a[k + 1], op2)
      /\ a[k + 3] = Step(a[k + 2], op3)
  <2>1. /\ Len(Triggers) = 3
        /\ Triggers[1] = op1 /\ Triggers[2] = op2 /\ Triggers[3] = op3
    BY DEF Triggers
  <2>. HIDE DEF op1, op2, op3
  <2>. QED BY <2>1 DEF Follows
<1>2. /\ op1.do = "create function" /\ op1.table = "trg_append_only"
      /\ op2.do = "guard" /\ op2.table = "evidence_links"
      /\ op3.do = "guard" /\ op3.table = "audit_trace"
  BY DEF CreateFunction, Guard, Op
<1>. HIDE DEF op1, op2, op3
<1>3. a[k + 1] = Going(t, r, u, f, {}, {})
  <2>. DEFINE d == DB(t, r, u, {}, {}, {})
  <2>1. Possible(d, op1)
    BY <1>2 DEF Possible, DB
  <2>2. Effect(d, op1) = DB(t, r, u, f, {}, {})
    BY <1>2 DEF Effect, DB
  <2>. QED BY <1>1, <2>1, <2>2, GoesOn DEF Going
<1>4. a[k + 2] = Going(t, r, u, f, {"evidence_links"}, {})
  <2>. DEFINE d == DB(t, r, u, f, {}, {})
  <2>1. Possible(d, op2)
    BY <1>2 DEF Possible, DB, AppendOnly
  <2>2. Effect(d, op2) = DB(t, r, u, f, {"evidence_links"}, {})
    BY <1>2 DEF Effect, DB
  <2>. QED BY <1>1, <1>3, <2>1, <2>2, GoesOn DEF Going
<1>5. a[k + 3] = Going(t, r, u, f, AppendOnly, {})
  <2>. DEFINE d == DB(t, r, u, f, {"evidence_links"}, {})
  <2>1. Possible(d, op3)
    BY <1>2 DEF Possible, DB, AppendOnly
  <2>2. Effect(d, op3) = DB(t, r, u, f, AppendOnly, {})
    BY <1>2 DEF Effect, DB, AppendOnly
  <2>. QED BY <1>1, <1>4, <2>1, <2>2, GoesOn DEF Going
<1>. QED BY <1>5

\* The models, added up.
LEMMA DeclaredIs ==
  Declared = DB(Names, Refs, UniqueModels, {"trg_append_only"}, AppendOnly, {})
<1>. DEFINE all == ScopeModels \cup SourceModels \cup LinkModels \cup FindingModels
                     \cup ConclusionModels \cup RecordModels
<1>1. all = Refs
  BY DEF ScopeModels, SourceModels, LinkModels, FindingModels, ConclusionModels,
         RecordModels, Refs, RunRefs, TextRefs, LinkRefs
<1>2. {"kv_cache"} \cup {e.from : e \in Refs} \cup {e.to : e \in Refs} = Names
  <2>1. \A e \in Refs : e.from \in Names /\ e.to \in Names
    BY RefFields DEF ScopeModels, Refs, RunRefs, TextRefs, LinkRefs,
       Names, ScopeNames, RunNames, TextNames, LinkNames
  <2>2. ASSUME NEW n \in Names, n # "kv_cache", n # "tenants"
        PROVE  \E e \in Refs : e.from = n
    <3>1. /\ Cascades("runs", "tenants") \in Refs /\ RunRefs \subseteq Refs
          /\ TextRefs \subseteq Refs /\ LinkRefs \subseteq Refs
      BY DEF Refs, ScopeModels
    <3>2. CASE n = "runs"
      BY <3>1, <3>2, RefFields
    <3>3. CASE n \in RunNames
      BY <3>1, <3>3, RefFields DEF RunNames, RunRefs
    <3>4. CASE n \in TextNames
      BY <3>1, <3>4, RefFields DEF TextNames, TextRefs
    <3>5. CASE n \in LinkNames
      BY <3>1, <3>5, RefFields DEF LinkNames, LinkRefs
    <3>. QED BY <2>2, <3>2, <3>3, <3>4, <3>5 DEF Names, ScopeNames
  <2>3. \E e \in Refs : e.to = "tenants"
    BY RefFields DEF Refs, ScopeModels
  <2>4. "kv_cache" \in Names
    BY DEF Names, ScopeNames
  <2>. HIDE DEF Refs, Names
  <2>. QED BY <2>1, <2>2, <2>3, <2>4
<1>3. Declared = Database({"kv_cache"} \cup {e.from : e \in all} \cup {e.to : e \in all},
                          all, UniqueModels, {"trg_append_only"}, AppendOnly)
  BY DEF Declared
<1>. HIDE DEF all
<1>. QED BY <1>1, <1>2, <1>3 DEF Database, DB

-----------------------------------------------------------------------------
(* The revisions *)

\* The schema at each revision.
UniquesAt(n) == IF n = Newest THEN UniqueModels ELSE Uniques

Stored(n, x) ==
  IF n = 0 THEN DB({}, {}, {}, {}, {}, x)
  ELSE DB(Names, Refs, UniquesAt(n), {"trg_append_only"}, AppendOnly, x)

Result(d) == [ok |-> TRUE, d |-> d]

\* Revision 8a6a416af425 creates all the tables in an empty database.
LEMMA InitialUpRun ==
  ASSUME NEW a, NEW k \in Nat, Follows(a, k, InitialUp), a[k] = Result(Stored(0, {}))
  PROVE  a[k + 17] = Result(Stored(1, {}))
<1>1. Follows(a, k, Prefix4) /\ Follows(a, k + 14, Triggers)
  BY PrefixesTyped, GroupsTyped, FollowsConcat
<1>2. Follows(a, k, Prefix3) /\ Follows(a, k + 12, LinkTables)
  BY <1>1, PrefixesTyped, GroupsTyped, FollowsConcat DEF Prefix4
<1>3. Follows(a, k, Prefix2) /\ Follows(a, k + 8, TextTables)
  BY <1>2, PrefixesTyped, GroupsTyped, FollowsConcat DEF Prefix3
<1>4. Follows(a, k, ScopeTables) /\ Follows(a, k + 3, RunTables)
  BY <1>3, GroupsTyped, FollowsConcat DEF Prefix2
<1>. DEFINE t1 == {} \cup ScopeNames
            t2 == t1 \cup RunNames
            t3 == t2 \cup TextNames
            t4 == t3 \cup LinkNames
            r1 == {} \cup ScopeModels
            r2 == r1 \cup RunRefs
            r3 == r2 \cup TextRefs
            r4 == r3 \cup LinkRefs
            u1 == {} \cup {Unique("tenants", {"namespace"})}
            u2 == u1 \cup RunUniques
            u3 == u2 \cup {Unique("passages", {"source_id", "seq"})}
<1>5. a[k] = Going({}, {}, {}, {}, {}, {})
  BY DEF Stored, Result, Going
<1>6. a[k + 3] = Going(t1, r1, u1, {}, {}, {})
  <2>1. {} \cap ScopeNames = {}
    OBVIOUS
  <2>. QED BY <1>4, <1>5, <2>1, ScopeTablesRun
<1>7. a[k + 8] = Going(t2, r2, u2, {}, {}, {})
  <2>1. "runs" \in t1 /\ t1 \cap RunNames = {}
    BY DEF ScopeNames, RunNames
  <2>2. k + 3 \in Nat /\ (k + 3) + 5 = k + 8
    OBVIOUS
  <2>3. a[(k + 3) + 5] = Going(t2, r2, u2, {}, {}, {})
    <3>. HIDE DEF t1, r1, u1
    <3>. QED BY <1>4, <1>6, <2>1, <2>2, RunTablesRun
  <2>. QED BY <2>2, <2>3
<1>8. a[k + 12] = Going(t3, r3, u3, {}, {}, {})
  <2>1. {"runs", "sources", "findings", "conclusions"} \subseteq t2 /\ t2 \cap TextNames = {}
    BY DEF ScopeNames, RunNames, TextNames
  <2>2. k + 8 \in Nat /\ (k + 8) + 4 = k + 12
    OBVIOUS
  <2>3. a[(k + 8) + 4] = Going(t3, r3, u3, {}, {}, {})
    <3>. HIDE DEF t2, r2, u2
    <3>. QED BY <1>3, <1>7, <2>1, <2>2, TextTablesRun
  <2>. QED BY <2>2, <2>3
<1>9. a[k + 14] = Going(t4, r4, u3, {}, {}, {})
  <2>1. {"runs", "passages", "statements", "findings"} \subseteq t3 /\ t3 \cap LinkNames = {}
    BY DEF ScopeNames, RunNames, TextNames, LinkNames
  <2>2. k + 12 \in Nat /\ (k + 12) + 2 = k + 14
    OBVIOUS
  <2>3. a[(k + 12) + 2] = Going(t4, r4, u3, {}, {}, {})
    <3>. HIDE DEF t3, r3, u3
    <3>. QED BY <1>2, <1>8, <2>1, <2>2, LinkTablesRun
  <2>. QED BY <2>2, <2>3
<1>10. a[k + 17] = Going(t4, r4, u3, {"trg_append_only"}, AppendOnly, {})
  <2>1. AppendOnly \subseteq t4
    BY DEF AppendOnly, ScopeNames, RunNames, TextNames, LinkNames
  <2>2. k + 14 \in Nat /\ (k + 14) + 3 = k + 17
    OBVIOUS
  <2>3. a[(k + 14) + 3] = Going(t4, r4, u3, {"trg_append_only"}, AppendOnly, {})
    <3>. HIDE DEF t4, r4, u3
    <3>. QED BY <1>1, <1>9, <2>1, <2>2, TriggersRun
  <2>. QED BY <2>2, <2>3
<1>11. t4 = Names /\ r4 = Refs /\ u3 = Uniques
  BY DEF Names, Refs, Uniques
<1>12. Stored(1, {}) = DB(Names, Refs, Uniques, {"trg_append_only"}, AppendOnly, {})
  BY DEF Stored, UniquesAt, Newest
<1>. HIDE DEF t4, r4, u3
<1>. QED BY <1>10, <1>11, <1>12 DEF Going, Result

\* Revision 5f2e3a8c9b1d leaves a tenant that is there alone.
LEMMA SeedUpRun ==
  ASSUME NEW a, NEW k \in Nat, Follows(a, k, SeedUp), NEW x, a[k] = Result(Stored(1, x))
  PROVE  a[k + 1] = Result(Stored(2, x \cup {DefaultTenant}))
<1>. DEFINE op == InsertTenant
            f == {"trg_append_only"}
            d == DB(Names, Refs, Uniques, f, AppendOnly, x)
<1>1. a[k + 1] = Step(a[k], op)
  BY DEF Follows, SeedUp
<1>2. /\ Stored(1, x) = d
      /\ Stored(2, x \cup {DefaultTenant}) =
           DB(Names, Refs, Uniques, f, AppendOnly, x \cup {DefaultTenant})
  BY DEF Stored, UniquesAt, Newest
<1>3. op.do = "insert or keep" /\ op.table = "tenants"
  BY DEF InsertTenant, Op
<1>4. "tenants" \in Names
  BY DEF Names, ScopeNames
<1>. HIDE DEF op
<1>5. Possible(d, op)
  BY <1>3, <1>4 DEF Possible, DB
<1>6. Effect(d, op) = DB(Names, Refs, Uniques, f, AppendOnly, x \cup {DefaultTenant})
  BY <1>3 DEF Effect, DB
<1>7. Step(Result(d), op) =
        Result(DB(Names, Refs, Uniques, f, AppendOnly, x \cup {DefaultTenant}))
  <2>. HIDE DEF d
  <2>. QED BY <1>5, <1>6, GoesOn DEF Result
<1>. HIDE DEF d
<1>. QED BY <1>1, <1>2, <1>7

\* The two constraints on sources.
Global == Unique("sources", {"content_hash"})
PerRun == Unique("sources", {"run_id", "content_hash"})

IsRow(y) == y = Row(y.table, y.run, y.content)

LEMMA UniquesDiffer ==
  /\ Global \in Uniques /\ PerRun \in UniqueModels
  /\ (Uniques \ {Global}) \cup {PerRun} = UniqueModels
  /\ (UniqueModels \ {PerRun}) \cup {Global} = Uniques
<1>. DEFINE a == Unique("tenants", {"namespace"})
            b == Unique("checkpoints", {"run_id", "stage"})
            c == Unique("passages", {"source_id", "seq"})
<1>1. {a, b, c} \cap {Global, PerRun} = {}
  BY DEF Unique, Global, PerRun
<1>2. Uniques = {a, b, c, Global} /\ UniqueModels = {a, b, c, PerRun}
  BY DEF Uniques, RunUniques, UniqueModels, Global, PerRun
<1>3. Global # PerRun
  <2>1. "run_id" \in PerRun.columns /\ "run_id" \notin Global.columns
    BY DEF Unique, Global, PerRun
  <2>. QED BY <2>1
<1>. HIDE DEF a, b, c, Global, PerRun
<1>. QED BY <1>1, <1>2, <1>3

\* Two rows of one run about one content are the same row.
LEMMA PerRunSatisfied ==
  ASSUME NEW x, \A y \in x : IsRow(y)
  PROVE  Satisfied(PerRun, x)
<1>. SUFFICES ASSUME NEW y \in x, NEW z \in x, Clash(PerRun, y, z)
              PROVE  FALSE
  BY DEF Satisfied
<1>1. y.table = z.table /\ y.content = z.content /\ y.run = z.run /\ y # z
  BY DEF Clash, PerRun, Unique
<1>. QED BY <1>1 DEF IsRow

\* Revision e3b4b1c57819 finds no rows that its constraint refuses.
LEMMA PerRunUpRun ==
  ASSUME NEW a, NEW k \in Nat, Follows(a, k, PerRunUp), NEW x, \A y \in x : IsRow(y),
         a[k] = Result(Stored(2, x))
  PROVE  a[k + 2] = Result(Stored(3, x))
<1>. DEFINE op1 == DropUnique("sources", {"content_hash"})
            op2 == AddUnique("sources", {"run_id", "content_hash"})
            f == {"trg_append_only"}
            d == DB(Names, Refs, Uniques, f, AppendOnly, x)
            d1 == DB(Names, Refs, Uniques \ {Global}, f, AppendOnly, x)
            d2 == DB(Names, Refs, UniqueModels, f, AppendOnly, x)
<1>1. a[k + 1] = Step(a[k], op1) /\ a[k + 2] = Step(a[k + 1], op2)
  <2>1. Len(PerRunUp) = 2 /\ PerRunUp[1] = op1 /\ PerRunUp[2] = op2
    BY DEF PerRunUp
  <2>. HIDE DEF op1, op2
  <2>. QED BY <2>1 DEF Follows
<1>2. Stored(2, x) = d /\ Stored(3, x) = d2
  BY DEF Stored, UniquesAt, Newest
<1>3. /\ op1.do = "drop unique" /\ op1.uniques = {Global}
      /\ op2.do = "add unique" /\ op2.uniques = {PerRun}
  BY DEF DropUnique, AddUnique, Op, Global, PerRun
<1>. HIDE DEF op1, op2
<1>4. Possible(d, op1) /\ Possible(d1, op2)
  BY <1>3, UniquesDiffer, PerRunSatisfied DEF Possible, DB
<1>5. Effect(d, op1) = d1
  BY <1>3 DEF Effect, DB
<1>6. Effect(d1, op2) = d2
  BY <1>3, UniquesDiffer DEF Effect, DB
<1>. HIDE DEF d, d1, d2
<1>7. a[k + 1] = Result(d1)
  BY <1>1, <1>2, <1>4, <1>5, GoesOn DEF Result
<1>. QED BY <1>1, <1>2, <1>4, <1>6, <1>7, GoesOn DEF Result

\* What is known of a result: if it is one, then of this database.
Holds(result, d) == result.ok => result.d = d

LEMMA PerRunDownRun ==
  ASSUME NEW a, NEW k \in Nat, Follows(a, k, PerRunDown), NEW x,
         Holds(a[k], Stored(3, x))
  PROVE  Holds(a[k + 2], Stored(2, x))
<1>. DEFINE op1 == DropUnique("sources", {"run_id", "content_hash"})
            op2 == AddUnique("sources", {"content_hash"})
            f == {"trg_append_only"}
            d == DB(Names, Refs, UniqueModels, f, AppendOnly, x)
            d1 == DB(Names, Refs, UniqueModels \ {PerRun}, f, AppendOnly, x)
            d2 == DB(Names, Refs, Uniques, f, AppendOnly, x)
<1>1. a[k + 1] = Step(a[k], op1) /\ a[k + 2] = Step(a[k + 1], op2)
  <2>1. Len(PerRunDown) = 2 /\ PerRunDown[1] = op1 /\ PerRunDown[2] = op2
    BY DEF PerRunDown
  <2>. HIDE DEF op1, op2
  <2>. QED BY <2>1 DEF Follows
<1>2. Stored(3, x) = d /\ Stored(2, x) = d2
  BY DEF Stored, UniquesAt, Newest
<1>3. /\ op1.do = "drop unique" /\ op1.uniques = {PerRun}
      /\ op2.do = "add unique" /\ op2.uniques = {Global}
  BY DEF DropUnique, AddUnique, Op, Global, PerRun
<1>. HIDE DEF op1, op2
<1>4. Effect(d, op1) = d1
  BY <1>3 DEF Effect, DB
<1>5. Effect(d1, op2) = d2
  BY <1>3, UniquesDiffer DEF Effect, DB
<1>. HIDE DEF d, d1, d2
<1>6. Holds(a[k + 1], d1)
  BY <1>1, <1>2, <1>4, StepGoesOn DEF Holds
<1>. QED BY <1>1, <1>2, <1>5, <1>6, StepGoesOn DEF Holds

\* What a delete may take away: nothing append-only, nothing that is referred to
\* from what stays, and with the tenant only what cascades from it.
Removal(x, gone) ==
  /\ gone \subseteq x
  /\ \A y \in gone : y.table \notin AppendOnly
  /\ \A y \in x \ gone : \A z \in gone : \A e \in Refs : ~RefersBy(e, y, z)
  /\ \A y \in gone : y # DefaultTenant =>
       \E z \in gone : \E e \in Refs : e.on = "CASCADE" /\ RefersBy(e, y, z)

\* Its downgrade deletes the tenant, or fails.
LEMMA SeedDownRun ==
  ASSUME NEW a, NEW k \in Nat, Follows(a, k, SeedDown), NEW x,
         Holds(a[k], Stored(2, x)), a[k + 1].ok
  PROVE  \E gone : Removal(x, gone) /\ a[k + 1].d = Stored(1, x \ gone)
<1>. DEFINE op == DeleteTenant
            f == {"trg_append_only"}
            d == DB(Names, Refs, Uniques, f, AppendOnly, x)
            S == {DefaultTenant} \cap x
            gone == Cascaded(d, S)
<1>1. a[k + 1] = Step(a[k], op)
  BY DEF Follows, SeedDown
<1>2. Stored(2, x) = d /\ Stored(1, x \ gone) = DB(Names, Refs, Uniques, f, AppendOnly, x \ gone)
  BY DEF Stored, UniquesAt, Newest
<1>3. op.do = "delete"
  BY DEF DeleteTenant, Op
<1>4. d.rows = x /\ d.refs = Refs /\ d.guarded = AppendOnly
  BY DEF DB
<1>5. Possible(d, op) /\ a[k + 1].d = Effect(d, op)
  <2>. HIDE DEF op, d
  <2>. QED BY <1>1, <1>2, StepGoesOn DEF Holds
<1>. HIDE DEF op
<1>6. Deletable(d, S)
  <2>. HIDE DEF d
  <2>. QED BY <1>3, <1>4, <1>5 DEF Possible
<1>7. Effect(d, op) = DB(Names, Refs, Uniques, f, AppendOnly, x \ gone)
  <2>1. Effect(d, op) = [d EXCEPT !.rows = x \ gone]
    <3>. HIDE DEF d
    <3>. QED BY <1>3, <1>4 DEF Effect
  <2>. HIDE DEF gone
  <2>. QED BY <2>1 DEF DB
<1>8. Removal(x, gone)
  <2>. DEFINE edges == {<<e[2], e[1]>> : e \in References(d, {"CASCADE"})}
  <2>1. gone = Reached(edges, S)
    BY DEF Cascaded
  <2>2. \A e \in edges : /\ e[1] \in x /\ e[2] \in x
                         /\ \E r \in Refs : r.on = "CASCADE" /\ RefersBy(r, e[2], e[1])
    <3>. HIDE DEF d
    <3>. QED BY <1>4 DEF References
  <2>3. gone \subseteq x
    <3>. HIDE DEF edges
    <3>. QED BY <2>1, <2>2, ReachedWithin
  <2>4. \A y \in gone \ S : \E e \in edges : e[1] \in gone /\ e[2] = y
    <3>. HIDE DEF edges, S
    <3>. QED BY <2>1, ReachedGrounds
  <2>5. \A y \in gone : y # DefaultTenant =>
          \E z \in gone : \E e \in Refs : e.on = "CASCADE" /\ RefersBy(e, y, z)
    <3>. HIDE DEF edges, gone
    <3>. QED BY <2>2, <2>4
  <2>. HIDE DEF gone, d
  <2>. QED BY <1>4, <1>6, <2>3, <2>5 DEF Deletable, Removal, gone
<1>. HIDE DEF gone, d
<1>. QED BY <1>2, <1>5, <1>7, <1>8

LEMMA UnguardStep ==
  ASSUME NEW result, NEW table, NEW t, NEW r, NEW u, NEW f, NEW g, NEW x,
         Holds(result, DB(t, r, u, f, g, x))
  PROVE  Holds(Step(result, Unguard(table)), DB(t, r, u, f, g \ {table}, x))
<1>. DEFINE op == Unguard(table)
            d == DB(t, r, u, f, g, x)
            d1 == DB(t, r, u, f, g \ {table}, x)
<1>1. op.do = "unguard" /\ op.table = table
  BY DEF Unguard, Op
<1>2. Effect(d, op) = d1
  <2>. HIDE DEF op
  <2>. QED BY <1>1 DEF Effect, DB
<1>3. Holds(Step(result, op), d1)
  <2>. HIDE DEF op, d1, d
  <2>. QED BY <1>2, StepGoesOn DEF Holds, d
<1>. QED BY <1>3

LEMMA DropFunctionStep ==
  ASSUME NEW result, NEW name, NEW t, NEW r, NEW u, NEW f, NEW g, NEW x,
         Holds(result, DB(t, r, u, f, g, x))
  PROVE  Holds(Step(result, DropFunction(name)), DB(t, r, u, f \ {name}, g, x))
<1>. DEFINE op == DropFunction(name)
            d == DB(t, r, u, f, g, x)
            d1 == DB(t, r, u, f \ {name}, g, x)
<1>1. op.do = "drop function" /\ op.table = name
  BY DEF DropFunction, Op
<1>2. Effect(d, op) = d1
  <2>. HIDE DEF op
  <2>. QED BY <1>1 DEF Effect, DB
<1>3. Holds(Step(result, op), d1)
  <2>. HIDE DEF op, d1, d
  <2>. QED BY <1>2, StepGoesOn DEF Holds, d
<1>. QED BY <1>3

\* Nothing is left of the first revision.
LEMMA InitialDownRun ==
  ASSUME NEW a, NEW k \in Nat, Follows(a, k, InitialDown),
         NEW x, \A y \in x : y.table \in Names, Holds(a[k], Stored(1, x))
  PROVE  Holds(a[k + 17], Stored(0, {}))
<1>. DEFINE left(i, dropped) ==
              Leaves(a[k + i], Names, Refs, Uniques, {}, {}, x, dropped)
            d1 == {} \cup {"finding_statements"}
            d2 == d1 \cup {"evidence_links"}
            d3 == d2 \cup {"contradictions"}
            d4 == d3 \cup {"conclusion_evidence"}
            d5 == d4 \cup {"statements"}
            d6 == d5 \cup {"passages"}
            d7 == d6 \cup {"sources"}
            d8 == d7 \cup {"findings"}
            d9 == d8 \cup {"conclusions"}
            d10 == d9 \cup {"checkpoints"}
            d11 == d10 \cup {"audit_trace"}
            d12 == d11 \cup {"runs"}
            d13 == d12 \cup {"tenants"}
            d14 == d13 \cup {"kv_cache"}
<1>1. \A i \in 1 .. 17 : a[k + i] = Step(a[(k + i) - 1], InitialDown[i])
  BY ScriptsTyped DEF Follows
<1>2. /\ a[k + 1] = Step(a[k], Unguard("audit_trace"))
      /\ a[k + 2] = Step(a[k + 1], Unguard("evidence_links"))
      /\ a[k + 3] = Step(a[k + 2], DropFunction("trg_append_only"))
      /\ a[k + 4] = Step(a[k + 3], Drop("finding_statements"))
      /\ a[k + 5] = Step(a[k + 4], Drop("evidence_links"))
      /\ a[k + 6] = Step(a[k + 5], Drop("contradictions"))
      /\ a[k + 7] = Step(a[k + 6], Drop("conclusion_evidence"))
      /\ a[k + 8] = Step(a[k + 7], Drop("statements"))
      /\ a[k + 9] = Step(a[k + 8], Drop("passages"))
      /\ a[k + 10] = Step(a[k + 9], Drop("sources"))
      /\ a[k + 11] = Step(a[k + 10], Drop("findings"))
      /\ a[k + 12] = Step(a[k + 11], Drop("conclusions"))
      /\ a[k + 13] = Step(a[k + 12], Drop("checkpoints"))
      /\ a[k + 14] = Step(a[k + 13], Drop("audit_trace"))
      /\ a[k + 15] = Step(a[k + 14], Drop("runs"))
      /\ a[k + 16] = Step(a[k + 15], Drop("tenants"))
      /\ a[k + 17] = Step(a[k + 16], Drop("kv_cache"))
  <2>1. /\ InitialDown[1] = Unguard("audit_trace")
        /\ InitialDown[2] = Unguard("evidence_links")
        /\ InitialDown[3] = DropFunction("trg_append_only")
        /\ InitialDown[4] = Drop("finding_statements")
        /\ InitialDown[5] = Drop("evidence_links")
        /\ InitialDown[6] = Drop("contradictions")
        /\ InitialDown[7] = Drop("conclusion_evidence")
        /\ InitialDown[8] = Drop("statements")
        /\ InitialDown[9] = Drop("passages")
        /\ InitialDown[10] = Drop("sources")
        /\ InitialDown[11] = Drop("findings")
        /\ InitialDown[12] = Drop("conclusions")
        /\ InitialDown[13] = Drop("checkpoints")
        /\ InitialDown[14] = Drop("audit_trace")
        /\ InitialDown[15] = Drop("runs")
        /\ InitialDown[16] = Drop("tenants")
        /\ InitialDown[17] = Drop("kv_cache")
    BY DEF InitialDown
  <2>. QED BY <1>1, <2>1
<1>3. Holds(a[k], DB(Names, Refs, Uniques, {"trg_append_only"}, AppendOnly, x))
  BY DEF Stored, UniquesAt, Newest
<1>4. Holds(a[k + 1], DB(Names, Refs, Uniques, {"trg_append_only"},
                         AppendOnly \ {"audit_trace"}, x))
  BY <1>2, <1>3, UnguardStep
<1>5. Holds(a[k + 2], DB(Names, Refs, Uniques, {"trg_append_only"},
                         (AppendOnly \ {"audit_trace"}) \ {"evidence_links"}, x))
  BY <1>2, <1>4, UnguardStep
<1>6. Holds(a[k + 3], DB(Names, Refs, Uniques, {"trg_append_only"} \ {"trg_append_only"},
                         (AppendOnly \ {"audit_trace"}) \ {"evidence_links"}, x))
  BY <1>2, <1>5, DropFunctionStep
<1>7. left(3, {})
  <2>1. /\ {"trg_append_only"} \ {"trg_append_only"} = {}
        /\ (AppendOnly \ {"audit_trace"}) \ {"evidence_links"} = {}
    BY DEF AppendOnly
  <2>2. /\ Names \ {} = Names /\ {e \in Refs : e.from \notin {}} = Refs
        /\ {w \in Uniques : w.table \notin {}} = Uniques /\ {} \ {} = {}
        /\ {y \in x : y.table \notin {}} = x
    OBVIOUS
  <2>. QED BY <1>6, <2>1, <2>2 DEF Holds, Leaves
<1>8. left(4, d1)
  <2>. QED BY <1>2, <1>7, DropStep
<1>9. left(5, d2)
  <2>. HIDE DEF d1
  <2>. QED BY <1>2, <1>8, DropStep
<1>10. left(6, d3)
  <2>. HIDE DEF d2
  <2>. QED BY <1>2, <1>9, DropStep
<1>11. left(7, d4)
  <2>. HIDE DEF d3
  <2>. QED BY <1>2, <1>10, DropStep
<1>12. left(8, d5)
  <2>. HIDE DEF d4
  <2>. QED BY <1>2, <1>11, DropStep
<1>13. left(9, d6)
  <2>. HIDE DEF d5
  <2>. QED BY <1>2, <1>12, DropStep
<1>14. left(10, d7)
  <2>. HIDE DEF d6
  <2>. QED BY <1>2, <1>13, DropStep
<1>15. left(11, d8)
  <2>. HIDE DEF d7
  <2>. QED BY <1>2, <1>14, DropStep
<1>16. left(12, d9)
  <2>. HIDE DEF d8
  <2>. QED BY <1>2, <1>15, DropStep
<1>17. left(13, d10)
  <2>. HIDE DEF d9
  <2>. QED BY <1>2, <1>16, DropStep
<1>18. left(14, d11)
  <2>. HIDE DEF d10
  <2>. QED BY <1>2, <1>17, DropStep
<1>19. left(15, d12)
  <2>. HIDE DEF d11
  <2>. QED BY <1>2, <1>18, DropStep
<1>20. left(16, d13)
  <2>. HIDE DEF d12
  <2>. QED BY <1>2, <1>19, DropStep
<1>21. left(17, d14)
  <2>. HIDE DEF d13
  <2>. QED BY <1>2, <1>20, DropStep
<1>22. Names \subseteq d14
  BY DEF Names, ScopeNames, RunNames, TextNames, LinkNames
<1>23. /\ Names \ d14 = {} /\ {e \in Refs : e.from \notin d14} = {}
       /\ {w \in Uniques : w.table \notin d14} = {} /\ {y \in x : y.table \notin d14} = {}
  <2>1. \A e \in Refs : e.from \in Names
    BY RefFields DEF ScopeModels, Refs, RunRefs, TextRefs, LinkRefs,
       Names, ScopeNames, RunNames, TextNames, LinkNames
  <2>2. \A w \in Uniques : w.table \in Names
    BY DEF Uniques, RunUniques, Unique, Names, ScopeNames, RunNames, TextNames
  <2>. HIDE DEF d14
  <2>. QED BY <1>22, <2>1, <2>2
<1>. HIDE DEF d14
<1>. QED BY <1>21, <1>23 DEF Leaves, Holds, Stored

-----------------------------------------------------------------------------
(* A migration *)

\* The six parts of a script.
LEMMA SplitSix ==
  ASSUME NEW s1 \in Seq(Operations), NEW s2 \in Seq(Operations),
         NEW s3 \in Seq(Operations), NEW s4 \in Seq(Operations),
         NEW s5 \in Seq(Operations), NEW s6 \in Seq(Operations), NEW a,
         Follows(a, 0, s1 \o s2 \o s3 \o s4 \o s5 \o s6)
  PROVE  /\ Follows(a, 0, s1) /\ Follows(a, Len(s1), s2)
         /\ Follows(a, Len(s1) + Len(s2), s3)
         /\ Follows(a, Len(s1) + Len(s2) + Len(s3), s4)
         /\ Follows(a, Len(s1) + Len(s2) + Len(s3) + Len(s4), s5)
         /\ Follows(a, Len(s1) + Len(s2) + Len(s3) + Len(s4) + Len(s5), s6)
         /\ Len(s1 \o s2 \o s3 \o s4 \o s5 \o s6) =
              Len(s1) + Len(s2) + Len(s3) + Len(s4) + Len(s5) + Len(s6)
<1>. DEFINE t2 == s1 \o s2
            t3 == t2 \o s3
            t4 == t3 \o s4
            t5 == t4 \o s5
            t6 == t5 \o s6
<1>1. t2 \in Seq(Operations) /\ Len(t2) = Len(s1) + Len(s2)
  BY ConcatTyped
<1>2. t3 \in Seq(Operations) /\ Len(t3) = Len(t2) + Len(s3)
  <2>. HIDE DEF t2
  <2>. QED BY <1>1, ConcatTyped
<1>3. t4 \in Seq(Operations) /\ Len(t4) = Len(t3) + Len(s4)
  <2>. HIDE DEF t3
  <2>. QED BY <1>2, ConcatTyped
<1>4. t5 \in Seq(Operations) /\ Len(t5) = Len(t4) + Len(s5)
  <2>. HIDE DEF t4
  <2>. QED BY <1>3, ConcatTyped
<1>5. t6 \in Seq(Operations) /\ Len(t6) = Len(t5) + Len(s6)
  <2>. HIDE DEF t5
  <2>. QED BY <1>4, ConcatTyped
<1>6. Follows(a, 0, t5) /\ Follows(a, 0 + Len(t5), s6)
  <2>1. Follows(a, 0, t5 \o s6)
    OBVIOUS
  <2>. HIDE DEF t5
  <2>. QED BY <1>4, <2>1, FollowsConcat
<1>7. Follows(a, 0, t4) /\ Follows(a, 0 + Len(t4), s5)
  <2>. HIDE DEF t4
  <2>. QED BY <1>6, <1>3, FollowsConcat
<1>8. Follows(a, 0, t3) /\ Follows(a, 0 + Len(t3), s4)
  <2>. HIDE DEF t3
  <2>. QED BY <1>7, <1>2, FollowsConcat
<1>9. Follows(a, 0, t2) /\ Follows(a, 0 + Len(t2), s3)
  <2>. HIDE DEF t2
  <2>. QED BY <1>8, <1>1, FollowsConcat
<1>10. Follows(a, 0, s1) /\ Follows(a, 0 + Len(s1), s2)
  BY <1>9, FollowsConcat
<1>11. /\ Len(s1) \in Nat /\ Len(s2) \in Nat /\ Len(s3) \in Nat
       /\ Len(s4) \in Nat /\ Len(s5) \in Nat /\ Len(s6) \in Nat
  OBVIOUS
<1>12. s1 \o s2 \o s3 \o s4 \o s5 \o s6 = t6
  OBVIOUS
<1>. HIDE DEF t2, t3, t4, t5, t6
<1>13. /\ Len(t2) \in Nat /\ Len(t3) \in Nat /\ Len(t4) \in Nat
       /\ Len(t5) \in Nat /\ Len(t6) \in Nat
  BY <1>1, <1>2, <1>3, <1>4, <1>5, <1>11
<1>14. /\ 0 + Len(s1) = Len(s1) /\ 0 + Len(t2) = Len(t2) /\ 0 + Len(t3) = Len(t3)
       /\ 0 + Len(t4) = Len(t4) /\ 0 + Len(t5) = Len(t5)
  BY <1>11, <1>13
<1>15. /\ Follows(a, 0, s1) /\ Follows(a, Len(s1), s2) /\ Follows(a, Len(t2), s3)
       /\ Follows(a, Len(t3), s4) /\ Follows(a, Len(t4), s5) /\ Follows(a, Len(t5), s6)
  BY <1>6, <1>7, <1>8, <1>9, <1>10, <1>14
<1>. QED BY <1>1, <1>2, <1>3, <1>4, <1>5, <1>12, <1>15

\* What an upgrade makes of the rows x.
Upgraded(n, x, result) ==
  \E y \in {x, x \cup {DefaultTenant}} : result = Result(Stored(n, y))

\* What a downgrade leaves of them.
Downgraded(n, x, y) ==
  IF n = 0 THEN y = {} ELSE \E gone : Removal(x, gone) /\ y = x \ gone

RowsFit(n, x) ==
  /\ \A y \in x : IsRow(y) /\ y.table \in Names
  /\ n = 0 => x = {}

LEMMA TenantIsRow == IsRow(DefaultTenant) /\ DefaultTenant.table \in Names
  BY DEF IsRow, DefaultTenant, Row, Names, ScopeNames

LEMMA NothingRemoved ==
  ASSUME NEW x
  PROVE  Removal(x, {}) /\ x = x \ {}
  BY DEF Removal

\* Every upgrade goes through and adds at most the tenant; a downgrade that goes
\* through leaves nothing, or all but a removal.
LEMMA Migration ==
  ASSUME NEW from \in Revisions, NEW to \in Revisions, NEW x, RowsFit(from, x)
  PROVE  /\ from < to => Upgraded(to, x, Run(Script(from, to), Stored(from, x)))
         /\ (to < from /\ Run(Script(from, to), Stored(from, x)).ok) =>
              \E y : /\ Downgraded(to, x, y)
                     /\ Run(Script(from, to), Stored(from, x)).d = Stored(to, y)
<1>. DEFINE s1 == IF from < 1 /\ 1 <= to THEN InitialUp ELSE <<>>
            s2 == IF from < 2 /\ 2 <= to THEN SeedUp ELSE <<>>
            s3 == IF from < 3 /\ 3 <= to THEN PerRunUp ELSE <<>>
            s4 == IF to < 3 /\ 3 <= from THEN PerRunDown ELSE <<>>
            s5 == IF to < 2 /\ 2 <= from THEN SeedDown ELSE <<>>
            s6 == IF to < 1 /\ 1 <= from THEN InitialDown ELSE <<>>
            s == s1 \o s2 \o s3 \o s4 \o s5 \o s6
            d == Stored(from, x)
            r == Run(s, d)
<1>1. Script(from, to) = s
  <2>1. /\ Ups[1] = InitialUp /\ Ups[2] = SeedUp /\ Ups[3] = PerRunUp
        /\ Downs[1] = InitialDown /\ Downs[2] = SeedDown /\ Downs[3] = PerRunDown
    BY DEF Ups, Downs
  <2>. QED BY <2>1 DEF Script
<1>2. /\ s1 \in Seq(Operations) /\ s2 \in Seq(Operations) /\ s3 \in Seq(Operations)
      /\ s4 \in Seq(Operations) /\ s5 \in Seq(Operations) /\ s6 \in Seq(Operations)
  <2>1. <<>> \in Seq(Operations)
    OBVIOUS
  <2>. QED BY <2>1, ScriptsTyped
<1>3. s \in Seq(Operations)
  <2>. HIDE DEF s1, s2, s3, s4, s5, s6
  <2>. QED BY <1>2, ConcatTyped
<1>4. PICK a : /\ a[0] = Result(d) /\ Follows(a, 0, s)
               /\ r = [ok |-> a[Len(s)].ok, d |-> IF a[Len(s)].ok THEN a[Len(s)].d ELSE d]
  <2>. HIDE DEF s, d
  <2>. QED BY <1>3, RunUnrolls DEF Result
<1>. DEFINE p1 == Len(s1)
            p2 == p1 + Len(s2)
            p3 == p2 + Len(s3)
            p4 == p3 + Len(s4)
            p5 == p4 + Len(s5)
            p6 == p5 + Len(s6)
<1>5. /\ Follows(a, 0, s1) /\ Follows(a, p1, s2) /\ Follows(a, p2, s3)
      /\ Follows(a, p3, s4) /\ Follows(a, p4, s5) /\ Follows(a, p5, s6)
      /\ Len(s) = p6
  <2>1. Follows(a, 0, s1 \o s2 \o s3 \o s4 \o s5 \o s6)
    BY <1>4
  <2>. HIDE DEF s1, s2, s3, s4, s5, s6, d, r
  <2>2. /\ Follows(a, 0, s1) /\ Follows(a, Len(s1), s2)
        /\ Follows(a, Len(s1) + Len(s2), s3)
        /\ Follows(a, Len(s1) + Len(s2) + Len(s3), s4)
        /\ Follows(a, Len(s1) + Len(s2) + Len(s3) + Len(s4), s5)
        /\ Follows(a, Len(s1) + Len(s2) + Len(s3) + Len(s4) + Len(s5), s6)
        /\ Len(s1 \o s2 \o s3 \o s4 \o s5 \o s6)
             = Len(s1) + Len(s2) + Len(s3) + Len(s4) + Len(s5) + Len(s6)
    BY ONLY <1>2, <2>1, SplitSix, SMTT(40)
  <2>. QED BY ONLY <2>2
<1>6. Newest = 3 /\ from \in 0 .. 3 /\ to \in 0 .. 3
  BY DEF Newest, Revisions
<1>7. /\ p1 \in Nat /\ p2 \in Nat /\ p3 \in Nat /\ p4 \in Nat /\ p5 \in Nat /\ p6 \in Nat
      /\ p1 = IF from < 1 /\ 1 <= to THEN 17 ELSE 0
      /\ p2 = IF from < 2 /\ 2 <= to THEN p1 + 1 ELSE p1
      /\ p3 = IF from < 3 /\ 3 <= to THEN p2 + 2 ELSE p2
      /\ p4 = IF to < 3 /\ 3 <= from THEN p3 + 2 ELSE p3
      /\ p5 = IF to < 2 /\ 2 <= from THEN p4 + 1 ELSE p4
      /\ p6 = IF to < 1 /\ 1 <= from THEN p5 + 17 ELSE p5
  <2>1. Len(<<>>) = 0
    OBVIOUS
  <2>3. IF from < 1 /\ 1 <= to THEN Len(s1) = 17 ELSE Len(s1) = 0
    BY <2>1, ScriptsTyped
  <2>4. IF from < 2 /\ 2 <= to THEN Len(s2) = 1 ELSE Len(s2) = 0
    BY <2>1, ScriptsTyped
  <2>5. IF from < 3 /\ 3 <= to THEN Len(s3) = 2 ELSE Len(s3) = 0
    BY <2>1, ScriptsTyped
  <2>6. IF to < 3 /\ 3 <= from THEN Len(s4) = 2 ELSE Len(s4) = 0
    BY <2>1, ScriptsTyped
  <2>7. IF to < 2 /\ 2 <= from THEN Len(s5) = 1 ELSE Len(s5) = 0
    BY <2>1, ScriptsTyped
  <2>8. IF to < 1 /\ 1 <= from THEN Len(s6) = 17 ELSE Len(s6) = 0
    BY <2>1, ScriptsTyped
  <2>. HIDE DEF s1, s2, s3, s4, s5, s6
  <2>9. /\ Len(s1) \in Nat /\ Len(s2) \in Nat /\ Len(s3) \in Nat
        /\ Len(s4) \in Nat /\ Len(s5) \in Nat /\ Len(s6) \in Nat
    BY <1>2
  <2>10. /\ p1 = Len(s1) /\ p2 = p1 + Len(s2) /\ p3 = p2 + Len(s3)
         /\ p4 = p3 + Len(s4) /\ p5 = p4 + Len(s5) /\ p6 = p5 + Len(s6)
    OBVIOUS
  <2>. HIDE DEF s1, s2, s3, s4, s5, s6, p1, p2, p3, p4, p5, p6
  <2>11. p1 \in Nat /\ p2 \in Nat /\ p3 \in Nat /\ p4 \in Nat /\ p5 \in Nat /\ p6 \in Nat
    <3>1. p1 \in Nat /\ p2 \in Nat
      BY <2>9, <2>10
    <3>2. p3 \in Nat /\ p4 \in Nat
      BY <2>9, <2>10, <3>1
    <3>3. p5 \in Nat /\ p6 \in Nat
      BY <2>9, <2>10, <3>2
    <3>. QED BY <3>1, <3>2, <3>3
  <2>12. p1 = IF from < 1 /\ 1 <= to THEN 17 ELSE 0
    BY <2>3, <2>10, <2>11
  <2>13. p2 = IF from < 2 /\ 2 <= to THEN p1 + 1 ELSE p1
    <3>1. CASE from < 2 /\ 2 <= to
      <4>1. p2 = p1 + 1
        BY <2>4, <2>10, <3>1
      <4>. QED BY <3>1, <4>1
    <3>2. CASE ~(from < 2 /\ 2 <= to)
      <4>1. p2 = p1 + 0
        BY <2>4, <2>10, <3>2
      <4>2. p2 = p1
        BY <2>11, <4>1
      <4>. QED BY <3>2, <4>2
    <3>. QED BY <3>1, <3>2
  <2>14. p3 = IF from < 3 /\ 3 <= to THEN p2 + 2 ELSE p2
    <3>1. CASE from < 3 /\ 3 <= to
      <4>1. p3 = p2 + 2
        BY <2>5, <2>10, <3>1
      <4>. QED BY <3>1, <4>1
    <3>2. CASE ~(from < 3 /\ 3 <= to)
      <4>1. p3 = p2 + 0
        BY <2>5, <2>10, <3>2
      <4>2. p3 = p2
        BY <2>11, <4>1
      <4>. QED BY <3>2, <4>2
    <3>. QED BY <3>1, <3>2
  <2>15. p4 = IF to < 3 /\ 3 <= from THEN p3 + 2 ELSE p3
    <3>1. CASE to < 3 /\ 3 <= from
      <4>1. p4 = p3 + 2
        BY <2>6, <2>10, <3>1
      <4>. QED BY <3>1, <4>1
    <3>2. CASE ~(to < 3 /\ 3 <= from)
      <4>1. p4 = p3 + 0
        BY <2>6, <2>10, <3>2
      <4>2. p4 = p3
        BY <2>11, <4>1
      <4>. QED BY <3>2, <4>2
    <3>. QED BY <3>1, <3>2
  <2>16. p5 = IF to < 2 /\ 2 <= from THEN p4 + 1 ELSE p4
    <3>1. CASE to < 2 /\ 2 <= from
      <4>1. p5 = p4 + 1
        BY <2>7, <2>10, <3>1
      <4>. QED BY <3>1, <4>1
    <3>2. CASE ~(to < 2 /\ 2 <= from)
      <4>1. p5 = p4 + 0
        BY <2>7, <2>10, <3>2
      <4>2. p5 = p4
        BY <2>11, <4>1
      <4>. QED BY <3>2, <4>2
    <3>. QED BY <3>1, <3>2
  <2>17. p6 = IF to < 1 /\ 1 <= from THEN p5 + 17 ELSE p5
    <3>1. CASE to < 1 /\ 1 <= from
      <4>1. p6 = p5 + 17
        BY <2>8, <2>10, <3>1
      <4>. QED BY <3>1, <4>1
    <3>2. CASE ~(to < 1 /\ 1 <= from)
      <4>1. p6 = p5 + 0
        BY <2>8, <2>10, <3>2
      <4>2. p6 = p5
        BY <2>11, <4>1
      <4>. QED BY <3>2, <4>2
    <3>. QED BY <3>1, <3>2
  <2>. QED BY <2>11, <2>12, <2>13, <2>14, <2>15, <2>16, <2>17
<1>. HIDE DEF p1, p2, p3, p4, p5, p6
<1>. HIDE DEF s1, s2, s3, s4, s5, s6
<1>8. ASSUME from < to
      PROVE  Upgraded(to, x, r)
  <2>1. p6 = p3
    BY <1>6, <1>7, <1>8
  <2>2. Upgraded(from, x, a[0])
    BY <1>4 DEF Upgraded
  <2>. DEFINE l1 == IF from < 1 THEN 1 ELSE from
              l2 == IF from < 2 /\ 2 <= to THEN 2 ELSE l1
              l3 == IF from < 3 /\ 3 <= to THEN 3 ELSE l2
  <2>3. Upgraded(l1, x, a[p1])
    <3>1. CASE from < 1
      <4>1. p1 = 17 /\ from = 0 /\ x = {}
        BY <1>6, <1>7, <1>8, <3>1 DEF RowsFit
      <4>2. Follows(a, 0, InitialUp)
        BY <1>5, <1>6, <1>8, <3>1 DEF s1
      <4>3. a[0 + 17] = Result(Stored(1, {}))
        BY <1>4, <4>1, <4>2, InitialUpRun
      <4>. QED BY <4>1, <4>3, <3>1 DEF Upgraded
    <3>2. CASE ~(from < 1)
      <4>1. p1 = 0
        BY <1>6, <1>7, <3>2
      <4>. QED BY <4>1, <2>2, <3>2
    <3>. QED BY <3>1, <3>2
  <2>4. Upgraded(l2, x, a[p2])
    <3>1. CASE from < 2 /\ 2 <= to
      <4>1. p2 = p1 + 1 /\ l1 = 1
        BY <1>6, <1>7, <3>1
      <4>2. PICK y \in {x, x \cup {DefaultTenant}} : a[p1] = Result(Stored(1, y))
        BY <2>3, <4>1 DEF Upgraded
      <4>3. Follows(a, p1, SeedUp)
        BY <1>5, <3>1 DEF s2
      <4>4. a[p1 + 1] = Result(Stored(2, y \cup {DefaultTenant}))
        BY <1>7, <4>2, <4>3, SeedUpRun
      <4>5. y \cup {DefaultTenant} = x \cup {DefaultTenant}
        OBVIOUS
      <4>. QED BY <4>1, <4>4, <4>5, <3>1 DEF Upgraded
    <3>2. CASE ~(from < 2 /\ 2 <= to)
      <4>1. p2 = p1
        BY <1>6, <1>7, <3>2
      <4>. QED BY <4>1, <2>3, <3>2
    <3>. QED BY <3>1, <3>2
  <2>5. Upgraded(l3, x, a[p3])
    <3>1. CASE from < 3 /\ 3 <= to
      <4>1. p3 = p2 + 2 /\ l2 = 2
        BY <1>6, <1>7, <3>1
      <4>2. PICK y \in {x, x \cup {DefaultTenant}} : a[p2] = Result(Stored(2, y))
        BY <2>4, <4>1 DEF Upgraded
      <4>3. \A z \in y : IsRow(z)
        BY TenantIsRow DEF RowsFit
      <4>4. Follows(a, p2, PerRunUp)
        BY <1>5, <3>1 DEF s3
      <4>5. a[p2 + 2] = Result(Stored(3, y))
        BY <1>7, <4>2, <4>3, <4>4, PerRunUpRun
      <4>. QED BY <4>1, <4>5, <3>1 DEF Upgraded
    <3>2. CASE ~(from < 3 /\ 3 <= to)
      <4>1. p3 = p2
        BY <1>6, <1>7, <3>2
      <4>. QED BY <4>1, <2>4, <3>2
    <3>. QED BY <3>1, <3>2
  <2>6. l3 = to
    BY <1>6, <1>8
  <2>7. Upgraded(to, x, a[Len(s)])
    <3>. HIDE DEF l3, s
    <3>. QED BY <1>5, <2>1, <2>5, <2>6
  <2>8. a[Len(s)].ok
    BY <2>7 DEF Upgraded, Result
  <2>9. PICK y \in {x, x \cup {DefaultTenant}} : a[Len(s)] = Result(Stored(to, y))
    BY <2>7 DEF Upgraded
  <2>10. r = Result(Stored(to, y))
    <3>. HIDE DEF r, s
    <3>. QED BY <1>4, <2>9 DEF Result
  <2>. HIDE DEF r
  <2>. QED BY <2>10 DEF Upgraded
<1>9. ASSUME to < from, r.ok
      PROVE  \E y : Downgraded(to, x, y) /\ r.d = Stored(to, y)
  <2>1. p3 = 0
    BY <1>6, <1>7, <1>9
  <2>2. Holds(a[p3], Stored(from, x))
    BY <1>4, <2>1 DEF Holds, Result
  <2>. DEFINE l4 == IF from = 3 THEN 2 ELSE from
  <2>3. Holds(a[p4], Stored(l4, x))
    <3>1. CASE from = 3
      <4>1. p4 = p3 + 2
        BY <1>6, <1>7, <1>9, <3>1
      <4>2. Follows(a, p3, PerRunDown)
        BY <1>5, <1>6, <1>9, <3>1 DEF s4
      <4>3. Holds(a[p3 + 2], Stored(2, x))
        BY <1>7, <2>2, <3>1, <4>2, PerRunDownRun
      <4>. QED BY <4>1, <4>3, <3>1
    <3>2. CASE from # 3
      <4>1. p4 = p3
        BY <1>6, <1>7, <3>2
      <4>. QED BY <4>1, <2>2, <3>2
    <3>. QED BY <3>1, <3>2
  <2>. DEFINE l5 == IF to = 2 THEN 2 ELSE 1
  <2>4. PICK gone : Removal(x, gone) /\ Holds(a[p5], Stored(l5, x \ gone))
    <3>1. CASE to < 2 /\ 2 <= from
      <4>1. p5 = p4 + 1 /\ l4 = 2 /\ l5 = 1
        BY <1>6, <1>7, <3>1
      <4>2. CASE a[p5].ok
        <5>1. \E gone : Removal(x, gone) /\ a[p4 + 1].d = Stored(1, x \ gone)
          <6>1. Follows(a, p4, SeedDown)
            BY <1>5, <3>1 DEF s5
          <6>2. a[p4 + 1].ok /\ Holds(a[p4], Stored(2, x)) /\ p4 \in Nat
            BY <1>7, <2>3, <4>1, <4>2
          <6>. HIDE DEF s, r, d
          <6>. QED BY ONLY <6>1, <6>2, SeedDownRun
        <5>. QED BY <4>1, <5>1 DEF Holds
      <4>3. CASE ~a[p5].ok
        BY <4>3, NothingRemoved DEF Holds
      <4>. QED BY <4>2, <4>3
    <3>2. CASE ~(to < 2 /\ 2 <= from)
      <4>1. p5 = p4 /\ l4 = l5
        BY <1>6, <1>7, <1>9, <3>2
      <4>2. Holds(a[p5], Stored(l5, x))
        BY <4>1, <2>3
      <4>. QED BY <4>2, NothingRemoved
    <3>. QED BY <3>1, <3>2
  <2>5. CASE to = 0
    <3>1. p6 = p5 + 17 /\ l5 = 1
      BY <1>6, <1>7, <1>9, <2>5
    <3>2. \A y \in x \ gone : y.table \in Names
      BY DEF RowsFit
    <3>3. Follows(a, p5, InitialDown)
      BY <1>5, <1>6, <1>9, <2>5 DEF s6
    <3>4. Holds(a[p5 + 17], Stored(0, {}))
      BY <1>7, <2>4, <3>1, <3>2, <3>3, InitialDownRun
    <3>. QED BY <1>4, <1>5, <1>9, <2>5, <3>1, <3>4 DEF Holds, Downgraded
  <2>6. CASE to # 0
    <3>1. p6 = p5 /\ l5 = to
      BY <1>6, <1>7, <1>9, <2>6
    <3>2. a[p6].ok /\ r.d = a[p6].d
      BY <1>4, <1>5, <1>9
    <3>3. r.d = Stored(to, x \ gone)
      BY <2>4, <3>1, <3>2 DEF Holds
    <3>. QED BY <2>4, <2>6, <3>3 DEF Downgraded
  <2>. QED BY <2>5, <2>6
<1>. HIDE DEF s
<1>. QED BY <1>1, <1>8, <1>9

-----------------------------------------------------------------------------
(* The invariant of the store *)

SchemaInv == revision \in Revisions /\ db = Stored(revision, db.rows)

RowsInv ==
  /\ RowsFit(revision, db.rows)
  /\ \A y \in db.rows :
       /\ y.run \in Runs \cup {NoRun}
       /\ y.table = "sources" => y.run \in Runs /\ y.content # NoContent

\* Requests know the id of a tenant that exists.
RequestsInv ==
  /\ blobs \subseteq Contents /\ created \subseteq Runs /\ resolved \subseteq Runs
  /\ seeding \in BOOLEAN
  /\ resolved # {} => DefaultTenant \in db.rows

\* A collector puts the blob before it inserts the row.
CollectorInv(k) ==
  /\ pc[k] # "idle" => job[k].run \in Runs /\ job[k].content \in Contents
  /\ pc[k] = "insert" /\ job[k].content \notin Unsafe => job[k].content \in blobs
  /\ pc[k] = "done" => got[k].table = "sources" /\ got[k].content \in Contents

CollectorsInv ==
  /\ pc \in [Collectors -> {"idle", "lookup", "put", "insert", "done"}]
  /\ DOMAIN job = Collectors /\ DOMAIN got = Collectors
  /\ \A k \in Collectors : CollectorInv(k)

\* What a connector has inserted is whole, and stays whole.
WholeInv ==
  \A y \in db.rows :
    y.table = "sources" /\ y.content \in Contents \ Unsafe =>
      Row("passages", y.run, y.content) \in db.rows /\ y.content \in blobs

StoreInv == SchemaInv /\ RowsInv /\ RequestsInv /\ CollectorsInv /\ WholeInv

LEMMA StoredFields ==
  ASSUME NEW n \in Revisions, NEW x
  PROVE  /\ Stored(n, x).rows = x
         /\ n = 0 => Stored(n, x).tables = {}
         /\ n # 0 => /\ Stored(n, x).tables = Names
                     /\ Stored(n, x).refs = Refs
         /\ \A new : [Stored(n, x) EXCEPT !.rows = new] = Stored(n, new)
  BY DEF Stored, DB

LEMMA DeclaredStored ==
  Declared = Stored(Newest, {}) /\ Declared.tables = Names
  BY DeclaredIs DEF Stored, UniquesAt, Newest, DB

LEMMA RowFields ==
  ASSUME NEW table, NEW run, NEW content
  PROVE  LET y == Row(table, run, content)
         IN  IsRow(y) /\ y.table = table /\ y.run = run /\ y.content = content
  BY DEF Row, IsRow

\* The empty database and blob store, before the first migration, satisfy it.
THEOREM StoreBegins == Init => StoreInv
<1>. SUFFICES ASSUME Init PROVE StoreInv
  OBVIOUS
<1>1. revision = 0 /\ db = Stored(0, {}) /\ db.rows = {} /\ revision \in Revisions
  BY DEF Init, Empty, Database, Stored, DB, Revisions
<1>2. SchemaInv
  BY <1>1 DEF SchemaInv
<1>3. RowsInv /\ WholeInv
  BY <1>1 DEF RowsInv, RowsFit, WholeInv
<1>4. RequestsInv
  BY DEF Init, RequestsInv
<1>5. CollectorsInv
  BY DEF Init, CollectorsInv, CollectorInv
<1>. QED BY <1>2, <1>3, <1>4, <1>5 DEF StoreInv

\* A passage is deleted only with its source.
LEMMA PassagesRef ==
  ASSUME NEW e \in Refs, e.from = "passages"
  PROVE  e.to = "sources"
  BY RefFields DEF ScopeModels, Refs, RunRefs, TextRefs, LinkRefs

LEMMA WholeAfterRemoval ==
  ASSUME RowsInv, NEW gone, Removal(db.rows, gone),
         NEW y \in db.rows \ gone, y.table = "sources",
         NoContent # y.content,
         Row("passages", y.run, y.content) \in db.rows
  PROVE  Row("passages", y.run, y.content) \notin gone
<1>. DEFINE p == Row("passages", y.run, y.content)
<1>. SUFFICES ASSUME p \in gone PROVE FALSE
  OBVIOUS
<1>1. p.table = "passages" /\ p.run = y.run /\ p.content = y.content
  BY RowFields
<1>2. p # DefaultTenant
  BY <1>1, RowFields DEF DefaultTenant
<1>. HIDE DEF p
<1>3. PICK z \in gone : \E e \in Refs : e.on = "CASCADE" /\ RefersBy(e, p, z)
  BY <1>2 DEF Removal
<1>4. PICK e \in Refs : RefersBy(e, p, z)
  BY <1>3
<1>5. z.table = "sources"
  BY <1>1, <1>4, PassagesRef DEF RefersBy
<1>6. z \in db.rows /\ IsRow(z) /\ z.run \in Runs /\ z.content # NoContent /\ IsRow(y)
  BY <1>5 DEF RowsInv, RowsFit, Removal
<1>7. z.run = y.run /\ z.content = y.content
  BY <1>1, <1>4, <1>6, StoreAssumption DEF RefersBy
<1>8. z = y
  BY <1>5, <1>6, <1>7 DEF IsRow
<1>. QED BY <1>8

LEMMA Rows ==
  ASSUME StoreInv
  PROVE  /\ revision \in Revisions /\ db = Stored(revision, db.rows)
         /\ RowsFit(revision, db.rows)
  BY DEF StoreInv, SchemaInv, RowsInv

\* The rows that a migration leaves.
LEMMA MigrateRows ==
  ASSUME StoreInv, NEW to \in Revisions, Migrate(to)
  PROVE  /\ revision' = to /\ db' = Stored(to, db'.rows)
         /\ \/ revision < to /\ db'.rows \in {db.rows, db.rows \cup {DefaultTenant}}
            \/ to < revision /\ to = 0 /\ db'.rows = {}
            \/ /\ to < revision /\ to # 0
               /\ \E gone : Removal(db.rows, gone) /\ db'.rows = db.rows \ gone
<1>. DEFINE x == db.rows
            r == Run(Script(revision, to), Stored(revision, x))
<1>1. revision \in Revisions /\ db = Stored(revision, x) /\ RowsFit(revision, x)
  BY Rows
<1>2. to # revision /\ r.ok /\ revision' = to /\ db' = r.d
  BY <1>1 DEF Migrate
<1>3. revision \in 0 .. 3 /\ to \in 0 .. 3
  BY <1>1 DEF Revisions
<1>4. CASE revision < to
  <2>1. Upgraded(to, x, r)
    BY <1>1, <1>4, Migration
  <2>2. PICK y \in {x, x \cup {DefaultTenant}} : r = Result(Stored(to, y))
    BY <2>1 DEF Upgraded
  <2>3. db' = Stored(to, y)
    BY <1>2, <2>2 DEF Result
  <2>4. db'.rows = y
    BY <2>3, StoredFields
  <2>. QED BY <1>2, <1>4, <2>3, <2>4
<1>5. CASE to < revision
  <2>1. PICK y : Downgraded(to, x, y) /\ r.d = Stored(to, y)
    BY <1>1, <1>2, <1>5, Migration
  <2>2. db' = Stored(to, y)
    BY <1>2, <2>1
  <2>3. db'.rows = y
    BY <2>2, StoredFields
  <2>. HIDE DEF r
  <2>. QED BY <1>2, <1>5, <2>1, <2>2, <2>3 DEF Downgraded
<1>. QED BY <1>2, <1>3, <1>4, <1>5

-----------------------------------------------------------------------------
(* Every step keeps the invariant *)

LEMMA Grows ==
  ASSUME StoreInv, NEW new, Insert(new)
  PROVE  db'.rows = db.rows \cup new /\ db' = Stored(revision, db'.rows)
<1>. DEFINE x == db.rows
<1>1. revision \in Revisions /\ db = Stored(revision, x)
  BY Rows
<1>2. db' = [db EXCEPT !.rows = x \cup new]
  BY DEF Insert
<1>3. db' = Stored(revision, x \cup new)
  <2>. HIDE DEF x
  <2>. QED BY <1>1, <1>2, StoredFields
<1>. QED BY <1>1, <1>3, StoredFields

LEMMA AcceptedNames ==
  ASSUME StoreInv, NEW new, NEW y \in new, Accepted(new)
  PROVE  y.table \in Names /\ revision # 0
<1>1. y.table \in db.tables
  BY DEF Accepted
<1>. QED BY <1>1, Rows, StoredFields

LEMMA RowsGrow ==
  ASSUME StoreInv, NEW new, Insert(new), revision' = revision, revision # 0,
         \A y \in new : /\ IsRow(y) /\ y.table \in Names /\ y.run \in Runs \cup {NoRun}
                        /\ y.table = "sources" => y.run \in Runs /\ y.content # NoContent
  PROVE  SchemaInv' /\ RowsInv'
<1>1. db'.rows = db.rows \cup new /\ db' = Stored(revision, db'.rows)
  BY Grows
<1>2. SchemaInv'
  BY <1>1, Rows DEF SchemaInv
<1>3. RowsInv'
  BY <1>1 DEF StoreInv, RowsInv, RowsFit
<1>. QED BY <1>2, <1>3

LEMMA WholeGrows ==
  ASSUME StoreInv, NEW new, Insert(new), UNCHANGED blobs,
         \A y \in new : y.table = "sources" /\ y.content \in Contents \ Unsafe =>
           Row("passages", y.run, y.content) \in new /\ y.content \in blobs
  PROVE  WholeInv'
<1>1. db'.rows = db.rows \cup new
  BY Grows
<1>. QED BY <1>1 DEF StoreInv, WholeInv

\* A step that leaves the collectors alone keeps what they know.
LEMMA CollectorsAlone ==
  ASSUME StoreInv, UNCHANGED collector, blobs \subseteq blobs'
  PROVE  CollectorsInv'
  BY DEF StoreInv, CollectorsInv, CollectorInv, collector

\* The rows that requests, the seed script and the stages insert.
LEMMA TenantTyped ==
  /\ IsRow(DefaultTenant) /\ DefaultTenant.table = "tenants" /\ DefaultTenant.run = NoRun
  BY DEF DefaultTenant, Row, IsRow

LEMMA MigrateKeeps ==
  ASSUME StoreInv, NEW to \in Revisions, Migrate(to)
  PROVE  StoreInv'
<1>1. /\ revision' = to /\ db' = Stored(to, db'.rows)
      /\ \/ revision < to /\ db'.rows \in {db.rows, db.rows \cup {DefaultTenant}}
         \/ to < revision /\ to = 0 /\ db'.rows = {}
         \/ /\ to < revision /\ to # 0
            /\ \E gone : Removal(db.rows, gone) /\ db'.rows = db.rows \ gone
  BY MigrateRows
<1>2. /\ UNCHANGED <<blobs, created, seeding, collector>>
      /\ resolved' = IF DefaultTenant \in db'.rows THEN resolved ELSE {}
  BY DEF Migrate
<1>3. SchemaInv'
  BY <1>1 DEF SchemaInv
<1>4. db'.rows \subseteq db.rows \cup {DefaultTenant}
  BY <1>1 DEF Removal
<1>5. to = 0 => db'.rows = {}
  BY <1>1 DEF Revisions, StoreInv, SchemaInv
<1>6. RowsInv'
  BY <1>1, <1>4, <1>5, TenantIsRow, TenantTyped DEF StoreInv, RowsInv, RowsFit
<1>7. RequestsInv'
  BY <1>2 DEF StoreInv, RequestsInv
<1>8. CollectorsInv'
  BY <1>2, CollectorsAlone
<1>9. WholeInv'
  <2>. SUFFICES ASSUME NEW y \in db'.rows, y.table = "sources", y.content \in Contents \ Unsafe
                PROVE  Row("passages", y.run, y.content) \in db'.rows /\ y.content \in blobs
    BY <1>2 DEF WholeInv
  <2>1. y \in db.rows
    BY <1>4, TenantTyped
  <2>2. Row("passages", y.run, y.content) \in db.rows /\ y.content \in blobs
    BY <2>1 DEF StoreInv, WholeInv
  <2>3. CASE db.rows \subseteq db'.rows
    BY <2>2, <2>3
  <2>4. CASE \E gone : Removal(db.rows, gone) /\ db'.rows = db.rows \ gone
    <3>1. PICK gone : Removal(db.rows, gone) /\ db'.rows = db.rows \ gone
      BY <2>4
    <3>2. NoContent # y.content
      BY StoreAssumption
    <3>3. RowsInv
      BY DEF StoreInv
    <3>4. Row("passages", y.run, y.content) \notin gone
      BY <2>2, <3>1, <3>2, <3>3, WholeAfterRemoval
    <3>. QED BY <2>2, <3>1, <3>4
  <2>. QED BY <1>1, <2>3, <2>4
<1>. QED BY <1>3, <1>6, <1>7, <1>8, <1>9 DEF StoreInv

LEMMA SeedKeeps ==
  ASSUME StoreInv, SeedLooksUp \/ SeedInserts
  PROVE  StoreInv'
<1>1. /\ UNCHANGED <<revision, blobs, created, resolved, collector>>
      /\ seeding' \in BOOLEAN
  BY DEF SeedLooksUp, SeedInserts
<1>2. \/ UNCHANGED db
      \/ Accepted({DefaultTenant}) /\ Insert({DefaultTenant})
  BY DEF SeedLooksUp, SeedInserts
<1>3. CollectorsInv'
  BY <1>1, CollectorsAlone
<1>4. CASE UNCHANGED db
  BY <1>1, <1>3, <1>4 DEF StoreInv, SchemaInv, RowsInv, RowsFit, RequestsInv, WholeInv
<1>5. CASE Accepted({DefaultTenant}) /\ Insert({DefaultTenant})
  <2>1. revision # 0 /\ "tenants" \in Names
    BY <1>5, AcceptedNames, TenantTyped
  <2>2. SchemaInv' /\ RowsInv'
    BY <1>1, <1>5, <2>1, RowsGrow, TenantTyped
  <2>3. WholeInv'
    BY <1>1, <1>5, WholeGrows, TenantTyped
  <2>4. RequestsInv'
    BY <1>1, <1>5, Grows DEF StoreInv, RequestsInv
  <2>. QED BY <1>3, <2>2, <2>3, <2>4 DEF StoreInv
<1>. QED BY <1>2, <1>4, <1>5

LEMMA RequestKeeps ==
  ASSUME StoreInv, NEW r \in Runs, ResolveTenant(r) \/ CreateRun(r)
  PROVE  StoreInv'
<1>1. CASE ResolveTenant(r)
  <2>1. /\ UNCHANGED <<revision, db, blobs, created, seeding, collector>>
        /\ DefaultTenant \in db.rows /\ resolved' = resolved \cup {r}
    BY <1>1 DEF ResolveTenant
  <2>2. CollectorsInv'
    BY <2>1, CollectorsAlone
  <2>. QED
    BY <2>1, <2>2 DEF StoreInv, SchemaInv, RowsInv, RowsFit, RequestsInv, WholeInv
<1>2. CASE CreateRun(r)
  <2>. DEFINE new == {Row("runs", r, NoContent)}
  <2>1. /\ UNCHANGED <<revision, blobs, seeding, collector>> /\ Insert(new)
        /\ r \in resolved /\ resolved' = resolved \ {r} /\ created' = created \cup {r}
    BY <1>2 DEF CreateRun
  <2>2. revision # 0
    BY <2>1 DEF StoreInv, RequestsInv, RowsInv, RowsFit
  <2>3. \A y \in new : IsRow(y) /\ y.table = "runs" /\ y.run = r
    BY RowFields
  <2>4. "runs" \in Names
    BY DEF Names, ScopeNames
  <2>. HIDE DEF new
  <2>5. SchemaInv' /\ RowsInv'
    BY <2>1, <2>2, <2>3, <2>4, RowsGrow
  <2>6. WholeInv'
    BY <2>1, <2>3, WholeGrows
  <2>7. RequestsInv'
    BY <2>1, Grows DEF StoreInv, RequestsInv
  <2>8. CollectorsInv'
    BY <2>1, CollectorsAlone
  <2>. QED BY <2>5, <2>6, <2>7, <2>8 DEF StoreInv
<1>. QED BY <1>1, <1>2

LEMMA StageKeeps ==
  ASSUME StoreInv, NEW r \in Executed, CommitStage(r)
  PROVE  StoreInv'
<1>1. UNCHANGED <<revision, blobs, requests, collector>>
  BY DEF CommitStage
<1>2. PICK c \in Contents \ Unsafe : \E new \in StageRows(r, c) :
        ~(new \subseteq db.rows) /\ Accepted(new) /\ Insert(new)
  BY DEF CommitStage
<1>3. PICK new \in StageRows(r, c) : Accepted(new) /\ Insert(new)
  BY <1>2
<1>4. new # {}
  BY DEF StageRows
<1>5. \A y \in new : IsRow(y) /\ y.run = r /\ (y.table = "sources" => y.content = Staged(c))
  <2>. DEFINE rows == {Row("sources", r, Staged(c)), Row("audit_trace", r, NoContent),
                       Row("passages", r, Staged(c)), Row("statements", r, NoContent),
                       Row("evidence_links", r, NoContent)}
  <2>1. new \subseteq rows
    BY DEF StageRows
  <2>2. \A y \in rows : IsRow(y) /\ y.run = r /\ (y.table = "sources" => y.content = Staged(c))
    BY RowFields
  <2>. QED BY <2>1, <2>2
<1>6. r \in Runs /\ Staged(c) \notin Contents /\ Staged(c) # NoContent
  BY StoreAssumption DEF Staged, NoContent
<1>7. revision # 0 /\ \A y \in new : y.table \in Names
  BY <1>3, <1>4, AcceptedNames
<1>8. SchemaInv' /\ RowsInv'
  BY <1>1, <1>3, <1>5, <1>6, <1>7, RowsGrow
<1>9. WholeInv'
  BY <1>1, <1>3, <1>5, <1>6, WholeGrows
<1>10. RequestsInv'
  BY <1>1, <1>3, Grows DEF StoreInv, RequestsInv, requests
<1>11. CollectorsInv'
  BY <1>1, CollectorsAlone
<1>. QED BY <1>8, <1>9, <1>10, <1>11 DEF StoreInv

\* A step of one collector leaves alone what the others keep.
LEMMA OneCollector ==
  ASSUME StoreInv, NEW k \in Collectors, CollectorInv(k)',
         blobs \subseteq blobs',
         \E p \in {"idle", "lookup", "put", "insert", "done"} : pc' = [pc EXCEPT ![k] = p],
         job' = job \/ \E j : job' = [job EXCEPT ![k] = j],
         got' = got \/ \E g : got' = [got EXCEPT ![k] = g]
  PROVE  CollectorsInv'
<1>1. CollectorsInv
  BY DEF StoreInv
<1>2. /\ pc' \in [Collectors -> {"idle", "lookup", "put", "insert", "done"}]
      /\ DOMAIN job' = Collectors /\ DOMAIN got' = Collectors
  BY <1>1 DEF CollectorsInv
<1>3. ASSUME NEW j \in Collectors \ {k}
      PROVE  pc'[j] = pc[j] /\ job'[j] = job[j] /\ got'[j] = got[j]
  BY <1>1 DEF CollectorsInv
<1>4. ASSUME NEW j \in Collectors \ {k}
      PROVE  CollectorInv(j)'
  <2>1. CollectorInv(j)
    BY <1>1 DEF CollectorsInv
  <2>. QED BY <1>3, <2>1 DEF CollectorInv
<1>. QED BY <1>2, <1>4 DEF CollectorsInv

\* A step that changes neither rows nor blobs keeps what is known of them.
LEMMA RowsAlone ==
  ASSUME StoreInv, UNCHANGED <<revision, db, requests>>, blobs \subseteq blobs',
         blobs' \subseteq Contents
  PROVE  SchemaInv' /\ RowsInv' /\ RequestsInv' /\ WholeInv'
<1>1. SchemaInv' /\ RowsInv'
  BY DEF StoreInv, SchemaInv, RowsInv, RowsFit
<1>2. RequestsInv'
  BY DEF StoreInv, RequestsInv, requests
<1>3. WholeInv'
  BY DEF StoreInv, WholeInv
<1>. QED BY <1>1, <1>2, <1>3

LEMMA CollectorNow ==
  ASSUME StoreInv, NEW k \in Collectors
  PROVE  CollectorInv(k) /\ pc[k] \in {"idle", "lookup", "put", "insert", "done"}
         /\ blobs \subseteq Contents
         /\ DOMAIN pc = Collectors /\ DOMAIN job = Collectors /\ DOMAIN got = Collectors
  BY DEF StoreInv, CollectorsInv, RequestsInv

LEMMA FetchKeeps ==
  ASSUME StoreInv, NEW k \in Collectors, NEW r \in Runs, NEW c \in Contents,
         FetchUrl(k, r, c)
  PROVE  StoreInv'
<1>1. /\ pc' = [pc EXCEPT ![k] = "lookup"]
      /\ job' = [job EXCEPT ![k] = [run |-> r, content |-> c]]
      /\ UNCHANGED <<revision, db, blobs, requests, got>>
  BY DEF FetchUrl, Goto
<1>2. CollectorInv(k)'
  BY <1>1, CollectorNow DEF CollectorInv
<1>3. CollectorsInv'
  BY <1>1, <1>2, OneCollector
<1>4. blobs' \subseteq Contents
  BY <1>1, CollectorNow
<1>. QED BY <1>1, <1>3, <1>4, RowsAlone DEF StoreInv

LEMMA SelectKeeps ==
  ASSUME StoreInv, NEW k \in Collectors, SelectSource(k)
  PROVE  StoreInv'
<1>1. UNCHANGED <<revision, db, blobs, requests, job>> /\ pc[k] = "lookup"
  BY DEF SelectSource
<1>2. blobs' \subseteq Contents
  BY <1>1, CollectorNow
<1>3. job[k].run \in Runs /\ job[k].content \in Contents
  BY <1>1, CollectorNow DEF CollectorInv
<1>4. CASE \E x \in Existing(k) :
             Goto(k, "lookup", "done") /\ got' = [got EXCEPT ![k] = x]
  <2>1. PICK x \in Existing(k) :
          pc' = [pc EXCEPT ![k] = "done"] /\ got' = [got EXCEPT ![k] = x]
    BY <1>4 DEF Goto
  <2>2. x.table = "sources" /\ x.content = job[k].content
    BY DEF Existing
  <2>3. CollectorInv(k)'
    BY <1>1, <1>3, <2>1, <2>2, CollectorNow DEF CollectorInv
  <2>4. CollectorsInv'
    BY <1>1, <2>1, <2>3, OneCollector
  <2>. QED BY <1>1, <1>2, <2>4, RowsAlone DEF StoreInv
<1>5. CASE Goto(k, "lookup", AfterLookup(job[k].content)) /\ UNCHANGED got
  <2>1. pc' = [pc EXCEPT ![k] = AfterLookup(job[k].content)] /\ UNCHANGED got
    BY <1>5 DEF Goto
  <2>2. AfterLookup(job[k].content) \in {"insert", "put"}
        /\ (AfterLookup(job[k].content) = "insert" => job[k].content \in Unsafe)
    BY DEF AfterLookup
  <2>3. CollectorInv(k)'
    BY <1>1, <1>3, <2>1, <2>2, CollectorNow DEF CollectorInv
  <2>4. CollectorsInv'
    BY <1>1, <2>1, <2>2, <2>3, OneCollector
  <2>. QED BY <1>1, <1>2, <2>4, RowsAlone DEF StoreInv
<1>. QED BY <1>4, <1>5 DEF SelectSource

LEMMA PutKeeps ==
  ASSUME StoreInv, NEW k \in Collectors, PutBlob(k)
  PROVE  StoreInv'
<1>1. /\ pc[k] = "put" /\ pc' = [pc EXCEPT ![k] = "insert"]
      /\ blobs' = blobs \cup {job[k].content}
      /\ UNCHANGED <<revision, db, requests, job, got>>
  BY DEF PutBlob, Goto
<1>2. job[k].run \in Runs /\ job[k].content \in Contents
  BY <1>1, CollectorNow DEF CollectorInv
<1>3. CollectorInv(k)'
  BY <1>1, <1>2, CollectorNow DEF CollectorInv
<1>4. CollectorsInv'
  BY <1>1, <1>3, OneCollector
<1>5. blobs \subseteq blobs' /\ blobs' \subseteq Contents
  BY <1>1, <1>2, CollectorNow
<1>. QED BY <1>1, <1>4, <1>5, RowsAlone DEF StoreInv

LEMMA GoneKeeps ==
  ASSUME StoreInv, NEW k \in Collectors, Gone(k),
         UNCHANGED <<revision, db, blobs, requests>>
  PROVE  StoreInv'
<1>1. /\ pc' = [pc EXCEPT ![k] = "idle"] /\ job' = [job EXCEPT ![k] = Nothing]
      /\ got' = [got EXCEPT ![k] = Nothing]
  BY DEF Gone
<1>2. CollectorInv(k)'
  BY <1>1, CollectorNow DEF CollectorInv
<1>3. CollectorsInv'
  BY <1>1, <1>2, OneCollector
<1>4. blobs' \subseteq Contents
  BY CollectorNow
<1>. QED BY <1>3, <1>4, RowsAlone DEF StoreInv

LEMMA InsertKeeps ==
  ASSUME StoreInv, NEW k \in Collectors, InsertSource(k)
  PROVE  StoreInv'
<1>. DEFINE r == job[k].run
            c == job[k].content
            new == SourceRows(r, c)
<1>1. pc[k] = "insert" /\ UNCHANGED <<revision, blobs, requests>>
  BY DEF InsertSource
<1>2. r \in Runs /\ c \in Contents /\ (c \notin Unsafe => c \in blobs)
  BY <1>1, CollectorNow DEF CollectorInv
<1>3. blobs' \subseteq Contents
  BY <1>1, CollectorNow
<1>4. CASE /\ Accepted(new) /\ Insert(new)
           /\ Goto(k, "insert", "done")
           /\ got' = [got EXCEPT ![k] = Row("sources", r, c)]
           /\ UNCHANGED job
  <2>1. /\ Row("sources", r, c) \in new
        /\ c \notin Unsafe => Row("passages", r, c) \in new
        /\ new \subseteq {Row("sources", r, c), Row("passages", r, c)}
    BY DEF SourceRows
  <2>2. \A y \in new : IsRow(y) /\ y.run = r /\ y.content = c
    BY <2>1, RowFields
  <2>. HIDE DEF new
  <2>3. revision # 0 /\ \A y \in new : y.table \in Names
    BY <1>4, <2>1, AcceptedNames
  <2>4. c # NoContent
    BY <1>2, StoreAssumption
  <2>5. SchemaInv' /\ RowsInv'
    <3>. HIDE DEF r, c
    <3>. QED BY <1>1, <1>2, <1>4, <2>2, <2>3, <2>4, RowsGrow
  <2>6. WholeInv'
    <3>. HIDE DEF r, c
    <3>. QED BY <1>1, <1>2, <1>4, <2>1, <2>2, WholeGrows
  <2>7. RequestsInv'
    BY <1>1, <1>4, Grows DEF StoreInv, RequestsInv, requests
  <2>8. pc' = [pc EXCEPT ![k] = "done"]
    BY <1>4 DEF Goto
  <2>9. CollectorInv(k)'
    BY <1>2, <1>4, <2>8, RowFields, CollectorNow DEF CollectorInv
  <2>10. CollectorsInv'
    BY <1>1, <1>4, <2>8, <2>9, OneCollector
  <2>. QED BY <2>5, <2>6, <2>7, <2>10 DEF StoreInv
<1>5. CASE Goto(k, "insert", "lookup") /\ UNCHANGED <<job, got, db>>
  <2>1. pc' = [pc EXCEPT ![k] = "lookup"]
    BY <1>5 DEF Goto
  <2>2. CollectorInv(k)'
    BY <1>1, <1>2, <1>5, <2>1, CollectorNow DEF CollectorInv
  <2>3. CollectorsInv'
    BY <1>1, <1>5, <2>1, <2>2, OneCollector
  <2>. QED BY <1>1, <1>3, <1>5, <2>3, RowsAlone DEF StoreInv
<1>6. CASE Gone(k) /\ UNCHANGED db
  BY <1>1, <1>6, GoneKeeps
<1>. QED BY <1>4, <1>5, <1>6 DEF InsertSource

\* Migrations, the seed, requests, stages and collectors keep the invariant, in
\* whatever order their steps interleave.
THEOREM StoreInvariance == Spec => []StoreInv
<1>1. StoreInv /\ [Next]_vars => StoreInv'
  <2>. SUFFICES ASSUME StoreInv, [Next]_vars PROVE StoreInv'
    OBVIOUS
  <2>1. CASE UNCHANGED vars
    BY <2>1, CollectorsAlone
    DEF vars, requests, collector, StoreInv, SchemaInv, RowsInv, RowsFit, RequestsInv, WholeInv
  <2>2. ASSUME NEW to \in Revisions, Migrate(to) PROVE StoreInv'
    BY <2>2, MigrateKeeps
  <2>3. CASE SeedLooksUp \/ SeedInserts
    BY <2>3, SeedKeeps
  <2>4. ASSUME NEW r \in Runs, ResolveTenant(r) \/ CreateRun(r) PROVE StoreInv'
    BY <2>4, RequestKeeps
  <2>5. ASSUME NEW r \in Executed, CommitStage(r) PROVE StoreInv'
    BY <2>5, StageKeeps
  <2>6. ASSUME NEW k \in Collectors, NEW r \in Runs, NEW c \in Contents, FetchUrl(k, r, c)
        PROVE  StoreInv'
    BY <2>6, FetchKeeps
  <2>7. ASSUME NEW k \in Collectors, Collect(k) PROVE StoreInv'
    BY <2>7, SelectKeeps, PutKeeps, InsertKeeps DEF Collect
  <2>8. ASSUME NEW k \in Collectors, Leave(k) PROVE StoreInv'
    BY <2>8, GoneKeeps DEF Leave
  <2>. QED BY <2>1, <2>2, <2>3, <2>4, <2>5, <2>6, <2>7, <2>8 DEF Next
<1>. QED BY <1>1, StoreBegins, PTL DEF Spec

-----------------------------------------------------------------------------
(* Theorems *)

\* Rows are in tables that exist and belong to runs that were created, whatever
\* has been upgraded, downgraded and inserted.
THEOREM TypeCorrect == Spec => []TypeOK
<1>1. StoreInv => TypeOK
  <2>. SUFFICES ASSUME StoreInv PROVE TypeOK
    OBVIOUS
  <2>1. /\ revision \in Revisions /\ db = Stored(revision, db.rows)
        /\ RowsFit(revision, db.rows)
    BY Rows
  <2>2. db.tables \subseteq Names /\ (revision # 0 => db.tables = Names)
    BY <2>1, StoredFields
  <2>3. \A y \in db.rows : y.table \in db.tables /\ y.run \in Runs \cup {NoRun}
    BY <2>1, <2>2 DEF StoreInv, RowsInv, RowsFit
  <2>. QED
    BY <2>1, <2>2, <2>3, DeclaredStored DEF TypeOK, StoreInv, RequestsInv, CollectorsInv
<1>. QED BY <1>1, StoreInvariance, PTL

\* The scripts of alembic/versions lead to what app/db/models.py declares, by
\* whatever way up and down a database has reached the newest revision.
THEOREM SchemaDeclared == Spec => []SchemaIsDeclared
<1>1. StoreInv => SchemaIsDeclared
  <2>. SUFFICES ASSUME StoreInv, revision = Newest PROVE Schema(db) = Declared
    BY DEF SchemaIsDeclared
  <2>1. revision \in Revisions /\ db = Stored(revision, db.rows)
    BY Rows
  <2>2. Schema(db) = Stored(revision, {})
    BY <2>1, StoredFields DEF Schema
  <2>. QED BY <2>2, DeclaredStored
<1>. QED BY <1>1, StoreInvariance, PTL

\* "alembic upgrade head" applies to every database the code can have left, at
\* whatever revision and with whatever rows: no start of the container fails
\* on what an earlier one has stored.
THEOREM UpgradesApply == Spec => []UpgradeApplies
<1>1. StoreInv => UpgradeApplies
  <2>. SUFFICES ASSUME StoreInv, NEW to \in Revisions, to > revision
                PROVE  Run(Script(revision, to), db).ok
    BY DEF UpgradeApplies
  <2>1. /\ revision \in Revisions /\ db = Stored(revision, db.rows)
        /\ RowsFit(revision, db.rows)
    BY Rows
  <2>2. revision < to
    BY <2>1 DEF Revisions
  <2>3. Upgraded(to, db.rows, Run(Script(revision, to), Stored(revision, db.rows)))
    BY <2>1, <2>2, Migration
  <2>. QED BY <2>1, <2>3 DEF Upgraded, Result
<1>. QED BY <1>1, StoreInvariance, PTL

\* What URLConnector.collect has returned is whole, whoever inserted it and
\* whatever the schema has been through since.
THEOREM CollectsAreWhole == Spec => []CollectReturnsWhole
<1>1. StoreInv => CollectReturnsWhole
  <2>. SUFFICES ASSUME StoreInv, NEW k \in Collectors, pc[k] = "done",
                       got[k] \in db.rows, got[k].content \notin Unsafe
                PROVE  /\ Row("passages", got[k].run, got[k].content) \in db.rows
                       /\ got[k].content \in blobs
    BY DEF CollectReturnsWhole
  <2>1. got[k].table = "sources" /\ got[k].content \in Contents
    BY CollectorNow DEF CollectorInv
  <2>. QED BY <2>1 DEF StoreInv, WholeInv
<1>. QED BY <1>1, StoreInvariance, PTL

\* Nothing that an append-only row rests on is reached by what a removal takes.
LEMMA BackingStays ==
  ASSUME StoreInv, revision # 0, NEW gone, Removal(db.rows, gone),
         NEW x \in db.rows \ gone
  PROVE  Backing(db, {x}) \cap gone = {}
<1>. DEFINE edges == References(db, {"CASCADE", "RESTRICT"})
            stays == db.rows \ gone
<1>1. db.refs = Refs
  BY Rows, StoredFields
<1>2. ASSUME NEW e \in edges, e[1] \in stays
      PROVE  e[2] \in stays
  <2>1. e[2] \in db.rows /\ \E f \in Refs : RefersBy(f, e[1], e[2])
    BY <1>1 DEF References
  <2>. HIDE DEF edges
  <2>. QED BY <1>2, <2>1 DEF Removal
<1>3. Backing(db, {x}) = Reached(edges, {x})
  BY DEF Backing
<1>4. {x} \subseteq stays
  OBVIOUS
<1>. HIDE DEF edges
<1>5. Reached(edges, {x}) \subseteq stays
  <2>. HIDE DEF stays
  <2>. QED BY <1>2, <1>4, ReachedWithin
<1>. QED BY <1>3, <1>5

\* As long as the append-only tables exist, no migration and no commit takes
\* away a row of theirs, nor the statement, passage, source, run or tenant that
\* such a row rests on: provenance is never destroyed under its evidence.
THEOREM HistoryKept == Spec => HistoryIsKept
<1>. DEFINE removed == db.rows \ db'.rows
            Keeps == removed # {} =>
                       \A x \in db.rows : x.table \in AppendOnly \cap db'.tables =>
                         Backing(db, {x}) \cap removed = {}
<1>1. StoreInv /\ [Next]_vars => [Keeps]_vars
  <2>. SUFFICES ASSUME StoreInv, Next, removed # {},
                       NEW x \in db.rows, x.table \in AppendOnly \cap db'.tables
                PROVE  Backing(db, {x}) \cap removed = {}
    OBVIOUS
  <2>1. PICK to \in Revisions : Migrate(to)
    <3>1. ASSUME NEW new, Insert(new) PROVE FALSE
      BY <3>1, Grows
    <3>2. ASSUME UNCHANGED db PROVE FALSE
      BY <3>2
    <3>3. ~(SeedLooksUp \/ SeedInserts)
      BY <3>1, <3>2 DEF SeedLooksUp, SeedInserts
    <3>4. \A r \in Runs : ~(ResolveTenant(r) \/ CreateRun(r))
      BY <3>1, <3>2 DEF ResolveTenant, CreateRun
    <3>5. \A r \in Executed : ~CommitStage(r)
      BY <3>1 DEF CommitStage
    <3>6. \A k \in Collectors : /\ \A r \in Runs : \A c \in Contents : ~FetchUrl(k, r, c)
                                /\ ~Leave(k)
      BY <3>2 DEF FetchUrl, Leave
    <3>7. \A k \in Collectors : ~Collect(k)
      BY <3>1, <3>2 DEF Collect, SelectSource, PutBlob, InsertSource
    <3>. QED BY <3>3, <3>4, <3>5, <3>6, <3>7 DEF Next
  <2>2. /\ revision' = to /\ db' = Stored(to, db'.rows)
        /\ \/ revision < to /\ db'.rows \in {db.rows, db.rows \cup {DefaultTenant}}
           \/ to < revision /\ to = 0 /\ db'.rows = {}
           \/ /\ to < revision /\ to # 0
              /\ \E gone : Removal(db.rows, gone) /\ db'.rows = db.rows \ gone
    BY <2>1, MigrateRows
  <2>3. to # 0
    BY <2>2, StoredFields
  <2>4. PICK gone : Removal(db.rows, gone) /\ db'.rows = db.rows \ gone
    BY <2>2, <2>3
  <2>5. revision # 0
    BY <2>2, <2>3, <2>4, Rows DEF RowsFit
  <2>6. removed = gone /\ x \in db.rows \ gone
    BY <2>4 DEF Removal
  <2>. HIDE DEF removed
  <2>. QED BY <2>4, <2>5, <2>6, BackingStays
<1>2. []StoreInv /\ [][Next]_vars => [][Keeps]_vars
  BY <1>1, PTL
<1>. QED BY <1>2, StoreInvariance, PTL DEF Spec, HistoryIsKept
=============================================================================
