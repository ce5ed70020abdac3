----------------------------- MODULE PatchProofs -----------------------------
(***************************************************************************)
(* What candidate patches are and compute, for all netlists: the lemmas of *)
(* TrajectoryProofs, those about Means also of SynthesisProofs. There is   *)
(* no state here.                                                          *)
(*                                                                         *)
(* Well-formed: whatever is emitted for a list of targets is a patch       *)
(* without leftovers, and normalisation only renames it. The two           *)
(* evaluations of a patched netlist, eco's and the evaluator's, name the   *)
(* old and the new value of a target the other way round; a renaming takes *)
(* the wires of one to those of the other.                                 *)
(*                                                                         *)
(* Correct: the emission gives each target the value of its literal. A     *)
(* literal built over cut points means what it was built for. So a         *)
(* candidate explains, gate by gate and target by target, what it should   *)
(* compute (Explains), from which it can compute nothing else              *)
(* (PatchedSound), and it computes something for every net where the       *)
(* targets read no net that waits for them (Grounded). TrajectoryProofs    *)
(* applies this to each kind of candidate.                                 *)
(***************************************************************************)
EXTENDS CircuitProofs, SpecBuilder, Emission

-----------------------------------------------------------------------------
(* What Settled computes: values of wires whose reads have theirs before,  *)
(* until no wire is left that could have one.                              *)

Runnable(c, wd, start) ==
  /\ IsFiniteSet(DOMAIN wd) /\ \A w \in DOMAIN wd : wd[w].type \in GateTypes
  /\ start \in [DOMAIN start -> SUBSET Patterns(c)]

Partial(c, wd, start) ==
  UNION {[D -> SUBSET Patterns(c)] : D \in SUBSET (DOMAIN wd \union DOMAIN start)}

WireValue(c, wd, v, w) ==
  GateFn(c, wd[w].type, [j \in DOMAIN wd[w].ins |-> v[wd[w].ins[j]]])

ReadyWires(wd, v) ==
  {w \in DOMAIN wd \ DOMAIN v : Range(wd[w].ins) \subseteq DOMAIN v}

NextWires(c, wd, v) ==
  [w \in DOMAIN v \union ReadyWires(wd, v) |->
     IF w \in DOMAIN v THEN v[w] ELSE WireValue(c, wd, v, w)]

(* The values given are what gates compute from values given before.       *)
WiresRanked(c, wd, start, v, rank) ==
  \A w \in DOMAIN v \ DOMAIN start :
    /\ w \in DOMAIN wd /\ v[w] = WireValue(c, wd, v, w)
    /\ \A x \in Range(wd[w].ins) : x \in DOMAIN v /\ rank[x] < rank[w]

Running(c, wd, start, v) ==
  /\ v \in Partial(c, wd, start)
  /\ DOMAIN start \subseteq DOMAIN v /\ \A w \in DOMAIN start : v[w] = start[w]
  /\ \E b \in Nat : \E rank \in [DOMAIN v -> 0 .. b] : WiresRanked(c, wd, start, v, rank)

IsRun(c, wd, start, v) == Running(c, wd, start, v) /\ ReadyWires(wd, v) = {}

LEMMA PartialIs ==
  ASSUME NEW c, NEW wd, NEW start, NEW v
  PROVE  v \in Partial(c, wd, start) <=>
           /\ v \in [DOMAIN v -> SUBSET Patterns(c)]
           /\ DOMAIN v \subseteq DOMAIN wd \union DOMAIN start
<1>1. v \in Partial(c, wd, start) <=>
        \E D \in SUBSET (DOMAIN wd \union DOMAIN start) : v \in [D -> SUBSET Patterns(c)]
  BY DEF Partial
<1>. QED BY <1>1

LEMMA WireValueSame ==
  ASSUME NEW c, NEW wd, NEW w, NEW v, NEW u, \A x \in Range(wd[w].ins) : v[x] = u[x]
  PROVE  WireValue(c, wd, v, w) = WireValue(c, wd, u, w)
<1>1. \A j \in DOMAIN wd[w].ins : v[wd[w].ins[j]] = u[wd[w].ins[j]]
  BY DEF Range
<1>2. [j \in DOMAIN wd[w].ins |-> v[wd[w].ins[j]]] = [j \in DOMAIN wd[w].ins |-> u[wd[w].ins[j]]]
  BY <1>1
<1>. QED BY <1>2 DEF WireValue

LEMMA NextWiresKeeps ==
  ASSUME NEW c, NEW wd, NEW start, Runnable(c, wd, start), NEW v, Running(c, wd, start, v)
  PROVE  Running(c, wd, start, NextWires(c, wd, v))
<1>1. PICK u : u = NextWires(c, wd, v)
  OBVIOUS
<1>2. /\ DOMAIN u = DOMAIN v \union ReadyWires(wd, v)
      /\ \A w \in DOMAIN v : u[w] = v[w]
      /\ \A w \in ReadyWires(wd, v) : u[w] = WireValue(c, wd, v, w)
      /\ u \in [DOMAIN u -> SUBSET Patterns(c)]
  <2>1. \A w \in ReadyWires(wd, v) : w \in DOMAIN wd /\ w \notin DOMAIN v
    BY DEF ReadyWires
  <2>2. \A w \in ReadyWires(wd, v) : WireValue(c, wd, v, w) \subseteq Patterns(c)
    BY <2>1, GateFnTyped DEF WireValue, Runnable
  <2>3. v \in [DOMAIN v -> SUBSET Patterns(c)]
    BY PartialIs DEF Running
  <2>4. u = [w \in DOMAIN v \union ReadyWires(wd, v) |->
               IF w \in DOMAIN v THEN v[w] ELSE WireValue(c, wd, v, w)]
    BY <1>1 DEF NextWires
  <2>. QED BY <2>1, <2>2, <2>3, <2>4
<1>3. u \in Partial(c, wd, start)
  <2>1. DOMAIN v \subseteq DOMAIN wd \union DOMAIN start
    BY PartialIs DEF Running
  <2>2. DOMAIN u \subseteq DOMAIN wd \union DOMAIN start
    BY <1>2, <2>1 DEF ReadyWires
  <2>. QED BY <1>2, <2>2, PartialIs
<1>4. DOMAIN start \subseteq DOMAIN u /\ \A w \in DOMAIN start : u[w] = start[w]
  BY <1>2 DEF Running
<1>5. PICK b \in Nat : \E rank \in [DOMAIN v -> 0 .. b] : WiresRanked(c, wd, start, v, rank)
  BY DEF Running
<1>6. PICK rank \in [DOMAIN v -> 0 .. b] : WiresRanked(c, wd, start, v, rank)
  BY <1>5
<1>7. PICK up : up = [w \in DOMAIN u |-> IF w \in DOMAIN v THEN rank[w] ELSE b + 1]
  OBVIOUS
<1>8. up \in [DOMAIN u -> 0 .. b + 1] /\ \A w \in DOMAIN v : up[w] = rank[w] /\ up[w] \in 0 .. b
  BY <1>2, <1>7
<1>9. ASSUME NEW w \in DOMAIN u \ DOMAIN start
      PROVE  /\ w \in DOMAIN wd /\ u[w] = WireValue(c, wd, u, w)
             /\ \A x \in Range(wd[w].ins) : x \in DOMAIN u /\ up[x] < up[w]
  <2>1. CASE w \in DOMAIN v
    <3>1. /\ w \in DOMAIN wd /\ v[w] = WireValue(c, wd, v, w)
          /\ \A x \in Range(wd[w].ins) : x \in DOMAIN v /\ rank[x] < rank[w]
      BY <1>6, <1>9, <2>1 DEF WiresRanked
    <3>2. WireValue(c, wd, v, w) = WireValue(c, wd, u, w)
      BY <1>2, <3>1, WireValueSame
    <3>. QED BY <1>2, <1>8, <2>1, <3>1, <3>2
  <2>2. CASE w \in ReadyWires(wd, v)
    <3>1. w \in DOMAIN wd /\ w \notin DOMAIN v /\ \A x \in Range(wd[w].ins) : x \in DOMAIN v
      BY <2>2 DEF ReadyWires
    <3>2. WireValue(c, wd, v, w) = WireValue(c, wd, u, w)
      BY <1>2, <3>1, WireValueSame
    <3>3. up[w] = b + 1 /\ \A x \in Range(wd[w].ins) : up[x] < b + 1
      BY <1>7, <1>8, <3>1
    <3>. QED BY <1>2, <2>2, <3>1, <3>2, <3>3
  <2>. QED BY <1>2, <2>1, <2>2
<1>10. WiresRanked(c, wd, start, u, up)
  BY <1>9 DEF WiresRanked
<1>11. \E bb \in Nat : \E r \in [DOMAIN u -> 0 .. bb] : WiresRanked(c, wd, start, u, r)
  <2>1. PICK bb : bb = b + 1
    OBVIOUS
  <2>2. bb \in Nat /\ up \in [DOMAIN u -> 0 .. bb]
    BY <1>8, <2>1
  <2>. QED BY <1>10, <2>2
<1>. QED BY <1>1, <1>3, <1>4, <1>11 DEF Running

LEMMA SettledRuns ==
  ASSUME NEW c, NEW wd, NEW start, Runnable(c, wd, start)
  PROVE  IsRun(c, wd, start, Settled(c, wd, start))
<1>. DEFINE N == Cardinality(DOMAIN wd)
            V == {v \in Partial(c, wd, start) : Running(c, wd, start, v)}
            G == [v \in V |-> NextWires(c, wd, v)]
            mu == [v \in V |-> Cardinality(DOMAIN wd \intersect DOMAIN v)]
            at(f, i) == IF i = 0 THEN start ELSE NextWires(c, wd, f[i - 1])
            E == CHOOSE step : step = [i \in 0 .. N |-> at(step, i)]
<1>1. start \in V
  <2>1. [w \in DOMAIN start |-> 0] \in [DOMAIN start -> 0 .. 0]
    OBVIOUS
  <2>2. WiresRanked(c, wd, start, start, [w \in DOMAIN start |-> 0])
    BY DEF WiresRanked
  <2>3. start \in Partial(c, wd, start)
    BY PartialIs DEF Runnable
  <2>4. Running(c, wd, start, start)
    BY <2>1, <2>2, <2>3 DEF Running
  <2>. QED BY <2>3, <2>4
<1>2. \A v \in V : Running(c, wd, start, v)
  OBVIOUS
<1>3. G \in [V -> V]
  <2>1. \A v \in V : NextWires(c, wd, v) \in V
    BY NextWiresKeeps DEF Running
  <2>. HIDE DEF V
  <2>. QED BY <2>1
<1>4. /\ N \in Nat /\ mu \in [V -> 0 .. N]
      /\ \A X : X \subseteq DOMAIN wd => IsFiniteSet(X) /\ Cardinality(X) \in 0 .. N
  <2>1. IsFiniteSet(DOMAIN wd) /\ N \in Nat
    BY FS_CardinalityType DEF Runnable
  <2>2. \A X : X \subseteq DOMAIN wd => IsFiniteSet(X) /\ Cardinality(X) \in 0 .. N
    BY <2>1, FS_Subset, FS_CardinalityType
  <2>. HIDE DEF V, N
  <2>. QED BY <2>1, <2>2
<1>5. ASSUME NEW v \in V, ReadyWires(wd, v) # {}
      PROVE  mu[G[v]] > mu[v]
  <2>1. G[v] \in V /\ G[v] = NextWires(c, wd, v)
    BY <1>3
  <2>2. DOMAIN G[v] = DOMAIN v \union ReadyWires(wd, v)
    BY <2>1 DEF NextWires
  <2>3. ReadyWires(wd, v) \subseteq DOMAIN wd \ DOMAIN v
    BY DEF ReadyWires
  <2>4. PICK A : A = DOMAIN wd \intersect DOMAIN v
    OBVIOUS
  <2>5. PICK B : B = DOMAIN wd \intersect DOMAIN G[v]
    OBVIOUS
  <2>6. A \subseteq B /\ A # B /\ B \subseteq DOMAIN wd
    BY <1>5, <2>2, <2>3, <2>4, <2>5
  <2>7. /\ IsFiniteSet(B) /\ Cardinality(A) \in Nat /\ Cardinality(B) \in Nat
        /\ Cardinality(A) <= Cardinality(B) /\ Cardinality(A) # Cardinality(B)
    BY <1>4, <2>6, FS_Subset
  <2>8. mu[v] = Cardinality(A) /\ mu[G[v]] = Cardinality(B)
    BY <2>1, <2>4, <2>5
  <2>. HIDE DEF mu, G, V
  <2>. QED BY <2>7, <2>8
<1>6. \A v \in V : G[v] = v \/ mu[G[v]] > mu[v]
  <2>1. SUFFICES ASSUME NEW v \in V, ReadyWires(wd, v) = {} PROVE G[v] = v
    <3>. HIDE DEF V, G, mu
    <3>. QED BY <1>5
  <2>2. v = [w \in DOMAIN v |-> v[w]]
    BY PartialIs
  <2>3. NextWires(c, wd, v) = [w \in DOMAIN v |-> v[w]]
    BY <2>1 DEF NextWires
  <2>. QED BY <2>2, <2>3
<1>7. PICK f : IsIteration(f, start, G, V, N)
  <2>. HIDE DEF V, G, N
  <2>. QED BY <1>1, <1>3, <1>4, IterationExists
<1>8. G[f[N]] = f[N] /\ f[N] \in V
  <2>. HIDE DEF V, G, N, mu
  <2>1. N <= mu[start] + N
    BY <1>1, <1>4
  <2>2. G[f[N]] = f[N]
    BY <1>4, <1>6, <1>7, <2>1, IterationStops
  <2>3. f[N] \in V
    BY <1>4, <1>7 DEF IsIteration
  <2>. QED BY <2>2, <2>3
<1>9. IsRun(c, wd, start, f[N])
  <2>1. mu[f[N]] \in 0 .. N /\ ~(mu[f[N]] > mu[f[N]])
    <3>. HIDE DEF mu, V, N
    <3>. QED BY <1>4, <1>8
  <2>2. ReadyWires(wd, f[N]) = {}
    <3>. HIDE DEF mu, V, N, G
    <3>. QED BY <1>5, <1>8, <2>1
  <2>. QED BY <1>2, <1>8, <2>2 DEF IsRun
<1>10. f = [i \in 0 .. N |-> at(f, i)]
  <2>1. \A i \in 0 .. N : f[i] = at(f, i)
    <3>1. ASSUME NEW i \in 0 .. N, i # 0 PROVE f[i] = NextWires(c, wd, f[i - 1])
      <4>1. i \in 1 .. N /\ i - 1 \in 0 .. N
        BY <1>4, <3>1
      <4>2. f[i] = G[f[i - 1]] /\ f[i - 1] \in V
        BY <1>7, <4>1 DEF IsIteration
      <4>. QED BY <4>2
    <3>2. f[0] = start
      BY <1>7 DEF IsIteration
    <3>. QED BY <3>1, <3>2
  <2>2. DOMAIN f = 0 .. N /\ f = [i \in 0 .. N |-> f[i]]
    BY <1>7 DEF IsIteration
  <2>. HIDE DEF at
  <2>. QED BY <2>1, <2>2
<1>11. E = [i \in 0 .. N |-> at(E, i)]
  <2>. HIDE DEF at, N
  <2>. QED BY <1>10
<1>12. Settled(c, wd, start) = E[N]
  BY DEF Settled, NextWires, ReadyWires, WireValue
<1>13. \A i \in 0 .. N : E[i] = f[i]
  <2>. DEFINE T == {i \in 0 .. N : E[i] # f[i]}
  <2>1. SUFFICES ASSUME T # {} PROVE FALSE
    OBVIOUS
  <2>2. PICK i \in T : \A j \in T : i <= j
    <3>1. T \subseteq Nat
      BY <1>4
    <3>. HIDE DEF T
    <3>. QED BY <2>1, <3>1, Smallest
  <2>3. E[i] = at(E, i) /\ f[i] = at(f, i)
    <3>. HIDE DEF E, at
    <3>. QED BY <1>10, <1>11
  <2>. HIDE DEF E
  <2>4. i # 0
    BY <2>3
  <2>5. i - 1 \in 0 .. N /\ ~(i <= i - 1)
    BY <1>4, <2>4
  <2>. QED BY <2>2, <2>3, <2>4, <2>5
<1>. QED BY <1>4, <1>9, <1>12, <1>13

(* Two netlists that differ in the names r of their wires only.            *)
Renames(wd, start, wd2, start2, r) ==
  /\ DOMAIN wd \union DOMAIN start \subseteq DOMAIN r
  /\ \A w \in DOMAIN wd : Range(wd[w].ins) \subseteq DOMAIN r
  /\ \A w, x \in DOMAIN r : r[w] = r[x] => w = x
  /\ \A w \in DOMAIN r : /\ w \in DOMAIN wd <=> r[w] \in DOMAIN wd2
                         /\ w \in DOMAIN start <=> r[w] \in DOMAIN start2
  /\ \A w \in DOMAIN wd :
       /\ wd2[r[w]].type = wd[w].type /\ DOMAIN wd2[r[w]].ins = DOMAIN wd[w].ins
       /\ \A j \in DOMAIN wd[w].ins : wd2[r[w]].ins[j] = r[wd[w].ins[j]]
  /\ \A w \in DOMAIN start : start2[r[w]] = start[w]

(* The same values, under other names.                                     *)
AgreeUnder(r, v, u) ==
  \A w \in DOMAIN r : /\ w \in DOMAIN v <=> r[w] \in DOMAIN u
                      /\ w \in DOMAIN v => v[w] = u[r[w]]

LEMMA LowestWire ==
  ASSUME NEW b \in Nat, NEW D, NEW rank \in [D -> 0 .. b], NEW X, X \subseteq D, X # {}
  PROVE  \E w \in X : \A x \in X : rank[w] <= rank[x]
<1>1. PICK T : T = {rank[w] : w \in X}
  OBVIOUS
<1>2. T \subseteq Nat /\ T # {}
  BY <1>1
<1>3. PICK k \in T : \A j \in T : k <= j
  BY <1>2, Smallest
<1>. QED BY <1>1, <1>3

LEMMA RenamedValue ==
  ASSUME NEW c, NEW wd, NEW start, NEW wd2, NEW start2, NEW r,
         Renames(wd, start, wd2, start2, r), NEW w \in DOMAIN wd, NEW v, NEW u,
         \A x \in Range(wd[w].ins) : v[x] = u[r[x]]
  PROVE  WireValue(c, wd, v, w) = WireValue(c, wd2, u, r[w])
<1>1. /\ wd2[r[w]].type = wd[w].type /\ DOMAIN wd2[r[w]].ins = DOMAIN wd[w].ins
      /\ \A j \in DOMAIN wd[w].ins : wd2[r[w]].ins[j] = r[wd[w].ins[j]]
  BY DEF Renames
<1>2. \A j \in DOMAIN wd[w].ins : v[wd[w].ins[j]] = u[wd2[r[w]].ins[j]]
  BY <1>1 DEF Range
<1>3. [j \in DOMAIN wd[w].ins |-> v[wd[w].ins[j]]]
        = [j \in DOMAIN wd2[r[w]].ins |-> u[wd2[r[w]].ins[j]]]
  BY <1>1, <1>2
<1>. QED BY <1>1, <1>3 DEF WireValue

LEMMA RenamedReads ==
  ASSUME NEW wd, NEW start, NEW wd2, NEW start2, NEW r,
         Renames(wd, start, wd2, start2, r), NEW w \in DOMAIN wd
  PROVE  /\ Range(wd[w].ins) \subseteq DOMAIN r /\ r[w] \in DOMAIN wd2
         /\ \A y \in Range(wd2[r[w]].ins) : \E x \in Range(wd[w].ins) : y = r[x]
         /\ \A x \in Range(wd[w].ins) : r[x] \in Range(wd2[r[w]].ins)
BY DEF Renames, Range

LEMMA RunsAgree ==
  ASSUME NEW c, NEW wd, NEW start, NEW wd2, NEW start2, NEW r,
         Renames(wd, start, wd2, start2, r),
         NEW v, IsRun(c, wd, start, v), NEW u, IsRun(c, wd2, start2, u)
  PROVE  AgreeUnder(r, v, u)
<1>1. /\ DOMAIN start \subseteq DOMAIN v /\ DOMAIN v \subseteq DOMAIN r
      /\ \A w \in DOMAIN start : v[w] = start[w]
      /\ DOMAIN start2 \subseteq DOMAIN u /\ \A w \in DOMAIN start2 : u[w] = start2[w]
  BY PartialIs DEF IsRun, Running, Renames
<1>2. /\ \A w \in DOMAIN wd \ DOMAIN v : ~(Range(wd[w].ins) \subseteq DOMAIN v)
      /\ \A w \in DOMAIN wd2 \ DOMAIN u : ~(Range(wd2[w].ins) \subseteq DOMAIN u)
  BY DEF IsRun, ReadyWires
<1>3. \A w \in DOMAIN v : r[w] \in DOMAIN u /\ v[w] = u[r[w]]
  <2>1. PICK X : X = {w \in DOMAIN v : ~(r[w] \in DOMAIN u /\ v[w] = u[r[w]])}
    OBVIOUS
  <2>2. SUFFICES ASSUME X # {} PROVE FALSE
    BY <2>1
  <2>3. PICK b \in Nat : \E rank \in [DOMAIN v -> 0 .. b] : WiresRanked(c, wd, start, v, rank)
    BY DEF IsRun, Running
  <2>4. PICK rank \in [DOMAIN v -> 0 .. b] : WiresRanked(c, wd, start, v, rank)
    BY <2>3
  <2>5. PICK w \in X : \A x \in X : rank[w] <= rank[x]
    BY <2>1, <2>2, LowestWire
  <2>6. w \notin DOMAIN start
    BY <1>1, <2>1, <2>5 DEF Renames
  <2>7. /\ w \in DOMAIN wd /\ v[w] = WireValue(c, wd, v, w) /\ w \in DOMAIN r
        /\ \A x \in Range(wd[w].ins) : x \in DOMAIN v /\ rank[x] < rank[w]
    BY <1>1, <2>1, <2>4, <2>5, <2>6 DEF WiresRanked
  <2>8. \A x \in Range(wd[w].ins) : r[x] \in DOMAIN u /\ v[x] = u[r[x]]
    <3>1. SUFFICES ASSUME NEW x \in Range(wd[w].ins) PROVE x \notin X
      BY <2>1, <2>7
    <3>2. rank[x] < rank[w] /\ rank[x] \in Nat /\ rank[w] \in Nat
      BY <2>1, <2>5, <2>7
    <3>. QED BY <2>5, <3>2
  <2>9. v[w] = WireValue(c, wd2, u, r[w])
    BY <2>7, <2>8, RenamedValue
  <2>10. r[w] \in DOMAIN wd2 /\ Range(wd2[r[w]].ins) \subseteq DOMAIN u
    BY <2>7, <2>8, RenamedReads
  <2>11. r[w] \in DOMAIN u \ DOMAIN start2
    BY <1>2, <2>6, <2>7, <2>10 DEF Renames
  <2>12. u[r[w]] = WireValue(c, wd2, u, r[w])
    BY <2>11 DEF IsRun, Running, WiresRanked
  <2>. QED BY <2>1, <2>5, <2>9, <2>11, <2>12
<1>4. \A w \in DOMAIN r : r[w] \in DOMAIN u => w \in DOMAIN v
  <2>1. PICK X : X = {y \in DOMAIN u : \E w \in DOMAIN r : y = r[w] /\ w \notin DOMAIN v}
    OBVIOUS
  <2>2. SUFFICES ASSUME X # {} PROVE FALSE
    BY <2>1
  <2>3. PICK b \in Nat : \E rank \in [DOMAIN u -> 0 .. b] : WiresRanked(c, wd2, start2, u, rank)
    BY DEF IsRun, Running
  <2>4. PICK rank \in [DOMAIN u -> 0 .. b] : WiresRanked(c, wd2, start2, u, rank)
    BY <2>3
  <2>5. PICK y \in X : \A x \in X : rank[y] <= rank[x]
    BY <2>1, <2>2, LowestWire
  <2>6. PICK w \in DOMAIN r : y = r[w] /\ w \notin DOMAIN v
    BY <2>1, <2>5
  <2>7. y \in DOMAIN u \ DOMAIN start2
    BY <1>1, <2>1, <2>5, <2>6 DEF Renames
  <2>8. y \in DOMAIN wd2 /\ \A x \in Range(wd2[y].ins) : x \in DOMAIN u /\ rank[x] < rank[y]
    BY <2>4, <2>7 DEF WiresRanked
  <2>9. w \in DOMAIN wd
    BY <2>6, <2>8 DEF Renames
  <2>10. Range(wd[w].ins) \subseteq DOMAIN v
    <3>1. SUFFICES ASSUME NEW x \in Range(wd[w].ins), x \notin DOMAIN v PROVE FALSE
      OBVIOUS
    <3>2. x \in DOMAIN r /\ r[x] \in Range(wd2[y].ins)
      BY <2>6, <2>9, RenamedReads
    <3>3. r[x] \in X /\ rank[r[x]] < rank[y]
      BY <2>1, <2>8, <3>1, <3>2
    <3>4. rank[r[x]] \in Nat /\ rank[y] \in Nat
      BY <2>1, <2>7, <3>3
    <3>. QED BY <2>5, <3>3, <3>4
  <2>. QED BY <1>2, <2>6, <2>9, <2>10
<1>. QED BY <1>1, <1>3, <1>4 DEF AgreeUnder

-----------------------------------------------------------------------------
(* A patched netlist, as eco and as the evaluator write it.                *)

(* A circuit whose nets are all driven, or inputs.                         *)
IsWhole(c) == IsCircuit(c) /\ c.nets \subseteq Inputs(c) \union Driven(c)

LEMMA Largest ==
  ASSUME NEW T, IsFiniteSet(T), T \subseteq Nat, T # {}
  PROVE  \E x \in T : \A y \in T : y <= x
<1>1. PICK n, f : /\ n \in Nat /\ f \in [1 .. n -> T]
                  /\ \A y \in T : \E i \in 1 .. n : f[i] = y
  <2>1. Cardinality(T) \in Nat /\ ExistsBijection(1 .. Cardinality(T), T)
    BY FS_CardinalityType
  <2>. QED BY <2>1 DEF ExistsBijection, Bijection, Surjection
<1>. DEFINE Bounds(j) == {k \in Nat : \A i \in 1 .. j : i <= n => f[i] <= k}
            X == {j \in Nat : Bounds(j) = {}}
<1>0. \A i \in 1 .. n : f[i] \in Nat
  BY <1>1
<1>2. X = {}
  <2>1. SUFFICES ASSUME X # {} PROVE FALSE
    OBVIOUS
  <2>2. PICK j \in X : \A i \in X : j <= i
    <3>1. X \subseteq Nat
      OBVIOUS
    <3>. HIDE DEF X
    <3>. QED BY <2>1, <3>1, Smallest
  <2>3. j # 0
    <3>1. 0 \in Bounds(0)
      OBVIOUS
    <3>. HIDE DEF Bounds
    <3>. QED BY <3>1
  <2>4. j - 1 \in Nat /\ j - 1 \notin X
    BY <2>2, <2>3
  <2>5. PICK k \in Bounds(j - 1) : TRUE
    <3>. HIDE DEF Bounds
    <3>. QED BY <2>4
  <2>6. PICK kk \in Nat : kk >= k /\ (j <= n => kk >= f[j])
    <3>1. CASE j <= n /\ f[j] > k
      <4>1. f[j] \in Nat
        BY <1>0, <1>1, <2>3, <3>1
      <4>. QED BY <3>1, <4>1
    <3>2. CASE j <= n /\ ~(f[j] > k)
      <4>1. f[j] \in Nat
        BY <1>0, <1>1, <2>3, <3>2
      <4>. QED BY <3>2, <4>1
    <3>3. CASE ~(j <= n)
      BY <3>3
    <3>. QED BY <3>1, <3>2, <3>3
  <2>7. \A i \in 1 .. j : i <= n => f[i] <= kk
    <3>1. SUFFICES ASSUME NEW i \in 1 .. j, i <= n PROVE f[i] <= kk
      OBVIOUS
    <3>2. f[i] \in Nat
      BY <1>0, <1>1, <3>1
    <3>3. CASE i = j
      BY <2>6, <3>1, <3>3
    <3>4. CASE i # j
      <4>1. i \in 1 .. j - 1
        BY <3>4
      <4>. QED BY <2>5, <2>6, <3>1, <3>2, <4>1
    <3>. QED BY <3>3, <3>4
  <2>8. kk \in Bounds(j)
    BY <2>7
  <2>. QED BY <2>2, <2>8
<1>3. PICK U : U = {k \in Nat : \A y \in T : y <= k}
  OBVIOUS
<1>4. U # {}
  <2>1. n \notin X
    BY <1>2
  <2>2. PICK k \in Bounds(n) : TRUE
    <3>. HIDE DEF Bounds
    <3>. QED BY <1>1, <2>1
  <2>3. \A i \in 1 .. n : f[i] <= k
    BY <2>2
  <2>. QED BY <1>1, <1>3, <2>2, <2>3
<1>5. PICK k \in U : \A x \in U : k <= x
  BY <1>3, <1>4, Smallest
<1>6. k \in Nat /\ \A y \in T : y <= k
  BY <1>3
<1>7. k \in T
  <2>1. SUFFICES ASSUME k \notin T PROVE FALSE
    OBVIOUS
  <2>2. \A y \in T : y < k
    BY <1>6, <2>1
  <2>3. k # 0
    <3>1. PICK y \in T : y < k /\ y \in Nat
      BY <2>2
    <3>. QED BY <3>1
  <2>4. k - 1 \in U /\ ~(k <= k - 1)
    BY <1>3, <1>6, <2>2, <2>3
  <2>. QED BY <1>5, <2>4
<1>. QED BY <1>6, <1>7

LEMMA DriverIs ==
  ASSUME NEW c, NEW p, IsPatch(c, p), NEW n \in GateOuts(p)
  PROVE  \E i \in DOMAIN p.gates : DriverOf(p, n) = p.gates[i] /\ p.gates[i].out = n
<1>1. PICK T : T = {i \in DOMAIN p.gates : p.gates[i].out = n}
  OBVIOUS
<1>2. T # {} /\ T \subseteq Nat /\ IsFiniteSet(T)
  BY <1>1, FS_Subset DEF GateOuts, IsPatch
<1>3. \E x \in T : \A y \in T : y <= x
  BY <1>2, Largest
<1>4. DriverOf(p, n) = p.gates[CHOOSE i \in T : \A j \in T : j <= i]
  BY <1>1 DEF DriverOf
<1>. QED BY <1>1, <1>3, <1>4

LEMMA DriverTyped ==
  ASSUME NEW c, NEW p, IsPatch(c, p), NEW n \in GateOuts(p)
  PROVE  DriverOf(p, n).type \in GateTypes /\ DriverOf(p, n).ins \in Seq(Int) /\ n \in Int
BY DriverIs DEF IsPatch

(* What drives the wires of eco's netlist, and of the evaluator's.         *)
LEMMA PatchedWires ==
  ASSUME NEW c, NEW p, IsWhole(c), IsPatch(c, p),
         NEW g, g = PatchedDrivers(c, p)
  PROVE  /\ \A n \in GateOuts(p) :
              LET w == DrivesAs(p, n)  d == DriverOf(p, n) IN
              /\ g[w].type = d.type /\ DOMAIN g[w].ins = DOMAIN d.ins
              /\ \A j \in DOMAIN d.ins : g[w].ins[j] = ReadsAs(c, p, d.ins[j])
         /\ \A n \in Driven(c) :
              LET w == OldAs(p, n)  d == c.gate[n] IN
              /\ g[w].type = d.type /\ DOMAIN g[w].ins = DOMAIN d.ins
              /\ \A j \in DOMAIN d.ins : g[w].ins[j] = Net(d.ins[j])
<1>1. \A n \in GateOuts(p) : DrivesAs(p, n)[2] = n
  BY DEF DrivesAs, Net, Wire
<1>2. \A n \in Driven(c) : OldAs(p, n)[2] = n /\ \A m \in GateOuts(p) : OldAs(p, n) # DrivesAs(p, m)
  BY DEF OldAs, DrivesAs, Net, Pre, Wire
<1>3. ASSUME NEW n \in GateOuts(p), NEW w, w = DrivesAs(p, n), NEW d, d = DriverOf(p, n)
      PROVE  /\ g[w].type = d.type /\ DOMAIN g[w].ins = DOMAIN d.ins
             /\ \A j \in DOMAIN d.ins : g[w].ins[j] = ReadsAs(c, p, d.ins[j])
  BY <1>1, <1>3 DEF PatchedDrivers
<1>4. ASSUME NEW n \in Driven(c), NEW w, w = OldAs(p, n), NEW d, d = c.gate[n]
      PROVE  /\ g[w].type = d.type /\ DOMAIN g[w].ins = DOMAIN d.ins
             /\ \A j \in DOMAIN d.ins : g[w].ins[j] = Net(d.ins[j])
  BY <1>2, <1>4 DEF PatchedDrivers
<1>. QED BY <1>3, <1>4

LEMMA AppliedWires ==
  ASSUME NEW c, NEW p, IsWhole(c), IsPatch(c, p),
         NEW g, g = ApplyPatch(c, p)
  PROVE  /\ \A n \in GateOuts(p) :
              LET w == EvalDrives(p, n)  d == DriverOf(p, n) IN
              /\ g[w].type = d.type /\ DOMAIN g[w].ins = DOMAIN d.ins
              /\ \A j \in DOMAIN d.ins : g[w].ins[j] = EvalReads(c, p, d.ins[j])
         /\ \A n \in Driven(c) :
              LET w == Net(n)  d == c.gate[n] IN
              /\ g[w].type = d.type /\ DOMAIN g[w].ins = DOMAIN d.ins
              /\ \A j \in DOMAIN d.ins : g[w].ins[j] = NewAs(p, d.ins[j])
<1>1. \A n \in GateOuts(p) : EvalDrives(p, n)[2] = n
  BY DEF EvalDrives, Post, Wire
<1>2. \A n \in Driven(c) : Net(n)[2] = n /\ \A m \in GateOuts(p) : Net(n) # EvalDrives(p, m)
  BY DEF EvalDrives, Net, Post, Wire
<1>3. ASSUME NEW n \in GateOuts(p), NEW w, w = EvalDrives(p, n), NEW d, d = DriverOf(p, n)
      PROVE  /\ g[w].type = d.type /\ DOMAIN g[w].ins = DOMAIN d.ins
             /\ \A j \in DOMAIN d.ins : g[w].ins[j] = EvalReads(c, p, d.ins[j])
  BY <1>1, <1>3 DEF ApplyPatch
<1>4. ASSUME NEW n \in Driven(c), NEW w, w = Net(n), NEW d, d = c.gate[n]
      PROVE  /\ g[w].type = d.type /\ DOMAIN g[w].ins = DOMAIN d.ins
             /\ \A j \in DOMAIN d.ins : g[w].ins[j] = NewAs(p, d.ins[j])
  BY <1>2, <1>4 DEF ApplyPatch
<1>. QED BY <1>3, <1>4

(* The evaluator's name for a wire of eco's netlist.                       *)
EvalNames(p) ==
  [w \in {Net(n) : n \in Int} \union {Pre(n) : n \in Outs(p)} \union {Wire(n) : n \in Int} |->
     IF w[1] = "pre" THEN Net(w[2]) ELSE IF w[1] = "net" THEN NewAs(p, w[2]) ELSE w]

LEMMA EvalNamesIs ==
  ASSUME NEW c, NEW p, IsWhole(c), IsPatch(c, p)
  PROVE  /\ \A n \in Int : /\ Net(n) \in DOMAIN EvalNames(p) /\ EvalNames(p)[Net(n)] = NewAs(p, n)
                           /\ Wire(n) \in DOMAIN EvalNames(p) /\ EvalNames(p)[Wire(n)] = Wire(n)
         /\ \A n \in Outs(p) : /\ Pre(n) \in DOMAIN EvalNames(p) /\ EvalNames(p)[Pre(n)] = Net(n)
                               /\ n \in c.nets
         /\ c.nets \subseteq Int /\ Inputs(c) \subseteq c.nets /\ Driven(c) \subseteq c.nets
         /\ GateOuts(p) \subseteq Int /\ 0 \notin c.nets /\ 1 \notin c.nets
         /\ c.nets = Inputs(c) \union Driven(c) /\ Inputs(c) \intersect Driven(c) = {}
         /\ \A w \in DOMAIN EvalNames(p) :
              \/ \E n \in Int : w = Net(n) \/ w = Wire(n)
              \/ \E n \in Outs(p) : w = Pre(n)
<1>1. Outs(p) \subseteq c.nets
  BY DEF IsPatch, Outs, Range
<1>2. c.nets \subseteq Int /\ 0 \notin c.nets /\ 1 \notin c.nets
  BY DEF IsWhole, IsCircuit
<1>3. /\ \A n \in Int : /\ Net(n) \in DOMAIN EvalNames(p) /\ EvalNames(p)[Net(n)] = NewAs(p, n)
                        /\ Wire(n) \in DOMAIN EvalNames(p) /\ EvalNames(p)[Wire(n)] = Wire(n)
      /\ \A n \in Outs(p) : Pre(n) \in DOMAIN EvalNames(p) /\ EvalNames(p)[Pre(n)] = Net(n)
  BY DEF EvalNames, Net, Wire, Pre
<1>4. GateOuts(p) \subseteq Int
  BY DEF GateOuts, IsPatch
<1>5. /\ c.nets = Inputs(c) \union Driven(c) /\ Inputs(c) \intersect Driven(c) = {}
  BY DEF IsWhole, IsCircuit
<1>6. \A w \in DOMAIN EvalNames(p) :
        \/ \E n \in Int : w = Net(n) \/ w = Wire(n)
        \/ \E n \in Outs(p) : w = Pre(n)
  BY DEF EvalNames
<1>. QED BY <1>1, <1>2, <1>3, <1>4, <1>5, <1>6

LEMMA NamesDiffer ==
  ASSUME NEW m, NEW n
  PROVE  /\ Net(m) # Pre(n) /\ Net(m) # Wire(n) /\ Net(m) # Post(n) /\ Pre(m) # Wire(n)
         /\ Post(m) # Wire(n) /\ Post(m) # Pre(n)
         /\ (Net(m) = Net(n) => m = n) /\ (Pre(m) = Pre(n) => m = n)
         /\ (Wire(m) = Wire(n) => m = n) /\ (Post(m) = Post(n) => m = n)
BY DEF Net, Pre, Wire, Post

LEMMA WiresThere ==
  ASSUME NEW c, NEW p, IsWhole(c), IsPatch(c, p)
  PROVE  /\ \A n \in Int :
              /\ Net(n) \in DOMAIN PatchedDrivers(c, p) <=>
                   IF n \in Outs(p) THEN n \in GateOuts(p) ELSE n \in Driven(c)
              /\ Wire(n) \in DOMAIN PatchedDrivers(c, p) <=> n \in GateOuts(p) /\ n \notin Outs(p)
              /\ NewAs(p, n) \in DOMAIN ApplyPatch(c, p) <=>
                   IF n \in Outs(p) THEN n \in GateOuts(p) ELSE n \in Driven(c)
              /\ Wire(n) \in DOMAIN ApplyPatch(c, p) <=> n \in GateOuts(p) /\ n \notin Outs(p)
              /\ Net(n) \in DOMAIN InputValues(c, p) <=>
                   n \in {0, 1} \/ (n \in Inputs(c) /\ n \notin Outs(p))
              /\ Wire(n) \notin DOMAIN InputValues(c, p)
              /\ NewAs(p, n) \in DOMAIN G1Values(c) <=>
                   n \in {0, 1} \/ (n \in Inputs(c) /\ n \notin Outs(p))
              /\ Wire(n) \notin DOMAIN G1Values(c)
         /\ \A n \in Outs(p) :
              /\ Pre(n) \in DOMAIN PatchedDrivers(c, p) <=> n \in Driven(c)
              /\ Net(n) \in DOMAIN ApplyPatch(c, p) <=> n \in Driven(c)
              /\ Pre(n) \in DOMAIN InputValues(c, p) <=> n \in Inputs(c)
              /\ Net(n) \in DOMAIN G1Values(c) <=> n \in Inputs(c)
<1>1. \A n \in Outs(p) : n \notin {0, 1}
  BY EvalNamesIs
<1>2. /\ DOMAIN PatchedDrivers(c, p) = {DrivesAs(p, n) : n \in GateOuts(p)}
                                            \union {OldAs(p, n) : n \in Driven(c)}
      /\ DOMAIN ApplyPatch(c, p) = {EvalDrives(p, n) : n \in GateOuts(p)}
                                        \union {Net(n) : n \in Driven(c)}
  BY DEF PatchedDrivers, ApplyPatch
<1>3. DOMAIN InputValues(c, p) = {OldAs(p, n) : n \in Inputs(c)} \union {Net(0), Net(1)}
  BY DEF InputValues
<1>4. DOMAIN G1Values(c) = {Net(n) : n \in Inputs(c) \union {0, 1}}
  BY DEF G1Values
<1>5. ASSUME NEW n
      PROVE  /\ Net(n) \in DOMAIN PatchedDrivers(c, p) <=>
                  IF n \in Outs(p) THEN n \in GateOuts(p) ELSE n \in Driven(c)
             /\ Wire(n) \in DOMAIN PatchedDrivers(c, p) <=> n \in GateOuts(p) /\ n \notin Outs(p)
  BY <1>2, NamesDiffer DEF DrivesAs, OldAs
<1>6. ASSUME NEW n
      PROVE  /\ Post(n) \in DOMAIN ApplyPatch(c, p) <=> n \in GateOuts(p) /\ n \in Outs(p)
             /\ Net(n) \in DOMAIN ApplyPatch(c, p) <=> n \in Driven(c)
             /\ Wire(n) \in DOMAIN ApplyPatch(c, p) <=> n \in GateOuts(p) /\ n \notin Outs(p)
  <2>1. \A w : w \in DOMAIN ApplyPatch(c, p) <=>
                \/ \E m \in GateOuts(p) : m \in Outs(p) /\ w = Post(m)
                \/ \E m \in GateOuts(p) : m \notin Outs(p) /\ w = Wire(m)
                \/ \E m \in Driven(c) : w = Net(m)
    BY <1>2 DEF EvalDrives
  <2>2. Post(n) \in DOMAIN ApplyPatch(c, p) <=> n \in GateOuts(p) /\ n \in Outs(p)
    BY ONLY <2>1, NamesDiffer
  <2>3. Net(n) \in DOMAIN ApplyPatch(c, p) <=> n \in Driven(c)
    BY ONLY <2>1, NamesDiffer
  <2>4. Wire(n) \in DOMAIN ApplyPatch(c, p) <=> n \in GateOuts(p) /\ n \notin Outs(p)
    BY ONLY <2>1, NamesDiffer
  <2>. QED BY ONLY <2>2, <2>3, <2>4
<1>7. ASSUME NEW n
      PROVE  /\ Net(n) \in DOMAIN InputValues(c, p) <=>
                  n \in {0, 1} \/ (n \in Inputs(c) /\ n \notin Outs(p))
             /\ Wire(n) \notin DOMAIN InputValues(c, p)
  BY <1>3, NamesDiffer DEF OldAs
<1>8. ASSUME NEW n
      PROVE  /\ Net(n) \in DOMAIN G1Values(c) <=> n \in {0, 1} \/ n \in Inputs(c)
             /\ Wire(n) \notin DOMAIN G1Values(c) /\ Post(n) \notin DOMAIN G1Values(c)
  BY <1>4, NamesDiffer
<1>9. ASSUME NEW n \in Outs(p)
      PROVE  /\ Pre(n) \in DOMAIN PatchedDrivers(c, p) <=> n \in Driven(c)
             /\ Pre(n) \in DOMAIN InputValues(c, p) <=> n \in Inputs(c)
  BY <1>2, <1>3, NamesDiffer DEF DrivesAs, OldAs
<1>10. ASSUME NEW n
       PROVE  /\ NewAs(p, n) \in DOMAIN ApplyPatch(c, p) <=>
                   IF n \in Outs(p) THEN n \in GateOuts(p) ELSE n \in Driven(c)
              /\ NewAs(p, n) \in DOMAIN G1Values(c) <=>
                   n \in {0, 1} \/ (n \in Inputs(c) /\ n \notin Outs(p))
  <2>1. CASE n \in Outs(p)
    BY <1>1, <1>6, <1>8, <2>1 DEF NewAs
  <2>2. CASE n \notin Outs(p)
    BY <1>6, <1>8, <2>2 DEF NewAs
  <2>. QED BY <2>1, <2>2
<1>11. ASSUME NEW n \in Outs(p)
       PROVE  /\ Net(n) \in DOMAIN ApplyPatch(c, p) <=> n \in Driven(c)
              /\ Net(n) \in DOMAIN G1Values(c) <=> n \in Inputs(c)
  BY <1>1, <1>6, <1>8
<1>. QED BY <1>5, <1>6, <1>7, <1>8, <1>9, <1>10, <1>11

LEMMA PatchRenames ==
  ASSUME NEW c, NEW p, IsWhole(c), IsPatch(c, p)
  PROVE  Renames(PatchedDrivers(c, p), InputValues(c, p), ApplyPatch(c, p), G1Values(c),
                 EvalNames(p))
<1>. DEFINE wd == PatchedDrivers(c, p)
            wd2 == ApplyPatch(c, p)
            start == InputValues(c, p)
            start2 == G1Values(c)
            r == EvalNames(p)
<1>1. /\ \A n \in Int : /\ Net(n) \in DOMAIN r /\ r[Net(n)] = NewAs(p, n)
                        /\ Wire(n) \in DOMAIN r /\ r[Wire(n)] = Wire(n)
      /\ \A n \in Outs(p) : Pre(n) \in DOMAIN r /\ r[Pre(n)] = Net(n) /\ n \in c.nets
      /\ c.nets \subseteq Int /\ Inputs(c) \subseteq c.nets /\ Driven(c) \subseteq c.nets
      /\ GateOuts(p) \subseteq Int /\ 0 \notin c.nets /\ 1 \notin c.nets
      /\ c.nets = Inputs(c) \union Driven(c)
  BY EvalNamesIs
<1>2. \A w \in DOMAIN r : \/ \E n \in Int : w = Net(n) \/ w = Wire(n)
                          \/ \E n \in Outs(p) : w = Pre(n)
  BY EvalNamesIs
<1>3. /\ \A n \in GateOuts(p) :
           /\ wd[DrivesAs(p, n)].type = DriverOf(p, n).type
           /\ DOMAIN wd[DrivesAs(p, n)].ins = DOMAIN DriverOf(p, n).ins
           /\ \A j \in DOMAIN DriverOf(p, n).ins :
                wd[DrivesAs(p, n)].ins[j] = ReadsAs(c, p, DriverOf(p, n).ins[j])
      /\ \A n \in Driven(c) :
           /\ wd[OldAs(p, n)].type = c.gate[n].type
           /\ DOMAIN wd[OldAs(p, n)].ins = DOMAIN c.gate[n].ins
           /\ \A j \in DOMAIN c.gate[n].ins : wd[OldAs(p, n)].ins[j] = Net(c.gate[n].ins[j])
  <2>. HIDE DEF wd
  <2>1. wd = PatchedDrivers(c, p)
    BY DEF wd
  <2>. QED BY ONLY <2>1, IsWhole(c), IsPatch(c, p), PatchedWires
<1>0. /\ \A n \in GateOuts(p) :
           /\ wd2[EvalDrives(p, n)].type = DriverOf(p, n).type
           /\ DOMAIN wd2[EvalDrives(p, n)].ins = DOMAIN DriverOf(p, n).ins
           /\ \A j \in DOMAIN DriverOf(p, n).ins :
                wd2[EvalDrives(p, n)].ins[j] = EvalReads(c, p, DriverOf(p, n).ins[j])
      /\ \A n \in Driven(c) :
           /\ wd2[Net(n)].type = c.gate[n].type
           /\ DOMAIN wd2[Net(n)].ins = DOMAIN c.gate[n].ins
           /\ \A j \in DOMAIN c.gate[n].ins : wd2[Net(n)].ins[j] = NewAs(p, c.gate[n].ins[j])
  <2>. HIDE DEF wd2
  <2>1. wd2 = ApplyPatch(c, p)
    BY DEF wd2
  <2>. QED BY ONLY <2>1, IsWhole(c), IsPatch(c, p), AppliedWires
<1>. HIDE DEF wd, wd2, start, start2, r
<1>16. \A n \in c.nets : ~(n < 0)
  BY DEF IsWhole, IsCircuit
<1>4. \A n \in GateOuts(p) : DrivesAs(p, n) \in DOMAIN r /\ r[DrivesAs(p, n)] = EvalDrives(p, n)
  BY <1>1 DEF DrivesAs, EvalDrives, NewAs
<1>5. \A n \in c.nets : OldAs(p, n) \in DOMAIN r /\ r[OldAs(p, n)] = Net(n)
  BY <1>1 DEF OldAs, NewAs
<1>6. \A n \in Int : ReadsAs(c, p, n) \in DOMAIN r /\ r[ReadsAs(c, p, n)] = EvalReads(c, p, n)
  <2>1. SUFFICES ASSUME NEW n \in Int
                 PROVE  ReadsAs(c, p, n) \in DOMAIN r /\ r[ReadsAs(c, p, n)] = EvalReads(c, p, n)
    OBVIOUS
  <2>2. CASE n < 0 /\ -n \in Outs(p)
    <3>1. -n \in Int /\ n \notin c.nets \union Outs(p) /\ n \notin {0, 1}
      BY <1>1, <1>16, <2>2
    <3>2. ReadsAs(c, p, n) = Pre(-n)
      BY <2>2 DEF ReadsAs
    <3>3. EvalReads(c, p, n) = Net(-n)
      BY <1>1, <2>2, <3>1 DEF EvalReads, NewAs
    <3>. QED BY <1>1, <2>2, <3>2, <3>3
  <2>3. CASE ~(n < 0 /\ -n \in Outs(p)) /\ n \in Outs(p)
    <3>1. ReadsAs(c, p, n) = Net(n)
      BY <2>3 DEF ReadsAs
    <3>2. EvalReads(c, p, n) = Post(n)
      BY <1>1, <1>16, <2>3 DEF EvalReads, NewAs
    <3>. QED BY <1>1, <2>3, <3>1, <3>2 DEF NewAs
  <2>4. CASE ~(n < 0 /\ -n \in Outs(p)) /\ n \notin Outs(p) /\ n \in {0, 1} \union c.nets
    <3>1. ReadsAs(c, p, n) = Net(n)
      BY <2>4 DEF ReadsAs
    <3>2. n \in {0, 1} \union Driven(c) \union Inputs(c)
      BY <1>1, <2>4
    <3>3. EvalReads(c, p, n) = Net(n)
      BY <2>4, <3>2 DEF EvalReads, NewAs
    <3>. QED BY <1>1, <2>4, <3>1, <3>3 DEF NewAs
  <2>5. CASE ~(n < 0 /\ -n \in Outs(p)) /\ n \notin Outs(p) /\ n \notin {0, 1} \union c.nets
    <3>1. ReadsAs(c, p, n) = Wire(n)
      BY <2>5 DEF ReadsAs
    <3>2. n \notin {0, 1} \union Driven(c) \union Inputs(c)
      BY <1>1, <2>5
    <3>3. EvalReads(c, p, n) = Wire(n)
      BY <2>5, <3>2 DEF EvalReads, NewAs
    <3>. QED BY <1>1, <2>5, <3>1, <3>3
  <2>. QED BY <2>2, <2>3, <2>4, <2>5
<1>7. DOMAIN wd = {DrivesAs(p, n) : n \in GateOuts(p)} \union {OldAs(p, n) : n \in Driven(c)}
  BY DEF wd, PatchedDrivers
<1>8. DOMAIN start = {OldAs(p, n) : n \in Inputs(c)} \union {Net(0), Net(1)}
  BY DEF start, InputValues
<1>9. \A n \in Driven(c) : \A j \in DOMAIN c.gate[n].ins : c.gate[n].ins[j] \in Int
  <2>1. \A n \in Driven(c) : Ins(c, n) \subseteq Int
    BY <1>1 DEF IsWhole, IsCircuit
  <2>. QED BY <2>1 DEF Ins
<1>10. \A n \in GateOuts(p) : \A j \in DOMAIN DriverOf(p, n).ins : DriverOf(p, n).ins[j] \in Int
  BY DriverTyped
<1>11. /\ DOMAIN wd \union DOMAIN start \subseteq DOMAIN r
  BY <1>1, <1>4, <1>5, <1>7, <1>8
<1>12. ASSUME NEW w \in DOMAIN wd
       PROVE  /\ Range(wd[w].ins) \subseteq DOMAIN r
              /\ wd2[r[w]].type = wd[w].type /\ DOMAIN wd2[r[w]].ins = DOMAIN wd[w].ins
              /\ \A j \in DOMAIN wd[w].ins : wd2[r[w]].ins[j] = r[wd[w].ins[j]]
  <2>1. CASE \E n \in GateOuts(p) : w = DrivesAs(p, n)
    <3>1. PICK n \in GateOuts(p) : w = DrivesAs(p, n)
      BY <2>1
    <3>2. r[w] = EvalDrives(p, n)
      BY <1>4, <3>1
    <3>3. /\ wd[w].type = DriverOf(p, n).type /\ DOMAIN wd[w].ins = DOMAIN DriverOf(p, n).ins
          /\ \A j \in DOMAIN wd[w].ins : wd[w].ins[j] = ReadsAs(c, p, DriverOf(p, n).ins[j])
      BY <1>3, <3>1
    <3>4. /\ wd2[r[w]].type = DriverOf(p, n).type
          /\ DOMAIN wd2[r[w]].ins = DOMAIN DriverOf(p, n).ins
          /\ \A j \in DOMAIN wd2[r[w]].ins :
               wd2[r[w]].ins[j] = EvalReads(c, p, DriverOf(p, n).ins[j])
      BY <1>0, <3>2
    <3>. QED BY <1>6, <1>10, <3>3, <3>4 DEF Range
  <2>2. CASE \E n \in Driven(c) : w = OldAs(p, n)
    <3>1. PICK n \in Driven(c) : w = OldAs(p, n)
      BY <2>2
    <3>2. r[w] = Net(n)
      BY <1>1, <1>5, <3>1
    <3>3. /\ wd[w].type = c.gate[n].type /\ DOMAIN wd[w].ins = DOMAIN c.gate[n].ins
          /\ \A j \in DOMAIN wd[w].ins : wd[w].ins[j] = Net(c.gate[n].ins[j])
      BY <1>3, <3>1
    <3>4. /\ wd2[r[w]].type = c.gate[n].type /\ DOMAIN wd2[r[w]].ins = DOMAIN c.gate[n].ins
          /\ \A j \in DOMAIN wd2[r[w]].ins : wd2[r[w]].ins[j] = NewAs(p, c.gate[n].ins[j])
      BY <1>0, <3>2
    <3>. QED BY <1>1, <1>9, <3>3, <3>4 DEF Range
  <2>. QED BY <1>7, <2>1, <2>2
<1>13. \A w, x \in DOMAIN r : r[w] = r[x] => w = x
  <2>1. SUFFICES ASSUME NEW w \in DOMAIN r, NEW x \in DOMAIN r, r[w] = r[x] PROVE w = x
    OBVIOUS
  <2>2. \A m \in Int : \A n \in Int : NewAs(p, m) = NewAs(p, n) => m = n
    BY NamesDiffer DEF NewAs
  <2>3. \A m, n \in Int : NewAs(p, m) # Wire(n)
    BY NamesDiffer DEF NewAs
  <2>4. \A m \in Int : \A n \in Outs(p) : NewAs(p, m) # Net(n)
    BY NamesDiffer DEF NewAs
  <2>5. CASE \E n \in Int : w = Net(n)
    BY <1>1, <1>2, <2>1, <2>2, <2>3, <2>4, <2>5
  <2>6. CASE \E n \in Int : w = Wire(n)
    BY <1>1, <1>2, <2>1, <2>3, <2>6, NamesDiffer
  <2>7. CASE \E n \in Outs(p) : w = Pre(n)
    BY <1>1, <1>2, <2>1, <2>4, <2>7, NamesDiffer
  <2>. QED BY <1>2, <2>5, <2>6, <2>7
<1>14. ASSUME NEW w \in DOMAIN r
       PROVE  /\ w \in DOMAIN wd <=> r[w] \in DOMAIN wd2
              /\ w \in DOMAIN start <=> r[w] \in DOMAIN start2
  <2>1. CASE \E n \in Int : w = Net(n)
    BY <1>1, <2>1, WiresThere DEF wd, wd2, start, start2
  <2>2. CASE \E n \in Int : w = Wire(n)
    BY <1>1, <2>2, WiresThere DEF wd, wd2, start, start2
  <2>3. CASE \E n \in Outs(p) : w = Pre(n)
    BY <1>1, <2>3, WiresThere DEF wd, wd2, start, start2
  <2>. QED BY <1>2, <2>1, <2>2, <2>3
<1>15. \A w \in DOMAIN start : start2[r[w]] = start[w]
  <2>1. \A n \in Inputs(c) : n \notin {0, 1} /\ n \in c.nets
    BY <1>1
  <2>2. ASSUME NEW n \in Inputs(c)
        PROVE  start[OldAs(p, n)] = c.pis[n] /\ start2[Net(n)] = c.pis[n]
    <3>1. OldAs(p, n)[2] = n /\ Net(n)[2] = n
      BY DEF OldAs, Net, Pre
    <3>. QED BY <2>1, <3>1 DEF start, start2, InputValues, G1Values
  <2>3. ASSUME NEW n \in {0, 1}
        PROVE  start[Net(n)] = Const(c, n) /\ start2[Net(n)] = Const(c, n) /\ r[Net(n)] = Net(n)
    <3>1. Net(n)[2] = n
      BY DEF Net
    <3>2. r[Net(n)] = Net(n)
      BY <1>1 DEF NewAs
    <3>. QED BY <3>1, <3>2 DEF start, start2, InputValues, G1Values
  <2>. QED BY <1>5, <1>8, <2>1, <2>2, <2>3
<1>. QED BY <1>11, <1>12, <1>13, <1>14, <1>15 DEF Renames, wd, wd2, start, start2, r

LEMMA FiniteImage ==
  ASSUME NEW S, IsFiniteSet(S), NEW f, DOMAIN f = S
  PROVE  IsFiniteSet({f[x] : x \in S})
<1>1. PICK T : T = {f[x] : x \in S}
  OBVIOUS
<1>2. PICK g : g = [x \in S |-> f[x]]
  OBVIOUS
<1>3. g \in Surjection(S, T)
  BY <1>1, <1>2 DEF Surjection
<1>4. IsFiniteSet(T)
  BY ONLY <1>3, IsFiniteSet(S), FS_Surjection
<1>. QED BY <1>1, <1>4

LEMMA PatchRunnable ==
  ASSUME NEW c, NEW p, IsWhole(c), IsPatch(c, p)
  PROVE  /\ Runnable(c, PatchedDrivers(c, p), InputValues(c, p))
         /\ Runnable(c, ApplyPatch(c, p), G1Values(c))
<1>1. IsFiniteSet(GateOuts(p)) /\ IsFiniteSet(Driven(c))
  <2>1. IsFiniteSet(DOMAIN p.gates) /\ IsFiniteSet(c.nets) /\ Driven(c) \subseteq c.nets
    BY DEF IsPatch, IsWhole, IsCircuit
  <2>2. PICK f : f = [i \in DOMAIN p.gates |-> p.gates[i].out]
    OBVIOUS
  <2>3. IsFiniteSet({f[i] : i \in DOMAIN p.gates})
    BY <2>1, <2>2, FiniteImage
  <2>4. GateOuts(p) = {f[i] : i \in DOMAIN p.gates}
    BY <2>2 DEF GateOuts
  <2>. QED BY <2>1, <2>3, <2>4, FS_Subset
<1>3. /\ IsFiniteSet({DrivesAs(p, n) : n \in GateOuts(p)})
      /\ IsFiniteSet({EvalDrives(p, n) : n \in GateOuts(p)})
  <2>1. PICK f : f = [n \in GateOuts(p) |-> DrivesAs(p, n)]
    OBVIOUS
  <2>2. PICK g : g = [n \in GateOuts(p) |-> EvalDrives(p, n)]
    OBVIOUS
  <2>3. /\ {DrivesAs(p, n) : n \in GateOuts(p)} = {f[n] : n \in GateOuts(p)}
        /\ {EvalDrives(p, n) : n \in GateOuts(p)} = {g[n] : n \in GateOuts(p)}
    BY <2>1, <2>2
  <2>4. IsFiniteSet({f[n] : n \in GateOuts(p)}) /\ IsFiniteSet({g[n] : n \in GateOuts(p)})
    BY <1>1, <2>1, <2>2, FiniteImage
  <2>. QED BY <2>3, <2>4
<1>4. IsFiniteSet({OldAs(p, n) : n \in Driven(c)}) /\ IsFiniteSet({Net(n) : n \in Driven(c)})
  <2>1. PICK f : f = [n \in Driven(c) |-> OldAs(p, n)]
    OBVIOUS
  <2>2. PICK g : g = [n \in Driven(c) |-> Net(n)]
    OBVIOUS
  <2>3. /\ {OldAs(p, n) : n \in Driven(c)} = {f[n] : n \in Driven(c)}
        /\ {Net(n) : n \in Driven(c)} = {g[n] : n \in Driven(c)}
    BY <2>1, <2>2
  <2>4. IsFiniteSet({f[n] : n \in Driven(c)}) /\ IsFiniteSet({g[n] : n \in Driven(c)})
    BY <1>1, <2>1, <2>2, FiniteImage
  <2>. QED BY <2>3, <2>4
<1>5. /\ DOMAIN PatchedDrivers(c, p) = {DrivesAs(p, n) : n \in GateOuts(p)}
                                           \union {OldAs(p, n) : n \in Driven(c)}
      /\ DOMAIN ApplyPatch(c, p) = {EvalDrives(p, n) : n \in GateOuts(p)}
                                       \union {Net(n) : n \in Driven(c)}
  BY DEF PatchedDrivers, ApplyPatch
<1>6. IsFiniteSet(DOMAIN PatchedDrivers(c, p)) /\ IsFiniteSet(DOMAIN ApplyPatch(c, p))
  <2>1. \A A, B : IsFiniteSet(A) /\ IsFiniteSet(B) => IsFiniteSet(A \union B)
    BY FS_Union
  <2>. QED BY <1>3, <1>4, <1>5, <2>1
<1>7. /\ \A n \in GateOuts(p) : DriverOf(p, n).type \in GateTypes
      /\ \A n \in Driven(c) : c.gate[n].type \in GateTypes
  BY DriverTyped DEF IsWhole, IsCircuit
<1>8. \A w \in DOMAIN PatchedDrivers(c, p) : PatchedDrivers(c, p)[w].type \in GateTypes
  <2>1. /\ \A n \in GateOuts(p) : PatchedDrivers(c, p)[DrivesAs(p, n)].type = DriverOf(p, n).type
        /\ \A n \in Driven(c) : PatchedDrivers(c, p)[OldAs(p, n)].type = c.gate[n].type
    <3>1. PICK g : g = PatchedDrivers(c, p)
      OBVIOUS
    <3>. QED BY ONLY <3>1, IsWhole(c), IsPatch(c, p), PatchedWires
  <2>. QED BY <1>5, <1>7, <2>1
<1>9. \A w \in DOMAIN ApplyPatch(c, p) : ApplyPatch(c, p)[w].type \in GateTypes
  <2>1. /\ \A n \in GateOuts(p) : ApplyPatch(c, p)[EvalDrives(p, n)].type = DriverOf(p, n).type
        /\ \A n \in Driven(c) : ApplyPatch(c, p)[Net(n)].type = c.gate[n].type
    <3>1. PICK g : g = ApplyPatch(c, p)
      OBVIOUS
    <3>. QED BY ONLY <3>1, IsWhole(c), IsPatch(c, p), AppliedWires
  <2>. QED BY <1>5, <1>7, <2>1
<1>10. \A n : Const(c, n) \subseteq Patterns(c)
  BY DEF Const
<1>11. \A n \in Inputs(c) : c.pis[n] \subseteq Patterns(c) /\ n \notin {0, 1}
  BY DEF IsWhole, IsCircuit
<1>12. InputValues(c, p) \in [DOMAIN InputValues(c, p) -> SUBSET Patterns(c)]
  <2>1. \A n \in Inputs(c) : OldAs(p, n)[2] = n
    BY DEF OldAs, Net, Pre
  <2>2. Net(0)[2] = 0 /\ Net(1)[2] = 1
    BY DEF Net
  <2>. QED BY <1>10, <1>11, <2>1, <2>2 DEF InputValues
<1>13. G1Values(c) \in [DOMAIN G1Values(c) -> SUBSET Patterns(c)]
  <2>1. \A n : Net(n)[2] = n
    BY DEF Net
  <2>. QED BY <1>10, <1>11, <2>1 DEF G1Values
<1>. QED BY <1>6, <1>8, <1>9, <1>12, <1>13 DEF Runnable

(* eco's verification and the evaluator agree about every patch.           *)
LEMMA SameValues ==
  ASSUME NEW c, NEW p, IsWhole(c), IsPatch(c, p),
         NEW v, v = EvalPatched(c, p), NEW u, u = Settled(c, ApplyPatch(c, p), G1Values(c))
  PROVE  \A n \in c.nets : /\ Net(n) \in DOMAIN v <=> NewAs(p, n) \in DOMAIN u
                           /\ Net(n) \in DOMAIN v => v[Net(n)] = u[NewAs(p, n)]
<1>1. /\ IsRun(c, PatchedDrivers(c, p), InputValues(c, p), v)
      /\ IsRun(c, ApplyPatch(c, p), G1Values(c), u)
  BY PatchRunnable, SettledRuns DEF EvalPatched
<1>2. AgreeUnder(EvalNames(p), v, u)
  <2>1. Renames(PatchedDrivers(c, p), InputValues(c, p), ApplyPatch(c, p), G1Values(c),
                EvalNames(p))
    BY PatchRenames
  <2>. QED BY ONLY <1>1, <2>1, RunsAgree
<1>3. \A n \in c.nets : Net(n) \in DOMAIN EvalNames(p) /\ EvalNames(p)[Net(n)] = NewAs(p, n)
  BY EvalNamesIs
<1>. QED BY <1>2, <1>3 DEF AgreeUnder

LEMMA SameVerdict ==
  ASSUME NEW c, NEW p, IsWhole(c), IsPatch(c, p), c.pos \subseteq c.nets
  PROVE  EvaluatorPasses(c, p) <=> ~DrivesTwice(p) /\ Verified(c, p)
<1>1. PICK v : v = EvalPatched(c, p)
  OBVIOUS
<1>2. PICK u : u = Settled(c, ApplyPatch(c, p), G1Values(c))
  OBVIOUS
<1>3. \A n \in c.pos : /\ Net(n) \in DOMAIN v <=> NewAs(p, n) \in DOMAIN u
                       /\ Net(n) \in DOMAIN v => v[Net(n)] = u[NewAs(p, n)]
  BY <1>1, <1>2, SameValues
<1>4. Verified(c, p) <=> \A o \in c.pos : Net(o) \in DOMAIN v /\ v[Net(o)] = c.spec[o]
  BY <1>1 DEF Verified
<1>5. EvaluatorPasses(c, p) <=>
        /\ ~DrivesTwice(p)
        /\ \A o \in c.pos : NewAs(p, o) \in DOMAIN u /\ u[NewAs(p, o)] = c.spec[o]
  BY <1>2 DEF EvaluatorPasses
<1>. QED BY <1>3, <1>4, <1>5

-----------------------------------------------------------------------------
(* Recursion over a rank: what is computed for v needs only what has a     *)
(* smaller rank, as the values of the nodes of an AIG do.                  *)

(* H[v] gives the value in V of v from the values of what has a smaller    *)
(* rank.                                                                   *)
Graded(H, D, V, rank) ==
  /\ V # {} /\ rank \in [D -> Nat] /\ H \in [D -> [[D -> V] -> V]]
  /\ \A v \in D, f, g \in [D -> V] :
       (\A u \in D : rank[u] < rank[v] => f[u] = g[u]) => H[v][f] = H[v][g]

(* f is a solution as far as rank j.                                       *)
SolvedTo(H, D, V, rank, f, j) == f \in [D -> V] /\ \A v \in D : rank[v] < j => f[v] = H[v][f]

LEMMA GradedTo ==
  ASSUME NEW H, NEW D, NEW V, NEW rank, Graded(H, D, V, rank), NEW n \in Nat
  PROVE  \E f : SolvedTo(H, D, V, rank, f, n)
<1>. DEFINE P(j) == \E f : SolvedTo(H, D, V, rank, f, j)
            T == {j \in Nat : ~P(j)}
<1>. V # {} /\ rank \in [D -> Nat]
  BY DEF Graded
<1>1. SUFFICES ASSUME T # {} PROVE FALSE
  OBVIOUS
<1>2. PICK m \in T : \A j \in T : m <= j
  <2>1. T \subseteq Nat OBVIOUS
  <2>. HIDE DEF T
  <2>. QED BY <1>1, <2>1, Smallest
<1>3. m \in Nat /\ ~P(m)
  OBVIOUS
<1>4. m # 0
  <2>1. PICK c \in V : TRUE
    OBVIOUS
  <2>2. [v \in D |-> c] \in [D -> V]
    BY <2>1
  <2>3. \A v \in D : ~(rank[v] < 0)
    OBVIOUS
  <2>4. P(0)
    BY <2>2, <2>3 DEF SolvedTo
  <2>. QED BY <1>3, <2>4
<1>5. PICK f : SolvedTo(H, D, V, rank, f, m - 1)
  <2>1. m - 1 \in Nat /\ ~(m <= m - 1)
    BY <1>3, <1>4
  <2>2. P(m - 1)
    BY <1>2, <2>1
  <2>. QED BY <2>2
<1>. DEFINE g == [v \in D |-> IF rank[v] < m - 1 THEN f[v] ELSE H[v][f]]
<1>6. g \in [D -> V] /\ \A v \in D : g[v] = IF rank[v] < m - 1 THEN f[v] ELSE H[v][f]
  BY <1>5 DEF Graded, SolvedTo
<1>. HIDE DEF g
<1>7. ASSUME NEW v \in D, rank[v] < m PROVE g[v] = H[v][g]
  <2>0. f \in [D -> V] /\ rank[v] \in Nat
    BY <1>5 DEF SolvedTo
  <2>1. \A u \in D : rank[u] < rank[v] => f[u] = g[u]
    BY <1>3, <1>6, <1>7, <2>0
  <2>2. H[v][f] = H[v][g]
    BY <1>6, <2>0, <2>1 DEF Graded
  <2>3. g[v] = H[v][f]
    BY <1>5, <1>6 DEF SolvedTo
  <2>. QED BY <2>2, <2>3
<1>. QED BY <1>3, <1>6, <1>7 DEF SolvedTo

LEMMA GradedAgree ==
  ASSUME NEW H, NEW D, NEW V, NEW rank, Graded(H, D, V, rank), NEW m \in Nat, NEW n \in Nat,
         NEW f, SolvedTo(H, D, V, rank, f, m), NEW g, SolvedTo(H, D, V, rank, g, n),
         NEW v \in D, rank[v] < m, rank[v] < n
  PROVE  f[v] = g[v]
<1>. DEFINE T == {rank[u] : u \in {w \in D : rank[w] < m /\ rank[w] < n /\ f[w] # g[w]}}
<1>. rank \in [D -> Nat]
  BY DEF Graded
<1>1. SUFFICES ASSUME T # {} PROVE FALSE
  OBVIOUS
<1>2. PICK k \in T : \A j \in T : k <= j
  <2>1. T \subseteq Nat OBVIOUS
  <2>. HIDE DEF T
  <2>. QED BY <1>1, <2>1, Smallest
<1>3. PICK u \in D : k = rank[u] /\ rank[u] < m /\ rank[u] < n /\ f[u] # g[u]
  OBVIOUS
<1>4. \A w \in D : rank[w] < rank[u] => f[w] = g[w]
  <2>. SUFFICES ASSUME NEW w \in D, rank[w] < rank[u], f[w] # g[w] PROVE FALSE
    OBVIOUS
  <2>1. rank[w] \in T /\ ~(k <= rank[w])
    BY <1>3
  <2>. QED BY <1>2, <2>1
<1>5. f[u] = H[u][f] /\ g[u] = H[u][g] /\ f \in [D -> V] /\ g \in [D -> V]
  BY <1>3 DEF SolvedTo
<1>6. H[u][f] = H[u][g]
  BY <1>4, <1>5 DEF Graded
<1>. QED BY <1>3, <1>5, <1>6

LEMMA GradedSolved ==
  ASSUME NEW H, NEW D, NEW V, NEW rank, Graded(H, D, V, rank)
  PROVE  \E f \in [D -> V] : \A v \in D : f[v] = H[v][f]
<1>. DEFINE sol(n) == CHOOSE f : SolvedTo(H, D, V, rank, f, n)
            g == [v \in D |-> sol(rank[v] + 1)[v]]
<1>. rank \in [D -> Nat]
  BY DEF Graded
<1>1. \A n \in Nat : SolvedTo(H, D, V, rank, sol(n), n)
  BY GradedTo
<1>. HIDE DEF sol
<1>2. \A v \in D : rank[v] + 1 \in Nat /\ rank[v] < rank[v] + 1
  OBVIOUS
<1>3. g \in [D -> V] /\ \A v \in D : g[v] = sol(rank[v] + 1)[v]
  BY <1>1, <1>2 DEF SolvedTo
<1>. HIDE DEF g
<1>4. ASSUME NEW v \in D PROVE g[v] = H[v][g]
  <2>1. PICK f : f = sol(rank[v] + 1)
    OBVIOUS
  <2>2. SolvedTo(H, D, V, rank, f, rank[v] + 1)
    BY <1>1, <1>2, <2>1
  <2>3. ASSUME NEW u \in D, rank[u] < rank[v] PROVE g[u] = f[u]
    <3>1. rank[u] < rank[v] + 1
      BY <2>3
    <3>2. PICK h : h = sol(rank[u] + 1)
      OBVIOUS
    <3>3. SolvedTo(H, D, V, rank, h, rank[u] + 1)
      BY <1>1, <1>2, <3>2
    <3>4. h[u] = f[u]
      BY <1>2, <2>2, <3>1, <3>3, GradedAgree
    <3>. QED BY <1>3, <3>2, <3>4
  <2>4. f[v] = H[v][f] /\ f \in [D -> V]
    BY <1>2, <2>2 DEF SolvedTo
  <2>5. H[v][f] = H[v][g]
    BY <1>3, <2>3, <2>4 DEF Graded
  <2>. QED BY <1>3, <2>1, <2>4, <2>5
<1>. QED BY <1>3, <1>4

-----------------------------------------------------------------------------
(* AIG nodes and literals: the nodes that mkAnd makes level by level, and  *)
(* what And, Flip and the other constructors make of literals.             *)

(* The nodes that mkAnd can make over integers as ports, level by level.   *)
NodeLits(X) == [node : X, ph : {0, 1}]
BaseNodes == {Zero.node} \union {Port(p).node : p \in Int}
MoreNodes(X) ==
  X \union {AndNode(r[1], r[2]) : r \in {q \in NodeLits(X) \X NodeLits(X) : q[1] # q[2]}}

IsTower(f, n) ==
  /\ f = [i \in 0 .. n |-> f[i]] /\ f[0] = BaseNodes
  /\ \A i \in 1 .. n : f[i] = MoreNodes(f[i - 1])

NodesAt(n) == (CHOOSE f : IsTower(f, n))[n]
Nodes == UNION {NodesAt(n) : n \in Nat}
Lits == NodeLits(Nodes)

LEMMA TowerExists ==
  ASSUME NEW n \in Nat
  PROVE  \E f : IsTower(f, n)
<1>. DEFINE P(j) == \E f : IsTower(f, j)
            T == {j \in Nat : ~P(j)}
<1>1. SUFFICES ASSUME T # {} PROVE FALSE
  OBVIOUS
<1>2. PICK m \in T : \A j \in T : m <= j
  <2>1. T \subseteq Nat OBVIOUS
  <2>. HIDE DEF T
  <2>. QED BY <1>1, <2>1, Smallest
<1>3. m \in Nat /\ ~P(m)
  OBVIOUS
<1>4. m # 0
  <2>1. PICK f : f = [i \in 0 .. 0 |-> BaseNodes]
    OBVIOUS
  <2>2. f = [i \in 0 .. 0 |-> f[i]] /\ f[0] = BaseNodes
    BY <2>1
  <2>3. IsTower(f, 0)
    BY <2>2 DEF IsTower
  <2>. QED BY <1>3, <2>3
<1>5. PICK f : IsTower(f, m - 1)
  <2>1. m - 1 \in Nat /\ ~(m <= m - 1)
    BY <1>3, <1>4
  <2>2. P(m - 1)
    BY <1>2, <2>1
  <2>. QED BY <2>2
<1>6. PICK g : g = [i \in 0 .. m |-> IF i < m THEN f[i] ELSE MoreNodes(f[m - 1])]
  OBVIOUS
<1>7. g = [i \in 0 .. m |-> g[i]] /\ g[0] = BaseNodes
  BY <1>3, <1>4, <1>5, <1>6 DEF IsTower
<1>8. ASSUME NEW i \in 1 .. m PROVE g[i] = MoreNodes(g[i - 1])
  <2>1. i - 1 \in 0 .. m /\ i \in 0 .. m /\ i - 1 < m /\ (i < m => i \in 1 .. (m - 1)) /\ (~(i < m) => i = m)
    BY <1>3, <1>4
  <2>2. g[i - 1] = f[i - 1]
    BY <1>6, <2>1
  <2>3. g[i] = IF i < m THEN f[i] ELSE MoreNodes(f[m - 1])
    BY <1>6, <2>1
  <2>. QED BY <1>5, <2>1, <2>2, <2>3 DEF IsTower
<1>9. IsTower(g, m)
  BY <1>7, <1>8 DEF IsTower
<1>. QED BY <1>3, <1>9

LEMMA TowersAgree ==
  ASSUME NEW m \in Nat, NEW n \in Nat, NEW f, IsTower(f, m), NEW g, IsTower(g, n),
         NEW k \in Nat, k <= m, k <= n
  PROVE  f[k] = g[k]
<1>. DEFINE T == {i \in Nat : i <= m /\ i <= n /\ f[i] # g[i]}
<1>1. SUFFICES ASSUME T # {} PROVE FALSE
  OBVIOUS
<1>2. PICK i \in T : \A j \in T : i <= j
  <2>1. T \subseteq Nat OBVIOUS
  <2>. HIDE DEF T
  <2>. QED BY <1>1, <2>1, Smallest
<1>3. i # 0
  BY DEF IsTower
<1>4. i \in 1 .. m /\ i \in 1 .. n /\ i - 1 \in Nat /\ i - 1 <= m /\ i - 1 <= n /\ ~(i <= i - 1)
  BY <1>3
<1>5. f[i - 1] = g[i - 1]
  BY <1>2, <1>4
<1>6. f[i] = MoreNodes(f[i - 1]) /\ g[i] = MoreNodes(g[i - 1])
  BY <1>4 DEF IsTower
<1>. QED BY <1>5, <1>6

LEMMA NodesAtIs ==
  /\ NodesAt(0) = BaseNodes
  /\ \A n \in Nat : NodesAt(n + 1) = MoreNodes(NodesAt(n))
<1>1. ASSUME NEW n \in Nat PROVE \E f : IsTower(f, n) /\ NodesAt(n) = f[n]
  BY TowerExists DEF NodesAt
<1>2. NodesAt(0) = BaseNodes
  BY <1>1 DEF IsTower
<1>3. ASSUME NEW n \in Nat PROVE NodesAt(n + 1) = MoreNodes(NodesAt(n))
  <2>1. PICK f : IsTower(f, n) /\ NodesAt(n) = f[n]
    BY <1>1
  <2>2. n + 1 \in Nat /\ n <= n /\ n <= n + 1 /\ n + 1 \in 1 .. (n + 1) /\ (n + 1) - 1 = n
    OBVIOUS
  <2>3. PICK g : IsTower(g, n + 1) /\ NodesAt(n + 1) = g[n + 1]
    BY <1>1, <2>2
  <2>4. f[n] = g[n]
    BY <2>1, <2>2, <2>3, TowersAgree
  <2>5. g[n + 1] = MoreNodes(g[n])
    BY <2>2, <2>3 DEF IsTower
  <2>. QED BY <2>1, <2>3, <2>4, <2>5
<1>. QED BY <1>2, <1>3

LEMMA NodesGrow ==
  ASSUME NEW m \in Nat, NEW n \in Nat, m <= n
  PROVE  NodesAt(m) \subseteq NodesAt(n)
<1>. DEFINE T == {j \in Nat : m <= j /\ ~(NodesAt(m) \subseteq NodesAt(j))}
<1>1. SUFFICES ASSUME T # {} PROVE FALSE
  OBVIOUS
<1>2. PICK i \in T : \A j \in T : i <= j
  <2>1. T \subseteq Nat OBVIOUS
  <2>. HIDE DEF T
  <2>. QED BY <1>1, <2>1, Smallest
<1>3. i \in Nat /\ m <= i /\ i # m
  OBVIOUS
<1>4. i - 1 \in Nat /\ m <= i - 1 /\ ~(i <= i - 1) /\ (i - 1) + 1 = i
  BY <1>3
<1>5. NodesAt(m) \subseteq NodesAt(i - 1)
  BY <1>2, <1>4
<1>6. NodesAt(i) = MoreNodes(NodesAt(i - 1))
  BY <1>4, NodesAtIs
<1>. QED BY <1>5, <1>6 DEF MoreNodes

(* A node is the constant, a port, or the AND of two other literals.       *)
AndOver(x, a, b) == a \in Lits /\ b \in Lits /\ a # b /\ x = AndNode(a, b)

LEMMA NodeCases ==
  ASSUME NEW x \in Nodes
  PROVE  \/ x = Zero.node
         \/ \E p \in Int : x = Port(p).node
         \/ \E a, b : AndOver(x, a, b)
<1>. DEFINE T == {n \in Nat : x \in NodesAt(n)}
<1>1. PICK n \in T : \A j \in T : n <= j
  <2>1. T \subseteq Nat /\ T # {}
    BY DEF Nodes
  <2>. HIDE DEF T
  <2>. QED BY <2>1, Smallest
<1>2. n \in Nat /\ x \in NodesAt(n)
  OBVIOUS
<1>3. CASE n = 0
  BY <1>2, <1>3, NodesAtIs DEF BaseNodes
<1>4. CASE n # 0
  <2>1. n - 1 \in Nat /\ ~(n <= n - 1) /\ (n - 1) + 1 = n
    BY <1>2, <1>4
  <2>2. x \notin NodesAt(n - 1)
    BY <1>1, <2>1
  <2>3. x \in MoreNodes(NodesAt(n - 1))
    BY <1>2, <2>1, NodesAtIs
  <2>4. PICK r \in NodeLits(NodesAt(n - 1)) \X NodeLits(NodesAt(n - 1)) :
               r[1] # r[2] /\ x = AndNode(r[1], r[2])
    BY <2>2, <2>3 DEF MoreNodes
  <2>5. NodeLits(NodesAt(n - 1)) \subseteq Lits
    BY <2>1 DEF Lits, Nodes, NodeLits
  <2>6. r[1] \in Lits /\ r[2] \in Lits
    BY <2>4, <2>5
  <2>. QED BY <2>4, <2>6 DEF AndOver
<1>. QED BY <1>3, <1>4

LEMMA NodeMade ==
  /\ Zero.node \in Nodes /\ \A p \in Int : Port(p).node \in Nodes
  /\ \A a, b \in Lits : a # b => AndNode(a, b) \in Nodes
<1>1. BaseNodes \subseteq Nodes
  BY NodesAtIs DEF Nodes
<1>2. ASSUME NEW a \in Lits, NEW b \in Lits, a # b PROVE AndNode(a, b) \in Nodes
  <2>1. PICK m \in Nat : a.node \in NodesAt(m)
    BY DEF Lits, NodeLits, Nodes
  <2>2. PICK n \in Nat : b.node \in NodesAt(n)
    BY DEF Lits, NodeLits, Nodes
  <2>3. PICK k \in Nat : m <= k /\ n <= k
    OBVIOUS
  <2>4. a.node \in NodesAt(k) /\ b.node \in NodesAt(k)
    BY <2>1, <2>2, <2>3, NodesGrow
  <2>5. a \in NodeLits(NodesAt(k)) /\ b \in NodeLits(NodesAt(k))
    BY <2>4 DEF Lits, NodeLits
  <2>6. PICK r : r = <<a, b>>
    OBVIOUS
  <2>7. r \in NodeLits(NodesAt(k)) \X NodeLits(NodesAt(k)) /\ r[1] = a /\ r[2] = b
    BY <2>5, <2>6
  <2>8. AndNode(a, b) \in MoreNodes(NodesAt(k))
    BY <1>2, <2>7 DEF MoreNodes
  <2>. QED BY <2>8, NodesAtIs DEF Nodes
<1>. QED BY <1>1, <1>2 DEF BaseNodes

LEMMA LevelsBounded ==
  ASSUME NEW n \in Nat, NEW x \in NodesAt(n)
  PROVE  x.level \in 0 .. n
<1>. DEFINE T == {k \in Nat : \E y \in NodesAt(k) : y.level \notin 0 .. k}
<1>1. SUFFICES ASSUME T # {} PROVE FALSE
  OBVIOUS
<1>2. PICK i \in T : \A j \in T : i <= j
  <2>1. T \subseteq Nat OBVIOUS
  <2>. HIDE DEF T
  <2>. QED BY <1>1, <2>1, Smallest
<1>3. PICK y \in NodesAt(i) : y.level \notin 0 .. i
  OBVIOUS
<1>4. CASE i = 0
  <2>1. y \in BaseNodes
    BY <1>4, NodesAtIs
  <2>2. y.level = 0
    BY <2>1 DEF BaseNodes, Zero, Port, Lit
  <2>. QED BY <1>3, <1>4, <2>2
<1>5. CASE i # 0
  <2>1. i - 1 \in Nat /\ ~(i <= i - 1) /\ (i - 1) + 1 = i
    BY <1>5
  <2>2. \A z \in NodesAt(i - 1) : z.level \in 0 .. (i - 1)
    BY <1>2, <2>1
  <2>3. y \in MoreNodes(NodesAt(i - 1))
    BY <1>3, <2>1, NodesAtIs
  <2>4. y \notin NodesAt(i - 1)
    BY <1>3, <2>1, <2>2
  <2>5. PICK r \in NodeLits(NodesAt(i - 1)) \X NodeLits(NodesAt(i - 1)) :
               r[1] # r[2] /\ y = AndNode(r[1], r[2])
    BY <2>3, <2>4 DEF MoreNodes
  <2>6. r[1].node \in NodesAt(i - 1) /\ r[2].node \in NodesAt(i - 1)
    BY <2>5 DEF NodeLits
  <2>7. PICK u, v : u = r[1].node.level /\ v = r[2].node.level
    OBVIOUS
  <2>8. u \in 0 .. (i - 1) /\ v \in 0 .. (i - 1)
    BY <2>2, <2>6, <2>7
  <2>9. y.level = 1 + IF u < v THEN v ELSE u
    BY <2>5, <2>7 DEF AndNode
  <2>. QED BY <1>3, <2>1, <2>8, <2>9
<1>. QED BY <1>4, <1>5

LEMMA NodeLevel ==
  ASSUME NEW x \in Nodes
  PROVE  x.level \in Nat
<1>1. PICK n \in Nat : x \in NodesAt(n)
  BY DEF Nodes
<1>. QED BY <1>1, LevelsBounded

LEMMA LitIs ==
  /\ \A l \in Lits : l = Lit(l.node, l.ph) /\ l.ph \in {0, 1} /\ l.node \in Nodes
  /\ \A x \in Nodes, q \in {0, 1} : Lit(x, q) \in Lits
  /\ \A x, q : Lit(x, q).node = x /\ Lit(x, q).ph = q
  BY DEF Lits, NodeLits, Lit

(* The operands of an AND are two literals of lower levels.                *)
LEMMA AndFields ==
  ASSUME NEW x, NEW a, NEW b, AndOver(x, a, b)
  PROVE  /\ x.op = "and" /\ x.ins = {a, b} /\ x.level \in Nat /\ x.level # 0 /\ a # b
         /\ a \in Lits /\ b \in Lits
         /\ a.node \in Nodes /\ b.node \in Nodes
         /\ a.node.level \in Nat /\ a.node.level < x.level
         /\ b.node.level \in Nat /\ b.node.level < x.level
         /\ Operands(x) = {a.node, b.node}
<1>1. x.op = "and" /\ x.ins = {a, b}
      /\ x.level = 1 + IF a.node.level < b.node.level THEN b.node.level ELSE a.node.level
  BY DEF AndOver, AndNode
<1>2. a.node \in Nodes /\ b.node \in Nodes
  BY LitIs DEF AndOver
<1>3. PICK u, v : u = a.node.level /\ v = b.node.level
  OBVIOUS
<1>4. u \in Nat /\ v \in Nat
  BY <1>2, <1>3, NodeLevel
<1>5. x.level = 1 + IF u < v THEN v ELSE u
  BY <1>1, <1>3
<1>6. x.level \in Nat /\ x.level # 0 /\ u < x.level /\ v < x.level
  BY <1>4, <1>5
<1>7. Operands(x) = {a.node, b.node}
  BY <1>1 DEF Operands
<1>8. a # b /\ a \in Lits /\ b \in Lits
  BY DEF AndOver
<1>. QED BY ONLY <1>1, <1>2, <1>3, <1>4, <1>6, <1>7, <1>8

LEMMA LeafFields ==
  /\ Zero.node.op = "const" /\ Zero.node.level = 0 /\ Operands(Zero.node) = {}
  /\ Zero = Lit(Zero.node, 0) /\ One = Lit(Zero.node, 1)
  /\ \A p : /\ Port(p).node.op = "port" /\ Port(p).node.level = 0 /\ Port(p).node.port = p
            /\ Operands(Port(p).node) = {} /\ Port(p) = Lit(Port(p).node, 0)
  BY DEF Zero, One, Port, Lit, Operands

LEMMA NodeOps ==
  ASSUME NEW x \in Nodes
  PROVE  /\ x.op \in {"const", "port", "and"}
         /\ x.op = "const" => x = Zero.node
         /\ x.op = "port" => x.port \in Int /\ x = Port(x.port).node
         /\ x.op = "and" => \E a, b : AndOver(x, a, b)
<1>1. CASE x = Zero.node
  BY <1>1, LeafFields
<1>2. ASSUME NEW p \in Int, x = Port(p).node
      PROVE  x.op = "port" /\ x.port \in Int /\ x = Port(x.port).node
  BY <1>2, LeafFields
<1>3. ASSUME NEW a, NEW b, AndOver(x, a, b)
      PROVE  x.op = "and"
  BY <1>3, AndFields
<1>. QED BY <1>1, <1>2, <1>3, NodeCases

LEMMA LitsMade ==
  /\ Zero \in Lits /\ One \in Lits /\ NoLit \notin Lits /\ Zero # One
  /\ \A p \in Int : Port(p) \in Lits
  /\ \A l \in Lits : /\ Not(l) \in Lits /\ Not(Not(l)) = l /\ Not(l) # l
                     /\ Not(l).node = l.node /\ Not(l).ph = 1 - l.ph
                     /\ \A q \in {0, 1} : Flip(l, q) \in Lits
                     /\ Positive(l) \in Lits
<1>1. Zero \in Lits /\ One \in Lits /\ Zero # One /\ \A p \in Int : Port(p) \in Lits
  BY NodeMade, LitIs, LeafFields
<1>2. NoLit \notin Lits
  <2>1. NoLit.node.op = "none"
    BY DEF NoLit, Lit
  <2>2. NoLit \in Lits => NoLit.node.op \in {"const", "port", "and"}
    BY LitIs, NodeOps
  <2>. QED BY <2>1, <2>2
<1>3. ASSUME NEW l \in Lits
      PROVE  /\ Not(l) \in Lits /\ Not(Not(l)) = l /\ Not(l) # l /\ Positive(l) \in Lits
             /\ Not(l).node = l.node /\ Not(l).ph = 1 - l.ph
  <2>1. l = Lit(l.node, l.ph) /\ l.ph \in {0, 1} /\ l.node \in Nodes
    BY LitIs
  <2>2. 1 - l.ph \in {0, 1} /\ 1 - (1 - l.ph) = l.ph /\ 1 - l.ph # l.ph
    BY <2>1
  <2>. QED BY <2>1, <2>2, LitIs DEF Not, Positive
<1>4. \A l \in Lits : \A q \in {0, 1} : Flip(l, q) \in Lits
  BY <1>3 DEF Flip
<1>. QED BY <1>1, <1>2, <1>3, <1>4

LEMMA LitsAnd ==
  ASSUME NEW a \in Lits, NEW b \in Lits
  PROVE  And(a, b) \in Lits
<1>1. a # b => Lit(AndNode(a, b), 0) \in Lits
  BY NodeMade, LitIs
<1>. QED BY <1>1, LitsMade DEF And

LEMMA LitsOr ==
  ASSUME NEW a \in Lits, NEW b \in Lits
  PROVE  Or(a, b) \in Lits /\ Xor(a, b) \in Lits /\ \A s \in Lits : Mux(s, a, b) \in Lits
<1>1. ASSUME NEW u \in Lits, NEW v \in Lits PROVE Or(u, v) \in Lits
  <2>1. And(Not(u), Not(v)) \in Lits
    BY LitsMade, LitsAnd
  <2>. QED BY <2>1, LitsMade DEF Or
<1>2. Xor(a, b) \in Lits
  <2>1. And(a, Not(b)) \in Lits /\ And(Not(a), b) \in Lits
    BY LitsMade, LitsAnd
  <2>. QED BY <1>1, <2>1 DEF Xor
<1>3. ASSUME NEW s \in Lits PROVE Mux(s, a, b) \in Lits
  <2>1. And(s, a) \in Lits /\ And(Not(s), b) \in Lits
    BY LitsMade, LitsAnd
  <2>. QED BY <1>1, <2>1 DEF Mux
<1>. QED BY <1>1, <1>2, <1>3

(* A set of nodes that has the operands of its nodes.                      *)
Downward(X) == \A x \in X : Operands(x) \subseteq X

Widened(X) == X \union UNION {Operands(x) : x \in X}

LEMMA OperandsNodes ==
  ASSUME NEW x \in Nodes
  PROVE  /\ Operands(x) \subseteq Nodes
         /\ \A y \in Operands(x) : y.level \in Nat /\ x.level \in Nat /\ y.level < x.level
<1>1. ASSUME NEW a, NEW b, AndOver(x, a, b)
      PROVE  /\ Operands(x) \subseteq Nodes
             /\ \A y \in Operands(x) : y.level \in Nat /\ x.level \in Nat /\ y.level < x.level
  BY <1>1, AndFields
<1>2. x.op # "and" => Operands(x) = {}
  BY DEF Operands
<1>. QED BY <1>1, <1>2, NodeOps

(* The nodes of a literal: the least such set with its node.               *)
LEMMA ConeGrown ==
  ASSUME NEW l \in Lits
  PROVE  LET V == SUBSET Nodes  G == [X \in V |-> Widened(X)] IN
         \E f : IsIteration(f, {l.node}, G, V, l.node.level) /\ Cone(l) = f[l.node.level]
<1>. DEFINE V == SUBSET Nodes
            G == [X \in V |-> Widened(X)]
            n == l.node.level
<1>1. l.node \in Nodes /\ n \in Nat
  BY LitIs, NodeLevel
<1>2. G \in [V -> V] /\ \A X \in V : G[X] = Widened(X)
  BY OperandsNodes DEF Widened
<1>. HIDE DEF G
<1>3. {l.node} \in V
  BY <1>1
<1>4. PICK f : IsIteration(f, {l.node}, G, V, n)
  <2>. HIDE DEF V, n
  <2>. QED BY <1>1, <1>2, <1>3, IterationExists
<1>. DEFINE Is(h) == h = [i \in 0 .. n |-> IF i = 0 THEN {l.node}
                            ELSE h[i - 1] \union UNION {Operands(x) : x \in h[i - 1]}]
<1>5. \A h : Is(h) => IsIteration(h, {l.node}, G, V, n)
  <2>. SUFFICES ASSUME NEW h, Is(h) PROVE IsIteration(h, {l.node}, G, V, n)
    OBVIOUS
  <2>1. h[0] = {l.node} /\ DOMAIN h = 0 .. n /\ h = [i \in 0 .. n |-> h[i]]
    BY <1>1
  <2>2. \A i \in 1 .. n : i \in 0 .. n /\ i - 1 \in 0 .. n /\ i # 0
    BY <1>1
  <2>3. \A i \in 1 .. n : h[i] = Widened(h[i - 1])
    BY <2>2 DEF Widened
  <2>. DEFINE T == {i \in 0 .. n : h[i] \notin V}
  <2>4. T = {}
    <3>1. SUFFICES ASSUME T # {} PROVE FALSE
      OBVIOUS
    <3>2. PICK i \in T : \A j \in T : i <= j
      <4>1. T \subseteq Nat OBVIOUS
      <4>. HIDE DEF T
      <4>. QED BY <3>1, <4>1, Smallest
    <3>3. i \in 1 .. n /\ i - 1 \in 0 .. n /\ ~(i <= i - 1)
      BY <1>1, <1>3, <2>1
    <3>4. h[i - 1] \in V
      BY <3>2, <3>3
    <3>5. h[i] \in V
      <4>1. PICK X \in V : X = h[i - 1]
        BY <3>4
      <4>2. G[X] = Widened(X) /\ G[X] \in V
        <5>. HIDE DEF V
        <5>. QED BY <1>2
      <4>3. h[i] = Widened(X)
        BY <2>3, <3>3, <4>1
      <4>. QED BY <4>2, <4>3
    <3>. QED BY <3>5
  <2>5. h \in [0 .. n -> V]
    BY <2>1, <2>4
  <2>6. \A i \in 1 .. n : h[i] = G[h[i - 1]]
    BY <1>2, <2>2, <2>3, <2>5
  <2>. QED BY <1>1, <1>2, <1>3, <2>1, <2>5, <2>6 DEF IsIteration
<1>6. Is(f)
  <2>1. f = [i \in 0 .. n |-> f[i]] /\ f[0] = {l.node}
        /\ \A i \in 1 .. n : f[i - 1] \in V /\ f[i] = G[f[i - 1]]
    BY <1>1, <1>4 DEF IsIteration
  <2>2. \A i \in 1 .. n : f[i] = f[i - 1] \union UNION {Operands(x) : x \in f[i - 1]}
    BY <1>2, <2>1 DEF Widened
  <2>3. \A i \in 0 .. n : i # 0 => i \in 1 .. n
    BY <1>1
  <2>4. \A i \in 0 .. n : f[i] = IF i = 0 THEN {l.node}
                            ELSE f[i - 1] \union UNION {Operands(x) : x \in f[i - 1]}
    BY <2>1, <2>2, <2>3
  <2>. QED BY <2>1, <2>4
<1>7. PICK g : g = CHOOSE h : Is(h)
  OBVIOUS
<1>8. Is(g)
  BY <1>6, <1>7
<1>9. Cone(l) = g[n]
  BY <1>7 DEF Cone
<1>. QED BY <1>2, <1>5, <1>8, <1>9

LEMMA ConeIs ==
  ASSUME NEW l \in Lits
  PROVE  /\ Cone(l) \subseteq Nodes /\ l.node \in Cone(l) /\ Downward(Cone(l))
         /\ \A X : l.node \in X /\ Downward(X) => Cone(l) \subseteq X
         /\ \A x \in Cone(l) : x.level \in Nat /\ x.level <= l.node.level
<1>. DEFINE V == SUBSET Nodes
            G == [X \in V |-> Widened(X)]
<1>0. PICK n : n = l.node.level
  OBVIOUS
<1>1. PICK f : IsIteration(f, {l.node}, G, V, n) /\ Cone(l) = f[n]
  BY <1>0, ConeGrown
<1>2. l.node \in Nodes /\ n \in Nat
  BY <1>0, LitIs, NodeLevel
<1>3. \A X \in V : G[X] = Widened(X)
  OBVIOUS
<1>. HIDE DEF G, V
<1>4. n \in 0 .. n
  BY <1>2
<1>. DEFINE K == {X \in V : l.node \in X /\ \A x \in X : x.level \in Nat /\ x.level <= n}
<1>5. Cone(l) \in K
  <2>1. {l.node} \in K
    BY <1>0, <1>1, <1>2 DEF IsIteration
  <2>2. ASSUME NEW X \in V, X \in K PROVE G[X] \in K
    <3>1. G[X] \in V
      BY <1>1 DEF IsIteration
    <3>2. \A x \in X : x \in Nodes
      BY DEF V
    <3>3. ASSUME NEW y \in G[X] PROVE y.level \in Nat /\ y.level <= n
      <4>1. CASE y \in X
        BY <2>2, <4>1
      <4>2. CASE y \notin X
        <5>1. PICK x \in X : y \in Operands(x)
          BY <1>3, <4>2 DEF Widened
        <5>2. y.level \in Nat /\ x.level \in Nat /\ y.level < x.level /\ x.level <= n
          BY <2>2, <3>2, <5>1, OperandsNodes
        <5>. QED BY <1>2, <5>2
      <4>. QED BY <4>1, <4>2
    <3>4. l.node \in G[X]
      BY <1>3, <2>2 DEF Widened
    <3>. QED BY <3>1, <3>3, <3>4
  <2>3. \A i \in 0 .. n : f[i] \in K
    <3>. HIDE DEF K
    <3>. QED BY <1>1, <2>1, <2>2, IterationKeeps
  <2>. QED BY <1>1, <1>4, <2>3
<1>6. ASSUME NEW X, l.node \in X, Downward(X) PROVE Cone(l) \subseteq X
  <2>. DEFINE S == SUBSET X
  <2>1. {l.node} \in S
    BY <1>6
  <2>2. \A Y \in V : Y \in S => G[Y] \in S
    BY <1>3, <1>6 DEF Downward, Widened
  <2>3. \A i \in 0 .. n : f[i] \in S
    <3>. HIDE DEF S
    <3>. QED BY <1>1, <2>1, <2>2, IterationKeeps
  <2>. QED BY <1>1, <1>4, <2>3
<1>. DEFINE Open(i) == \E x \in f[i] : ~(Operands(x) \subseteq f[i]) /\ x.level + i > n
            T == {i \in 0 .. n : Open(i)}
<1>7. T = {}
  <2>1. SUFFICES ASSUME T # {} PROVE FALSE
    OBVIOUS
  <2>2. PICK i \in T : \A j \in T : i <= j
    <3>1. T \subseteq Nat OBVIOUS
    <3>. HIDE DEF T
    <3>. QED BY <2>1, <3>1, Smallest
  <2>3. PICK x \in f[i] : ~(Operands(x) \subseteq f[i]) /\ x.level + i > n
    OBVIOUS
  <2>4. i \in 0 .. n /\ f[i] \in V /\ x \in Nodes /\ x.level \in Nat
    BY <1>1, NodeLevel DEF IsIteration, V
  <2>5. CASE i = 0
    <3>1. x = l.node
      BY <1>1, <2>5 DEF IsIteration
    <3>. QED BY <1>0, <1>2, <2>3, <2>5, <3>1
  <2>6. CASE i # 0
    <3>1. i - 1 \in 0 .. n /\ i \in 1 .. n /\ ~(i <= i - 1)
      BY <1>2, <2>4, <2>6
    <3>2. f[i - 1] \in V /\ f[i] = Widened(f[i - 1])
      BY <1>1, <1>3, <3>1 DEF IsIteration
    <3>3. x \notin f[i - 1]
      BY <2>3, <3>2 DEF Widened
    <3>4. PICK y \in f[i - 1] : x \in Operands(y)
      BY <3>2, <3>3 DEF Widened
    <3>5. y \in Nodes
      BY <3>2 DEF V
    <3>6. x.level < y.level /\ y.level \in Nat
      BY <3>4, <3>5, OperandsNodes
    <3>7. ~(Operands(y) \subseteq f[i - 1])
      BY <3>3, <3>4
    <3>8. ~(y.level + (i - 1) > n)
      BY <2>2, <3>1, <3>4, <3>7
    <3>. QED BY <1>2, <2>3, <2>4, <3>6, <3>8
  <2>. QED BY <2>5, <2>6
<1>8. Downward(Cone(l))
  <2>. SUFFICES ASSUME NEW x \in f[n], ~(Operands(x) \subseteq f[n]) PROVE FALSE
    BY <1>1 DEF Downward
  <2>1. f[n] \in V /\ x \in Nodes /\ x.level \in Nat
    BY <1>1, <1>4, NodeLevel DEF IsIteration, V
  <2>2. ~(x.level + n > n)
    BY <1>4, <1>7
  <2>3. x.level = 0
    BY <1>2, <2>1, <2>2
  <2>4. PICK y \in Operands(x) : TRUE
    OBVIOUS
  <2>5. y.level \in Nat /\ y.level < x.level
    BY <2>1, <2>4, OperandsNodes
  <2>. QED BY <2>3, <2>5
<1>. QED BY <1>0, <1>5, <1>6, <1>8 DEF V

LEMMA LiteralIn ==
  ASSUME NEW l, IsLiteral(l)
  PROVE  l \in Lits
<1>. DEFINE C == Cone(l)
            T == {x.level : x \in {y \in C : y \notin Nodes}}
<1>1. \A x \in C : IsNode(x, C)
  BY DEF IsLiteral
<1>2. ASSUME NEW x \in C PROVE x.level \in Nat
  <2>1. x = Zero.node => x.level \in Nat
    BY LeafFields
  <2>2. \A p \in Int : x = Port(p).node => x.level \in Nat
    BY LeafFields
  <2>. QED BY <1>1, <2>1, <2>2 DEF IsNode
<1>3. T = {}
  <2>1. SUFFICES ASSUME T # {} PROVE FALSE
    OBVIOUS
  <2>2. PICK k \in T : \A j \in T : k <= j
    <3>1. T \subseteq Nat
      BY <1>2
    <3>. HIDE DEF T
    <3>. QED BY <2>1, <3>1, Smallest
  <2>3. PICK x \in C : x \notin Nodes /\ k = x.level
    OBVIOUS
  <2>4. x # Zero.node /\ \A p \in Int : x # Port(p).node
    BY <2>3, NodeMade
  <2>5. PICK a \in x.ins, b \in x.ins : a # b /\ x = AndNode(a, b)
    BY <1>1, <2>4 DEF IsNode
  <2>6. \A i \in {a, b} : i = Lit(i.node, i.ph) /\ i.ph \in {0, 1} /\ i.node \in C
    BY <1>1, <2>4, <2>5 DEF IsNode
  <2>7. x.level = 1 + IF a.node.level < b.node.level THEN b.node.level ELSE a.node.level
    BY <2>5 DEF AndNode
  <2>8. a.node.level \in Nat /\ b.node.level \in Nat
    BY <1>2, <2>6
  <2>9. a.node.level < x.level /\ b.node.level < x.level /\ x.level \in Nat
    BY <2>7, <2>8
  <2>10. \A i \in {a, b} : i.node \in Nodes
    <3>. SUFFICES ASSUME NEW i \in {a, b}, i.node \notin Nodes PROVE FALSE
      OBVIOUS
    <3>1. i.node.level \in T
      BY <2>6
    <3>2. i.node.level < x.level /\ i.node.level \in Nat
      BY <2>8, <2>9
    <3>. QED BY <2>2, <2>3, <2>9, <3>1, <3>2
  <2>11. a \in Lits /\ b \in Lits
    BY <2>6, <2>10, LitIs
  <2>. QED BY <2>3, <2>5, <2>11, NodeMade
<1>4. l.node \in Nodes
  BY <1>3 DEF IsLiteral
<1>. QED BY <1>4, LitIs DEF IsLiteral

-----------------------------------------------------------------------------
(* Values.                                                                 *)

Suited(pats, val, l) == \A q \in PortsOf(l) : val[q] \subseteq pats

IsTerm(pats, val, D, base) ==
  base \in [D -> SUBSET pats] /\ \A x \in D : base[x] = NodeValue(pats, val, base, x)

LEMMA TermBase ==
  ASSUME NEW pats, NEW val, NEW l \in Lits, Suited(pats, val, l)
  PROVE  \E base : /\ IsTerm(pats, val, Cone(l), base)
                   /\ TermValue(pats, val, l) = Phased(pats, base[l.node], l.ph)
<1>. DEFINE D == Cone(l)
            V == SUBSET pats
            rank == [x \in D |-> x.level]
            H == [x \in D |-> [f \in [D -> V] |-> NodeValue(pats, val, f, x)]]
<1>1. D \subseteq Nodes /\ l.node \in D /\ Downward(D) /\ \A x \in D : x.level \in Nat
  BY ConeIs
<1>2. ASSUME NEW x \in D, NEW f \in [D -> V] PROVE NodeValue(pats, val, f, x) \in V
  <2>1. CASE x.op = "const"
    BY <2>1 DEF NodeValue
  <2>2. CASE x.op = "port"
    <3>1. x.port \in PortsOf(l)
      BY <2>2 DEF PortsOf
    <3>. QED BY <2>2, <3>1 DEF NodeValue, Suited
  <2>3. CASE x.op = "and"
    BY <2>3 DEF NodeValue
  <2>. QED BY <1>1, <2>1, <2>2, <2>3, NodeOps
<1>3. ASSUME NEW x \in D, NEW f \in [D -> V], NEW g \in [D -> V],
             \A u \in D : rank[u] < rank[x] => f[u] = g[u]
      PROVE  NodeValue(pats, val, f, x) = NodeValue(pats, val, g, x)
  <2>1. x \in Nodes /\ Operands(x) \subseteq D
    BY <1>1 DEF Downward
  <2>2. \A y \in Operands(x) : f[y] = g[y]
    BY <1>3, <2>1, OperandsNodes
  <2>3. x.op = "and" => \A i \in x.ins : f[i.node] = g[i.node]
    BY <2>2 DEF Operands
  <2>4. x.op # "and" => NodeValue(pats, val, f, x) = NodeValue(pats, val, g, x)
    <3>1. x.op \in {"const", "port", "and"}
      BY <2>1, NodeOps
    <3>. QED BY <3>1 DEF NodeValue
  <2>5. x.op = "and" => NodeValue(pats, val, f, x) = NodeValue(pats, val, g, x)
    BY <2>3 DEF NodeValue
  <2>. QED BY <2>4, <2>5
<1>4. Graded(H, D, V, rank)
  <2>1. V # {} /\ rank \in [D -> Nat]
    BY <1>1
  <2>2. H \in [D -> [[D -> V] -> V]]
    <3>. HIDE DEF D, V
    <3>. QED BY <1>2
  <2>3. \A x \in D, f, g \in [D -> V] :
          (\A u \in D : rank[u] < rank[x] => f[u] = g[u]) => H[x][f] = H[x][g]
    <3>. HIDE DEF D, V, rank
    <3>. QED BY <1>3
  <2>. HIDE DEF D, V, H, rank
  <2>. QED BY <2>1, <2>2, <2>3 DEF Graded
<1>5. PICK base \in [D -> V] : \A x \in D : base[x] = H[x][base]
  <2>. HIDE DEF D, V, H, rank
  <2>. QED BY <1>4, GradedSolved
<1>. DEFINE Is(h) == h = [x \in D |-> NodeValue(pats, val, h, x)]
<1>6. Is(base)
  <2>1. \A x \in D : base[x] = NodeValue(pats, val, base, x)
    <3>. HIDE DEF D, V
    <3>. QED BY <1>5
  <2>. QED BY <1>5, <2>1
<1>7. PICK h : h = CHOOSE g : Is(g)
  OBVIOUS
<1>8. Is(h)
  BY <1>6, <1>7
<1>9. TermValue(pats, val, l) = Phased(pats, h[l.node], l.ph)
  BY <1>7 DEF TermValue
<1>10. IsTerm(pats, val, D, h)
  <2>1. \A x \in D : h[x] = NodeValue(pats, val, h, x)
    BY <1>8
  <2>2. DOMAIN h = D /\ h = [x \in D |-> h[x]]
    BY <1>8
  <2>. DEFINE T == {x.level : x \in {y \in D : h[y] \notin V}}
  <2>3. T = {}
    <3>1. SUFFICES ASSUME T # {} PROVE FALSE
      OBVIOUS
    <3>2. PICK k \in T : \A j \in T : k <= j
      <4>1. T \subseteq Nat
        BY <1>1
      <4>. HIDE DEF T
      <4>. QED BY <3>1, <4>1, Smallest
    <3>3. PICK x \in D : h[x] \notin V /\ k = x.level
      OBVIOUS
    <3>4. x.op \in {"const", "port", "and"}
      BY <1>1, NodeOps
    <3>5. x.op = "port" => x.port \in PortsOf(l)
      BY DEF PortsOf
    <3>6. NodeValue(pats, val, h, x) \in V
      BY <3>4, <3>5 DEF NodeValue, Suited
    <3>. QED BY <2>1, <3>3, <3>6
  <2>4. h \in [D -> V]
    BY <2>2, <2>3
  <2>. QED BY <2>1, <2>4 DEF IsTerm
<1>. QED BY <1>9, <1>10

-----------------------------------------------------------------------------
(* The values of AIG literals, and what a literal means: its value when    *)
(* the ports have given values.                                            *)

(* f gives the nodes of D their values, for val of the ports.              *)
Fits(pats, val, D, f) == D \subseteq Nodes /\ Downward(D) /\ IsTerm(pats, val, D, f)
SamePorts(val, w, D) == \A x \in D : x.op = "port" => val[x.port] = w[x.port]

LEMMA BasesAgree ==
  ASSUME NEW pats, NEW val, NEW D, NEW f, Fits(pats, val, D, f),
         NEW w, NEW E, NEW g, Fits(pats, w, E, g), SamePorts(val, w, D),
         NEW x, x \in D, x \in E
  PROVE  f[x] = g[x]
<1>. USE DEF Fits, SamePorts
<1>. DEFINE T == {y.level : y \in {z \in D \intersect E : f[z] # g[z]}}
<1>1. SUFFICES ASSUME T # {} PROVE FALSE
  OBVIOUS
<1>2. PICK k \in T : \A j \in T : k <= j
  <2>1. T \subseteq Nat
    BY NodeLevel
  <2>. HIDE DEF T
  <2>. QED BY <1>1, <2>1, Smallest
<1>3. PICK y \in D \intersect E : f[y] # g[y] /\ k = y.level
  OBVIOUS
<1>4. y \in Nodes /\ Operands(y) \subseteq D \intersect E
  BY <1>3 DEF Downward
<1>5. \A z \in Operands(y) : f[z] = g[z]
  <2>. SUFFICES ASSUME NEW z \in Operands(y), f[z] # g[z] PROVE FALSE
    OBVIOUS
  <2>1. z.level \in T
    BY <1>4
  <2>2. z.level \in Nat /\ y.level \in Nat /\ z.level < y.level
    BY <1>4, OperandsNodes
  <2>. QED BY <1>2, <1>3, <2>1, <2>2
<1>6. y.op = "and" => \A i \in y.ins : f[i.node] = g[i.node]
  BY <1>5 DEF Operands
<1>7. f[y] = NodeValue(pats, val, f, y) /\ g[y] = NodeValue(pats, w, g, y)
  BY <1>3 DEF IsTerm
<1>8. CASE y.op = "and"
  BY <1>3, <1>6, <1>7, <1>8 DEF NodeValue
<1>9. CASE y.op # "and"
  <2>1. y.op \in {"const", "port"}
    BY <1>4, <1>9, NodeOps
  <2>. QED BY <1>3, <1>7, <2>1 DEF NodeValue
<1>. QED BY <1>8, <1>9

(* Only the ports of a literal matter to its value.                        *)
LEMMA TermSame ==
  ASSUME NEW pats, NEW val, NEW l \in Lits, Suited(pats, val, l),
         NEW w, \A q \in PortsOf(l) : val[q] = w[q]
  PROVE  TermValue(pats, val, l) = TermValue(pats, w, l)
<1>1. Suited(pats, w, l)
  BY DEF Suited
<1>2. PICK f : IsTerm(pats, val, Cone(l), f) /\ TermValue(pats, val, l) = Phased(pats, f[l.node], l.ph)
  BY TermBase
<1>3. PICK g : IsTerm(pats, w, Cone(l), g) /\ TermValue(pats, w, l) = Phased(pats, g[l.node], l.ph)
  BY <1>1, TermBase
<1>4. \A x \in Cone(l) : x.op = "port" => val[x.port] = w[x.port]
  BY DEF PortsOf
<1>5. Fits(pats, val, Cone(l), f) /\ Fits(pats, w, Cone(l), g) /\ l.node \in Cone(l)
  BY <1>2, <1>3, ConeIs DEF Fits
<1>6. SamePorts(val, w, Cone(l))
  BY <1>4 DEF SamePorts
<1>7. f[l.node] = g[l.node]
  BY ONLY <1>5, <1>6, BasesAgree
<1>. QED BY <1>2, <1>3, <1>7

LEMMA ConeSub ==
  ASSUME NEW x, NEW a, NEW b, AndOver(x, a, b), NEW q \in {0, 1}
  PROVE  /\ Lit(x, q) \in Lits
         /\ Cone(a) \subseteq Cone(Lit(x, q)) /\ Cone(b) \subseteq Cone(Lit(x, q))
         /\ Cone(Lit(x, q)) = {x} \union Cone(a) \union Cone(b)
<1>. DEFINE l == Lit(x, q)
            X == {x} \union Cone(a) \union Cone(b)
<1>1. x \in Nodes /\ a \in Lits /\ b \in Lits /\ Operands(x) = {a.node, b.node}
  BY AndFields, NodeMade DEF AndOver
<1>2. l \in Lits /\ l.node = x
  BY <1>1, LitIs
<1>. HIDE DEF l
<1>3. x \in Cone(l) /\ Downward(Cone(l))
  BY <1>2, ConeIs
<1>4. a.node \in Cone(l) /\ b.node \in Cone(l)
  BY <1>1, <1>3 DEF Downward
<1>5. Cone(a) \subseteq Cone(l) /\ Cone(b) \subseteq Cone(l)
  BY <1>1, <1>3, <1>4, ConeIs
<1>6. a.node \in Cone(a) /\ b.node \in Cone(b) /\ Downward(Cone(a)) /\ Downward(Cone(b))
  BY <1>1, ConeIs
<1>7. Downward(X)
  BY <1>1, <1>6 DEF Downward
<1>8. Cone(l) \subseteq X
  BY <1>2, <1>7, ConeIs
<1>. QED BY <1>2, <1>3, <1>5, <1>8 DEF l

LEMMA ConeLeaf ==
  ASSUME NEW l \in Lits, Operands(l.node) = {}
  PROVE  Cone(l) = {l.node}
<1>1. Downward({l.node})
  BY DEF Downward
<1>. QED BY <1>1, ConeIs

(* The ports of a literal.                                                 *)
LEMMA PortsAre ==
  /\ PortsOf(Zero) = {} /\ PortsOf(One) = {} /\ \A p \in Int : PortsOf(Port(p)) = {p}
  /\ \A l \in Lits : /\ PortsOf(l) \subseteq Int
                     /\ \A q : PortsOf(Lit(l.node, q)) = PortsOf(l)
                     /\ PortsOf(Not(l)) = PortsOf(l) /\ PortsOf(Positive(l)) = PortsOf(l)
                     /\ \A q : PortsOf(Flip(l, q)) = PortsOf(l)
  /\ \A x, a, b, q : AndOver(x, a, b) /\ q \in {0, 1} =>
       PortsOf(Lit(x, q)) = PortsOf(a) \union PortsOf(b)
<1>1. Cone(Zero) = {Zero.node} /\ Cone(One) = {Zero.node}
  BY LitsMade, ConeLeaf, LeafFields, LitIs
<1>2. PortsOf(Zero) = {} /\ PortsOf(One) = {}
  BY <1>1, LeafFields DEF PortsOf
<1>3. ASSUME NEW p \in Int PROVE PortsOf(Port(p)) = {p}
  <2>1. Cone(Port(p)) = {Port(p).node}
    BY LitsMade, ConeLeaf, LeafFields
  <2>. QED BY <2>1, LeafFields DEF PortsOf
<1>4. ASSUME NEW l \in Lits
      PROVE  /\ PortsOf(l) \subseteq Int
             /\ \A q : PortsOf(Lit(l.node, q)) = PortsOf(l)
             /\ PortsOf(Not(l)) = PortsOf(l) /\ PortsOf(Positive(l)) = PortsOf(l)
             /\ \A q : PortsOf(Flip(l, q)) = PortsOf(l)
  <2>1. Cone(l) \subseteq Nodes
    BY ConeIs
  <2>2. PortsOf(l) \subseteq Int
    BY <2>1, NodeOps DEF PortsOf
  <2>3. ASSUME NEW q PROVE PortsOf(Lit(l.node, q)) = PortsOf(l)
    <3>1. Lit(l.node, q).node = l.node
      BY LitIs
    <3>2. Cone(Lit(l.node, q)) = Cone(l)
      BY <3>1 DEF Cone
    <3>. QED BY <3>2 DEF PortsOf
  <2>4. PortsOf(Not(l)) = PortsOf(l) /\ PortsOf(Positive(l)) = PortsOf(l)
    BY <2>3 DEF Not, Positive
  <2>5. \A q : PortsOf(Flip(l, q)) = PortsOf(l)
    BY <2>4 DEF Flip
  <2>. QED BY <2>2, <2>3, <2>4, <2>5
<1>5. ASSUME NEW x, NEW a, NEW b, NEW q, AndOver(x, a, b), q \in {0, 1}
      PROVE  PortsOf(Lit(x, q)) = PortsOf(a) \union PortsOf(b)
  <2>1. Cone(Lit(x, q)) = {x} \union Cone(a) \union Cone(b)
    BY <1>5, ConeSub
  <2>2. x.op # "port"
    BY <1>5, AndFields
  <2>. QED BY <2>1, <2>2 DEF PortsOf
<1>. QED BY <1>2, <1>3, <1>4, <1>5

-----------------------------------------------------------------------------
(* The value of a literal from those of what it is made of.                *)
LEMMA TermTyped ==
  ASSUME NEW pats, NEW val, NEW l \in Lits, Suited(pats, val, l)
  PROVE  TermValue(pats, val, l) \subseteq pats
<1>1. PICK f : IsTerm(pats, val, Cone(l), f) /\ TermValue(pats, val, l) = Phased(pats, f[l.node], l.ph)
  BY TermBase
<1>2. f[l.node] \subseteq pats
  BY <1>1, ConeIs DEF IsTerm
<1>. QED BY <1>1, <1>2 DEF Phased

LEMMA TermNot ==
  ASSUME NEW pats, NEW val, NEW l \in Lits, Suited(pats, val, l)
  PROVE  /\ Suited(pats, val, Not(l))
         /\ TermValue(pats, val, Not(l)) = pats \ TermValue(pats, val, l)
<1>1. Suited(pats, val, Not(l))
  BY PortsAre DEF Suited
<1>2. Not(l).node = l.node /\ Not(l).ph = 1 - l.ph /\ l.ph \in {0, 1} /\ Not(l) \in Lits
  BY LitsMade, LitIs
<1>3. PICK f : IsTerm(pats, val, Cone(l), f) /\ TermValue(pats, val, l) = Phased(pats, f[l.node], l.ph)
  BY TermBase
<1>4. PICK g : /\ IsTerm(pats, val, Cone(Not(l)), g)
               /\ TermValue(pats, val, Not(l)) = Phased(pats, g[Not(l).node], Not(l).ph)
  BY <1>1, <1>2, TermBase
<1>5. Cone(Not(l)) = Cone(l)
  BY <1>2 DEF Cone
<1>6. f[l.node] = g[l.node]
  <2>1. Fits(pats, val, Cone(l), f) /\ Fits(pats, val, Cone(l), g) /\ l.node \in Cone(l)
    BY <1>3, <1>4, <1>5, ConeIs DEF Fits
  <2>2. SamePorts(val, val, Cone(l))
    BY DEF SamePorts
  <2>. QED BY ONLY <2>1, <2>2, BasesAgree
<1>7. f[l.node] \subseteq pats
  BY <1>3, ConeIs DEF IsTerm
<1>. QED BY <1>1, <1>2, <1>3, <1>4, <1>6, <1>7 DEF Phased

LEMMA TermLeaf ==
  ASSUME NEW pats, NEW val
  PROVE  /\ Suited(pats, val, Zero) /\ TermValue(pats, val, Zero) = {}
         /\ Suited(pats, val, One) /\ TermValue(pats, val, One) = pats
<1>1. Suited(pats, val, Zero) /\ Suited(pats, val, One)
  BY PortsAre DEF Suited
<1>2. PICK f : IsTerm(pats, val, Cone(Zero), f)
               /\ TermValue(pats, val, Zero) = Phased(pats, f[Zero.node], Zero.ph)
  BY <1>1, LitsMade, TermBase
<1>3. f[Zero.node] = {}
  <2>1. Zero.node \in Cone(Zero)
    BY LitsMade, ConeIs
  <2>. QED BY <1>2, <2>1, LeafFields DEF IsTerm, NodeValue
<1>4. TermValue(pats, val, Zero) = {}
  BY <1>2, <1>3, LeafFields, LitIs DEF Phased
<1>5. One = Not(Zero) /\ Zero \in Lits
  BY LitsMade DEF Not, One, Zero, Lit
<1>6. TermValue(pats, val, Not(Zero)) = pats \ TermValue(pats, val, Zero)
  BY ONLY <1>1, <1>5, TermNot
<1>8. TermValue(pats, val, One) = pats
  BY <1>4, <1>5, <1>6
<1>. QED BY <1>1, <1>4, <1>8

LEMMA TermPort ==
  ASSUME NEW pats, NEW val, NEW p \in Int, val[p] \subseteq pats
  PROVE  Suited(pats, val, Port(p)) /\ TermValue(pats, val, Port(p)) = val[p]
<1>1. Suited(pats, val, Port(p))
  BY PortsAre DEF Suited
<1>2. PICK g : IsTerm(pats, val, Cone(Port(p)), g)
             /\ TermValue(pats, val, Port(p)) = Phased(pats, g[Port(p).node], Port(p).ph)
  BY <1>1, LitsMade, TermBase
<1>3. Port(p).node \in Cone(Port(p))
  BY LitsMade, ConeIs
<1>4. g[Port(p).node] = val[p]
  BY <1>2, <1>3, LeafFields DEF IsTerm, NodeValue
<1>5. Port(p).ph = 0
  BY LeafFields, LitIs
<1>. QED BY <1>1, <1>2, <1>4, <1>5 DEF Phased

LEMMA TermAndNode ==
  ASSUME NEW pats, NEW val, NEW x, NEW a, NEW b, AndOver(x, a, b),
         Suited(pats, val, a), Suited(pats, val, b)
  PROVE  /\ Suited(pats, val, Lit(x, 0))
         /\ TermValue(pats, val, Lit(x, 0)) = TermValue(pats, val, a) \intersect TermValue(pats, val, b)
<1>1. PICK l : l = Lit(x, 0)
  OBVIOUS
<1>2. l \in Lits /\ l.node = x /\ l.ph = 0 /\ Cone(a) \subseteq Cone(l) /\ Cone(b) \subseteq Cone(l)
  BY <1>1, ConeSub, LitIs
<1>3. Suited(pats, val, l)
  BY <1>1, PortsAre DEF Suited
<1>4. PICK f : IsTerm(pats, val, Cone(l), f) /\ TermValue(pats, val, l) = Phased(pats, f[l.node], l.ph)
  BY <1>2, <1>3, TermBase
<1>5. x.op = "and" /\ x.ins = {a, b} /\ a \in Lits /\ b \in Lits
  BY AndFields
<1>6. f[x] = {p \in pats : \A i \in x.ins : p \in Phased(pats, f[i.node], i.ph)}
  BY <1>2, <1>4, <1>5, ConeIs DEF IsTerm, NodeValue
<1>7. ASSUME NEW i \in {a, b} PROVE TermValue(pats, val, i) = Phased(pats, f[i.node], i.ph)
  <2>1. i \in Lits /\ Suited(pats, val, i) /\ Cone(i) \subseteq Cone(l)
    BY <1>2, <1>5
  <2>2. PICK g : IsTerm(pats, val, Cone(i), g) /\ TermValue(pats, val, i) = Phased(pats, g[i.node], i.ph)
    BY <2>1, TermBase
  <2>3. Fits(pats, val, Cone(i), g) /\ Fits(pats, val, Cone(l), f)
    BY <1>2, <1>4, <2>1, <2>2, ConeIs DEF Fits
  <2>4. i.node \in Cone(i) /\ i.node \in Cone(l) /\ SamePorts(val, val, Cone(i))
    BY <2>1, ConeIs DEF SamePorts
  <2>5. g[i.node] = f[i.node]
    BY ONLY <2>3, <2>4, BasesAgree
  <2>. QED BY <2>2, <2>5
<1>8. TermValue(pats, val, a) \subseteq pats
  BY <1>5, TermTyped
<1>9. TermValue(pats, val, l) = f[x]
  BY <1>2, <1>4 DEF Phased
<1>. QED BY <1>1, <1>3, <1>5, <1>6, <1>7, <1>8, <1>9

LEMMA TermAnd ==
  ASSUME NEW pats, NEW val, NEW a \in Lits, NEW b \in Lits,
         Suited(pats, val, a), Suited(pats, val, b)
  PROVE  /\ Suited(pats, val, And(a, b)) /\ PortsOf(And(a, b)) \subseteq PortsOf(a) \union PortsOf(b)
         /\ TermValue(pats, val, And(a, b)) = TermValue(pats, val, a) \intersect TermValue(pats, val, b)
<1>1. TermValue(pats, val, a) \subseteq pats /\ TermValue(pats, val, b) \subseteq pats
  BY TermTyped
<1>2. TermValue(pats, val, Zero) = {} /\ TermValue(pats, val, One) = pats
      /\ Suited(pats, val, Zero) /\ PortsOf(Zero) = {}
  BY TermLeaf, PortsAre
<1>3. a = Not(b) => TermValue(pats, val, a) = pats \ TermValue(pats, val, b)
  BY TermNot
<1>4. ASSUME a # b, NEW l, l = Lit(AndNode(a, b), 0)
      PROVE  /\ Suited(pats, val, l) /\ PortsOf(l) \subseteq PortsOf(a) \union PortsOf(b)
             /\ TermValue(pats, val, l) = TermValue(pats, val, a) \intersect TermValue(pats, val, b)
  <2>1. AndOver(AndNode(a, b), a, b)
    BY <1>4 DEF AndOver
  <2>. QED BY <1>4, <2>1, TermAndNode, PortsAre
<1>5. CASE Zero \in {a, b} \/ a = Not(b)
  BY <1>1, <1>2, <1>3, <1>5 DEF And
<1>6. CASE ~(Zero \in {a, b} \/ a = Not(b))
  <2>1. CASE a = One \/ a = b
    BY <1>1, <1>2, <1>6, <2>1 DEF And
  <2>2. CASE ~(a = One \/ a = b) /\ b = One
    BY <1>1, <1>2, <1>6, <2>2 DEF And
  <2>3. CASE ~(a = One \/ a = b) /\ b # One
    BY <1>4, <1>6, <2>3 DEF And
  <2>. QED BY <2>1, <2>2, <2>3
<1>. QED BY <1>5, <1>6

LEMMA TermOr ==
  ASSUME NEW pats, NEW val, NEW a \in Lits, NEW b \in Lits,
         Suited(pats, val, a), Suited(pats, val, b)
  PROVE  /\ Suited(pats, val, Or(a, b)) /\ PortsOf(Or(a, b)) \subseteq PortsOf(a) \union PortsOf(b)
         /\ TermValue(pats, val, Or(a, b)) = TermValue(pats, val, a) \union TermValue(pats, val, b)
<1>1. TermValue(pats, val, a) \subseteq pats /\ TermValue(pats, val, b) \subseteq pats
  BY TermTyped
<1>2. PICK u, v : u = Not(a) /\ v = Not(b)
  OBVIOUS
<1>3. /\ u \in Lits /\ v \in Lits /\ Suited(pats, val, u) /\ Suited(pats, val, v)
      /\ TermValue(pats, val, u) = pats \ TermValue(pats, val, a)
      /\ TermValue(pats, val, v) = pats \ TermValue(pats, val, b)
      /\ PortsOf(u) = PortsOf(a) /\ PortsOf(v) = PortsOf(b)
  BY <1>2, LitsMade, TermNot, PortsAre
<1>4. PICK w : w = And(u, v)
  OBVIOUS
<1>8. /\ Suited(pats, val, And(u, v)) /\ PortsOf(And(u, v)) \subseteq PortsOf(u) \union PortsOf(v)
      /\ TermValue(pats, val, And(u, v)) = TermValue(pats, val, u) \intersect TermValue(pats, val, v)
  BY ONLY <1>3, TermAnd
<1>58. And(u, v) \in Lits
  BY ONLY <1>3, LitsAnd
<1>5. /\ w \in Lits /\ Suited(pats, val, w) /\ PortsOf(w) \subseteq PortsOf(u) \union PortsOf(v)
      /\ TermValue(pats, val, w) = TermValue(pats, val, u) \intersect TermValue(pats, val, v)
  BY ONLY <1>4, <1>8, <1>58
<1>6. /\ Suited(pats, val, Not(w)) /\ TermValue(pats, val, Not(w)) = pats \ TermValue(pats, val, w)
      /\ PortsOf(Not(w)) = PortsOf(w)
  BY <1>5, TermNot, PortsAre
<1>7. Or(a, b) = Not(w)
  BY <1>2, <1>4 DEF Or
<1>. QED BY <1>1, <1>3, <1>5, <1>6, <1>7

LEMMA TermXor ==
  ASSUME NEW pats, NEW val, NEW a \in Lits, NEW b \in Lits,
         Suited(pats, val, a), Suited(pats, val, b)
  PROVE  /\ Suited(pats, val, Xor(a, b)) /\ PortsOf(Xor(a, b)) \subseteq PortsOf(a) \union PortsOf(b)
         /\ TermValue(pats, val, Xor(a, b))
              = (TermValue(pats, val, a) \ TermValue(pats, val, b))
                  \union (TermValue(pats, val, b) \ TermValue(pats, val, a))
<1>1. TermValue(pats, val, a) \subseteq pats /\ TermValue(pats, val, b) \subseteq pats
  BY TermTyped
<1>2. PICK u, v, s, t : u = Not(a) /\ v = Not(b) /\ s = And(a, v) /\ t = And(u, b)
  OBVIOUS
<1>3. /\ u \in Lits /\ v \in Lits /\ Suited(pats, val, u) /\ Suited(pats, val, v)
      /\ TermValue(pats, val, u) = pats \ TermValue(pats, val, a)
      /\ TermValue(pats, val, v) = pats \ TermValue(pats, val, b)
      /\ PortsOf(u) = PortsOf(a) /\ PortsOf(v) = PortsOf(b)
  BY <1>2, LitsMade, TermNot, PortsAre
<1>4. /\ s \in Lits /\ Suited(pats, val, s) /\ PortsOf(s) \subseteq PortsOf(a) \union PortsOf(v)
      /\ TermValue(pats, val, s) = TermValue(pats, val, a) \intersect TermValue(pats, val, v)
  <2>1. /\ Suited(pats, val, And(a, v)) /\ PortsOf(And(a, v)) \subseteq PortsOf(a) \union PortsOf(v)
        /\ TermValue(pats, val, And(a, v)) = TermValue(pats, val, a) \intersect TermValue(pats, val, v)
    BY ONLY <1>3, a \in Lits, Suited(pats, val, a), TermAnd
  <2>51. And(a, v) \in Lits
    BY ONLY <1>3, a \in Lits, Suited(pats, val, a), LitsAnd
  <2>. QED BY ONLY <1>2, <2>1, <2>51
<1>5. /\ t \in Lits /\ Suited(pats, val, t) /\ PortsOf(t) \subseteq PortsOf(u) \union PortsOf(b)
      /\ TermValue(pats, val, t) = TermValue(pats, val, u) \intersect TermValue(pats, val, b)
  <2>1. /\ Suited(pats, val, And(u, b)) /\ PortsOf(And(u, b)) \subseteq PortsOf(u) \union PortsOf(b)
        /\ TermValue(pats, val, And(u, b)) = TermValue(pats, val, u) \intersect TermValue(pats, val, b)
    BY ONLY <1>3, b \in Lits, Suited(pats, val, b), TermAnd
  <2>51. And(u, b) \in Lits
    BY ONLY <1>3, b \in Lits, Suited(pats, val, b), LitsAnd
  <2>. QED BY ONLY <1>2, <2>1, <2>51
<1>6. /\ Suited(pats, val, Or(s, t)) /\ PortsOf(Or(s, t)) \subseteq PortsOf(s) \union PortsOf(t)
      /\ TermValue(pats, val, Or(s, t)) = TermValue(pats, val, s) \union TermValue(pats, val, t)
  BY <1>4, <1>5, TermOr
<1>7. Xor(a, b) = Or(s, t)
  BY <1>2 DEF Xor
<1>. QED BY <1>1, <1>3, <1>4, <1>5, <1>6, <1>7

LEMMA TermMux ==
  ASSUME NEW pats, NEW val, NEW s \in Lits, NEW a \in Lits, NEW b \in Lits,
         Suited(pats, val, s), Suited(pats, val, a), Suited(pats, val, b)
  PROVE  /\ Suited(pats, val, Mux(s, a, b))
         /\ PortsOf(Mux(s, a, b)) \subseteq PortsOf(s) \union PortsOf(a) \union PortsOf(b)
         /\ TermValue(pats, val, Mux(s, a, b))
              = (TermValue(pats, val, s) \intersect TermValue(pats, val, a))
                  \union (TermValue(pats, val, b) \ TermValue(pats, val, s))
<1>1. TermValue(pats, val, s) \subseteq pats /\ TermValue(pats, val, a) \subseteq pats
      /\ TermValue(pats, val, b) \subseteq pats
  BY TermTyped
<1>2. PICK u, t, e : u = Not(s) /\ t = And(s, a) /\ e = And(u, b)
  OBVIOUS
<1>3. /\ u \in Lits /\ Suited(pats, val, u)
      /\ TermValue(pats, val, u) = pats \ TermValue(pats, val, s) /\ PortsOf(u) = PortsOf(s)
  BY <1>2, LitsMade, TermNot, PortsAre
<1>4. /\ t \in Lits /\ Suited(pats, val, t) /\ PortsOf(t) \subseteq PortsOf(s) \union PortsOf(a)
      /\ TermValue(pats, val, t) = TermValue(pats, val, s) \intersect TermValue(pats, val, a)
  <2>1. /\ Suited(pats, val, And(s, a)) /\ PortsOf(And(s, a)) \subseteq PortsOf(s) \union PortsOf(a)
        /\ TermValue(pats, val, And(s, a)) = TermValue(pats, val, s) \intersect TermValue(pats, val, a)
    BY ONLY s \in Lits, Suited(pats, val, s), a \in Lits, Suited(pats, val, a), TermAnd
  <2>51. And(s, a) \in Lits
    BY ONLY s \in Lits, Suited(pats, val, s), a \in Lits, Suited(pats, val, a), LitsAnd
  <2>. QED BY ONLY <1>2, <2>1, <2>51
<1>5. /\ e \in Lits /\ Suited(pats, val, e) /\ PortsOf(e) \subseteq PortsOf(u) \union PortsOf(b)
      /\ TermValue(pats, val, e) = TermValue(pats, val, u) \intersect TermValue(pats, val, b)
  <2>1. /\ Suited(pats, val, And(u, b)) /\ PortsOf(And(u, b)) \subseteq PortsOf(u) \union PortsOf(b)
        /\ TermValue(pats, val, And(u, b)) = TermValue(pats, val, u) \intersect TermValue(pats, val, b)
    BY ONLY <1>3, b \in Lits, Suited(pats, val, b), TermAnd
  <2>51. And(u, b) \in Lits
    BY ONLY <1>3, b \in Lits, Suited(pats, val, b), LitsAnd
  <2>. QED BY ONLY <1>2, <2>1, <2>51
<1>6. /\ Suited(pats, val, Or(t, e)) /\ PortsOf(Or(t, e)) \subseteq PortsOf(t) \union PortsOf(e)
      /\ TermValue(pats, val, Or(t, e)) = TermValue(pats, val, t) \union TermValue(pats, val, e)
  BY <1>4, <1>5, TermOr
<1>7. Mux(s, a, b) = Or(t, e)
  BY <1>2 DEF Mux
<1>. QED BY <1>1, <1>3, <1>4, <1>5, <1>6, <1>7

(* l is a literal over the ports P that has the value X when these have    *)
(* the values val.                                                         *)
Means(pats, val, P, l, X) ==
  /\ l \in Lits /\ PortsOf(l) \subseteq P /\ (\A q \in P : val[q] \subseteq pats)
  /\ TermValue(pats, val, l) = X

LEMMA MeansSuited ==
  ASSUME NEW pats, NEW val, NEW P, NEW l, NEW X, Means(pats, val, P, l, X)
  PROVE  l \in Lits /\ PortsOf(l) \subseteq P /\ Suited(pats, val, l) /\ X \subseteq pats
BY TermTyped DEF Means, Suited

LEMMA MeansLeaf ==
  ASSUME NEW pats, NEW val, NEW P, \A q \in P : val[q] \subseteq pats
  PROVE  /\ Means(pats, val, P, Zero, {}) /\ Means(pats, val, P, One, pats)
         /\ \A p \in P \intersect Int : Means(pats, val, P, Port(p), val[p])
<1>1. Means(pats, val, P, Zero, {})
  BY TermLeaf, LitsMade, PortsAre DEF Means
<1>2. Means(pats, val, P, One, pats)
  BY TermLeaf, LitsMade, PortsAre DEF Means
<1>3. ASSUME NEW p \in P \intersect Int PROVE Means(pats, val, P, Port(p), val[p])
  <2>0. p \in Int /\ val[p] \subseteq pats
    OBVIOUS
  <2>1. TermValue(pats, val, Port(p)) = val[p]
    BY ONLY <2>0, TermPort
  <2>2. Port(p) \in Lits /\ PortsOf(Port(p)) \subseteq P
    BY LitsMade, PortsAre
  <2>. QED BY <2>1, <2>2 DEF Means
<1>. QED BY <1>1, <1>2, <1>3

LEMMA MeansNot ==
  ASSUME NEW pats, NEW val, NEW P, NEW l, NEW X, Means(pats, val, P, l, X)
  PROVE  Means(pats, val, P, Not(l), pats \ X)
<1>1. l \in Lits /\ Suited(pats, val, l) /\ TermValue(pats, val, l) = X
  BY MeansSuited DEF Means
<1>2. TermValue(pats, val, Not(l)) = pats \ X
  BY ONLY <1>1, TermNot
<1>3. Not(l) \in Lits /\ PortsOf(Not(l)) = PortsOf(l)
  BY ONLY <1>1, LitsMade, PortsAre
<1>. QED BY <1>2, <1>3 DEF Means

LEMMA MeansAnd ==
  ASSUME NEW pats, NEW val, NEW P, NEW a, NEW X, Means(pats, val, P, a, X),
         NEW b, NEW Y, Means(pats, val, P, b, Y)
  PROVE  Means(pats, val, P, And(a, b), X \intersect Y)
<1>1. a \in Lits /\ b \in Lits /\ Suited(pats, val, a) /\ Suited(pats, val, b)
  BY MeansSuited
<1>2. And(a, b) \in Lits
  BY <1>1, LitsAnd
<1>3. /\ PortsOf(And(a, b)) \subseteq PortsOf(a) \union PortsOf(b)
      /\ TermValue(pats, val, And(a, b)) = TermValue(pats, val, a) \intersect TermValue(pats, val, b)
  BY ONLY <1>1, TermAnd
<1>. QED BY <1>2, <1>3 DEF Means

LEMMA MeansXor ==
  ASSUME NEW pats, NEW val, NEW P, NEW a, NEW X, Means(pats, val, P, a, X),
         NEW b, NEW Y, Means(pats, val, P, b, Y)
  PROVE  Means(pats, val, P, Xor(a, b), (X \ Y) \union (Y \ X))
<1>1. a \in Lits /\ b \in Lits /\ Suited(pats, val, a) /\ Suited(pats, val, b)
  BY MeansSuited
<1>2. Xor(a, b) \in Lits
  BY <1>1, LitsOr
<1>3. /\ PortsOf(Xor(a, b)) \subseteq PortsOf(a) \union PortsOf(b)
      /\ TermValue(pats, val, Xor(a, b))
              = (TermValue(pats, val, a) \ TermValue(pats, val, b))
                  \union (TermValue(pats, val, b) \ TermValue(pats, val, a))
  BY ONLY <1>1, TermXor
<1>. QED BY <1>2, <1>3 DEF Means

LEMMA MeansMux ==
  ASSUME NEW pats, NEW val, NEW P, NEW s, NEW Z, Means(pats, val, P, s, Z),
         NEW a, NEW X, Means(pats, val, P, a, X), NEW b, NEW Y, Means(pats, val, P, b, Y)
  PROVE  Means(pats, val, P, Mux(s, a, b), (Z \intersect X) \union (Y \ Z))
<1>1. /\ a \in Lits /\ b \in Lits /\ Suited(pats, val, a) /\ Suited(pats, val, b)
      /\ s \in Lits /\ Suited(pats, val, s)
  BY MeansSuited
<1>2. Mux(s, a, b) \in Lits
  BY <1>1, LitsOr
<1>3. /\ PortsOf(Mux(s, a, b)) \subseteq PortsOf(s) \union PortsOf(a) \union PortsOf(b)
      /\ TermValue(pats, val, Mux(s, a, b))
              = (TermValue(pats, val, s) \intersect TermValue(pats, val, a))
                  \union (TermValue(pats, val, b) \ TermValue(pats, val, s))
  BY ONLY <1>1, TermMux
<1>. QED BY <1>2, <1>3 DEF Means

LEMMA MeansSame ==
  ASSUME NEW pats, NEW val, NEW P, NEW l, NEW X, Means(pats, val, P, l, X),
         NEW w, \A q \in P : w[q] = val[q]
  PROVE  Means(pats, w, P, l, X)
<1>1. l \in Lits /\ Suited(pats, val, l) /\ \A q \in PortsOf(l) : val[q] = w[q]
  BY MeansSuited
<1>2. TermValue(pats, val, l) = TermValue(pats, w, l)
  BY ONLY <1>1, TermSame
<1>. QED BY <1>2 DEF Means

-----------------------------------------------------------------------------
(* Counting up.                                                            *)
LEMMA UpTo ==
  ASSUME NEW n \in Nat, NEW T, 0 \in T, \A i \in 1 .. n : i - 1 \in T => i \in T
  PROVE  0 .. n \subseteq T
<1>. DEFINE B == {i \in 0 .. n : i \notin T}
<1>1. SUFFICES ASSUME B # {} PROVE FALSE
  OBVIOUS
<1>2. PICK i \in B : \A j \in B : i <= j
  <2>1. B \subseteq Nat
    OBVIOUS
  <2>. HIDE DEF B
  <2>. QED BY <1>1, <2>1, Smallest
<1>3. i \in 1 .. n /\ i - 1 \notin B /\ i - 1 \in 0 .. n
  BY <1>2
<1>. QED BY <1>3

(* A function counted up from x by the steps of K.                         *)
IsSteps(f, x, K, V, n) ==
  f \in [0 .. n -> V] /\ f[0] = x /\ \A i \in 1 .. n : f[i] = K[i][f[i - 1]]

LEMMA StepsExist ==
  ASSUME NEW n \in Nat, NEW V, NEW x \in V, NEW K \in [1 .. n -> [V -> V]]
  PROVE  \E f : IsSteps(f, x, K, V, n)
<1>. DEFINE D == 0 .. n
            at(f, i) == IF i = 0 THEN x ELSE K[i][f[i - 1]]
            H == [i \in D |-> [f \in [D -> V] |-> at(f, i)]]
<1>1. Recursive(H, D, V, n + 1)
  <2>1. ASSUME NEW i \in D, NEW f \in [D -> V] PROVE at(f, i) \in V
    <3>1. CASE i = 0
      BY <3>1
    <3>2. CASE i # 0
      <4>1. i - 1 \in D /\ i \in 1 .. n
        BY <3>2
      <4>. QED BY <3>2, <4>1
    <3>. QED BY <3>1, <3>2
  <2>2. ASSUME NEW i \in D, NEW f \in [D -> V], NEW g \in [D -> V],
               \A j \in D : j < i => f[j] = g[j]
        PROVE  at(f, i) = at(g, i)
    <3>1. CASE i # 0
      <4>1. i - 1 \in D /\ i - 1 < i
        BY <3>1
      <4>. QED BY <2>2, <3>1, <4>1
    <3>2. CASE i = 0
      BY <3>2
    <3>. QED BY <3>1, <3>2
  <2>3. D \subseteq Nat /\ (\A i \in D : i < n + 1) /\ n + 1 \in Nat /\ V # {}
    OBVIOUS
  <2>. HIDE DEF D, at
  <2>. QED BY <2>1, <2>2, <2>3 DEF Recursive
<1>2. PICK f \in [D -> V] : \A i \in D : f[i] = H[i][f]
  <2>. HIDE DEF D, H
  <2>. QED BY <1>1, RecursionSolved
<1>3. \A i \in D : f[i] = at(f, i)
  <2>. HIDE DEF D, at
  <2>. QED BY <1>2
<1>4. f[0] = x /\ \A i \in 1 .. n : f[i] = K[i][f[i - 1]]
  BY <1>3
<1>. QED BY <1>4 DEF IsSteps

-----------------------------------------------------------------------------
(* The literals of a gate.                                                 *)
LEMMA AndAllSteps ==
  ASSUME NEW ins \in Seq(Lits)
  PROVE  \E f \in [0 .. Len(ins) -> Lits] : /\ AndAll(ins) = f[Len(ins)] /\ f[0] = One
                                            /\ \A i \in 1 .. Len(ins) : f[i] = And(f[i - 1], ins[i])
<1>. DEFINE n == Len(ins)
            Is(g) == g = [i \in 0 .. n |-> IF i = 0 THEN One ELSE And(g[i - 1], ins[i])]
            K == [i \in 1 .. n |-> [l \in Lits |-> And(l, ins[i])]]
<1>1. n \in Nat /\ One \in Lits /\ \A i \in 1 .. n : ins[i] \in Lits
  BY LitsMade
<1>2. K \in [1 .. n -> [Lits -> Lits]]
  BY <1>1, LitsAnd
<1>11. PICK f : IsSteps(f, One, K, Lits, n)
  <2>. HIDE DEF K, n, Is
  <2>. QED BY ONLY <1>1, <1>2, StepsExist
<1>3. f \in [0 .. n -> Lits] /\ f[0] = One /\ \A i \in 1 .. n : f[i] = K[i][f[i - 1]]
  BY <1>11 DEF IsSteps
<1>4. Is(f)
  <2>1. \A i \in 1 .. n : i - 1 \in 0 .. n
    BY <1>1
  <2>2. \A i \in 1 .. n : f[i] = And(f[i - 1], ins[i])
    BY <1>3, <2>1
  <2>. QED BY <1>1, <1>3, <2>2
<1>5. PICK g : g = CHOOSE h : Is(h)
  OBVIOUS
<1>6. Is(g)
  BY <1>4, <1>5
<1>7. AndAll(ins) = g[n]
  BY <1>5 DEF AndAll
<1>8. DOMAIN g = 0 .. n /\ g[0] = One /\ \A i \in 1 .. n : g[i] = And(g[i - 1], ins[i])
  BY <1>1, <1>6
<1>9. \A i \in 0 .. n : g[i] \in Lits
  <2>. DEFINE T == {i \in 0 .. n : g[i] \in Lits}
  <2>1. 0 \in T
    BY <1>1, <1>8
  <2>2. ASSUME NEW i \in 1 .. n, i - 1 \in T PROVE i \in T
    BY <1>1, <1>8, <2>2, LitsAnd
  <2>3. 0 .. n \subseteq T
    <3>. HIDE DEF T, n
    <3>. QED BY <1>1, <2>1, <2>2, UpTo
  <2>. QED BY <2>3
<1>10. g \in [0 .. n -> Lits]
  <2>1. g = [i \in 0 .. n |-> g[i]]
    BY <1>6
  <2>. QED BY <1>9, <2>1
<1>. QED BY <1>7, <1>8, <1>10

AllMean(pats, val, P, ins) ==
  /\ ins \in Seq(Lits) /\ \A q \in P : val[q] \subseteq pats
  /\ \A i \in DOMAIN ins : Means(pats, val, P, ins[i], TermValue(pats, val, ins[i]))

LEMMA MeansAndAll ==
  ASSUME NEW pats, NEW val, NEW P, NEW ins, AllMean(pats, val, P, ins)
  PROVE  Means(pats, val, P, AndAll(ins),
               {p \in pats : \A i \in DOMAIN ins : p \in TermValue(pats, val, ins[i])})
<1>. USE DEF AllMean
<1>. DEFINE n == Len(ins)
            X(j) == {p \in pats : \A i \in 1 .. j : p \in TermValue(pats, val, ins[i])}
<1>1. n \in Nat /\ DOMAIN ins = 1 .. n
  OBVIOUS
<1>2. PICK f \in [0 .. n -> Lits] : /\ AndAll(ins) = f[n] /\ f[0] = One
                                    /\ \A i \in 1 .. n : f[i] = And(f[i - 1], ins[i])
  BY AndAllSteps
<1>. DEFINE T == {i \in 0 .. n : Means(pats, val, P, f[i], X(i))}
<1>3. 0 \in T
  <2>1. X(0) = pats
    OBVIOUS
  <2>2. Means(pats, val, P, One, pats)
    BY MeansLeaf
  <2>. HIDE DEF X
  <2>. QED BY <1>1, <1>2, <2>1, <2>2
<1>4. ASSUME NEW i \in 1 .. n, i - 1 \in T PROVE i \in T
  <2>1. Means(pats, val, P, f[i - 1], X(i - 1)) /\ Means(pats, val, P, ins[i], TermValue(pats, val, ins[i]))
    BY <1>1, <1>4
  <2>2. X(i) = X(i - 1) \intersect TermValue(pats, val, ins[i])
    <3>1. \A j \in 1 .. i : j = i \/ j \in 1 .. (i - 1)
      OBVIOUS
    <3>2. 1 .. (i - 1) \subseteq 1 .. i /\ i \in 1 .. i
      OBVIOUS
    <3>. QED BY <3>1, <3>2
  <2>3. Means(pats, val, P, And(f[i - 1], ins[i]), X(i - 1) \intersect TermValue(pats, val, ins[i]))
    <3>. HIDE DEF X
    <3>. QED BY ONLY <2>1, MeansAnd
  <2>4. f[i] = And(f[i - 1], ins[i]) /\ i \in 0 .. n
    BY <1>1, <1>2
  <2>5. Means(pats, val, P, f[i], X(i))
    <3>. HIDE DEF X
    <3>. QED BY <2>2, <2>3, <2>4
  <2>. HIDE DEF X
  <2>. QED BY <2>4, <2>5
<1>5. n \in T
  <2>1. 0 .. n \subseteq T
    <3>. HIDE DEF T, n
    <3>. QED BY <1>1, <1>3, <1>4, UpTo
  <2>. QED BY <1>1, <2>1
<1>. QED BY <1>1, <1>2, <1>5

-----------------------------------------------------------------------------
(* The literals of a gate mean what the gate computes of what its inputs   *)
(* mean, and fnFromTT's literal of a function what the function computes.  *)

LEMMA XorAllSteps ==
  ASSUME NEW ins \in Seq(Lits)
  PROVE  \E f \in [0 .. Len(ins) -> Lits] : /\ XorAll(ins) = f[Len(ins)] /\ f[0] = Zero
                                            /\ \A i \in 1 .. Len(ins) : f[i] = Xor(f[i - 1], ins[i])
<1>. DEFINE n == Len(ins)
            Is(g) == g = [i \in 0 .. n |-> IF i = 0 THEN Zero ELSE Xor(g[i - 1], ins[i])]
            K == [i \in 1 .. n |-> [l \in Lits |-> Xor(l, ins[i])]]
<1>1. n \in Nat /\ Zero \in Lits /\ \A i \in 1 .. n : ins[i] \in Lits
  BY LitsMade
<1>2. K \in [1 .. n -> [Lits -> Lits]]
  BY <1>1, LitsOr
<1>11. PICK f : IsSteps(f, Zero, K, Lits, n)
  <2>. HIDE DEF K, n, Is
  <2>. QED BY ONLY <1>1, <1>2, StepsExist
<1>3. f \in [0 .. n -> Lits] /\ f[0] = Zero /\ \A i \in 1 .. n : f[i] = K[i][f[i - 1]]
  BY <1>11 DEF IsSteps
<1>4. Is(f)
  <2>1. \A i \in 1 .. n : i - 1 \in 0 .. n
    BY <1>1
  <2>2. \A i \in 1 .. n : f[i] = Xor(f[i - 1], ins[i])
    BY <1>3, <2>1
  <2>. QED BY <1>1, <1>3, <2>2
<1>5. PICK g : g = CHOOSE h : Is(h)
  OBVIOUS
<1>6. Is(g)
  BY <1>4, <1>5
<1>7. XorAll(ins) = g[n]
  BY <1>5 DEF XorAll
<1>8. DOMAIN g = 0 .. n /\ g[0] = Zero /\ \A i \in 1 .. n : g[i] = Xor(g[i - 1], ins[i])
  BY <1>1, <1>6
<1>9. \A i \in 0 .. n : g[i] \in Lits
  <2>. DEFINE T == {i \in 0 .. n : g[i] \in Lits}
  <2>1. 0 \in T
    BY <1>1, <1>8
  <2>2. ASSUME NEW i \in 1 .. n, i - 1 \in T PROVE i \in T
    BY <1>1, <1>8, <2>2, LitsOr
  <2>3. 0 .. n \subseteq T
    <3>. HIDE DEF T, n
    <3>. QED BY <1>1, <2>1, <2>2, UpTo
  <2>. QED BY <2>3
<1>10. g \in [0 .. n -> Lits]
  <2>1. g = [i \in 0 .. n |-> g[i]]
    BY <1>6
  <2>. QED BY <1>9, <2>1
<1>. QED BY <1>7, <1>8, <1>10

(* One more input that is 1 changes the parity.                            *)
LEMMA ParityFlips ==
  ASSUME NEW S, IsFiniteSet(S), NEW x, x \notin S
  PROVE  /\ Cardinality(S) \in Nat
         /\ Cardinality(S \union {x}) % 2 = 1 <=> Cardinality(S) % 2 # 1
<1>1. Cardinality(S) \in Nat /\ Cardinality(S \union {x}) = Cardinality(S) + 1
  BY FS_CardinalityType, FS_AddElement
<1>2. \A k \in Nat : (k + 1) % 2 = 1 <=> k % 2 # 1
  OBVIOUS
<1>. QED BY <1>1, <1>2

LEMMA MeansXorAll ==
  ASSUME NEW pats, NEW val, NEW P, NEW ins, AllMean(pats, val, P, ins)
  PROVE  Means(pats, val, P, XorAll(ins),
               {p \in pats : Cardinality({i \in DOMAIN ins : p \in TermValue(pats, val, ins[i])}) % 2 = 1})
<1>. USE DEF AllMean
<1>. DEFINE n == Len(ins)
            at(p, j) == {i \in 1 .. j : p \in TermValue(pats, val, ins[i])}
            X(j) == {p \in pats : Cardinality(at(p, j)) % 2 = 1}
<1>1. n \in Nat /\ DOMAIN ins = 1 .. n
  OBVIOUS
<1>2. PICK f \in [0 .. n -> Lits] : /\ XorAll(ins) = f[n] /\ f[0] = Zero
                                    /\ \A i \in 1 .. n : f[i] = Xor(f[i - 1], ins[i])
  BY XorAllSteps
<1>. DEFINE T == {i \in 0 .. n : Means(pats, val, P, f[i], X(i))}
<1>3. 0 \in T
  <2>1. X(0) = {}
    <3>1. ASSUME NEW p PROVE Cardinality(at(p, 0)) = 0
      <4>1. at(p, 0) = {}
        OBVIOUS
      <4>. HIDE DEF at
      <4>. QED BY <4>1, FS_EmptySet
    <3>. HIDE DEF at
    <3>. QED BY <3>1
  <2>2. Means(pats, val, P, Zero, {})
    BY MeansLeaf
  <2>. HIDE DEF X
  <2>. QED BY <1>1, <1>2, <2>1, <2>2
<1>4. ASSUME NEW i \in 1 .. n, i - 1 \in T PROVE i \in T
  <2>1. Means(pats, val, P, f[i - 1], X(i - 1)) /\ Means(pats, val, P, ins[i], TermValue(pats, val, ins[i]))
    BY <1>1, <1>4
  <2>2. PICK U, W : U = X(i - 1) /\ W = TermValue(pats, val, ins[i])
    OBVIOUS
  <2>6. U \subseteq pats /\ W \subseteq pats
    BY <2>1, <2>2, MeansSuited
  <2>7. ASSUME NEW p \in pats PROVE p \in X(i) <=> (p \in U <=> p \notin W)
    <3>1. IsFiniteSet(at(p, i - 1)) /\ i \notin at(p, i - 1)
      <4>1. IsFiniteSet(1 .. (i - 1)) /\ at(p, i - 1) \subseteq 1 .. (i - 1)
        <5>1. 1 \in Int /\ i - 1 \in Int
          OBVIOUS
        <5>2. IsFiniteSet(1 .. (i - 1))
          BY ONLY <5>1, FS_Interval
        <5>. QED BY <5>2
      <4>2. i \notin 1 .. (i - 1)
        OBVIOUS
      <4>. HIDE DEF at
      <4>. QED BY <4>1, <4>2, FS_Subset
    <3>2. at(p, i) = IF p \in W THEN at(p, i - 1) \union {i} ELSE at(p, i - 1)
      <4>1. \A j \in 1 .. i : j = i \/ j \in 1 .. (i - 1)
        OBVIOUS
      <4>2. 1 .. (i - 1) \subseteq 1 .. i /\ i \in 1 .. i
        OBVIOUS
      <4>. QED BY <2>2, <4>1, <4>2
    <3>3. p \in U <=> Cardinality(at(p, i - 1)) % 2 = 1
      BY <2>2
    <3>4. p \in X(i) <=> Cardinality(at(p, i)) % 2 = 1
      OBVIOUS
    <3>. HIDE DEF at, X
    <3>5. Cardinality(at(p, i - 1) \union {i}) % 2 = 1 <=> Cardinality(at(p, i - 1)) % 2 # 1
      BY <3>1, ParityFlips
    <3>. QED BY <3>2, <3>3, <3>4, <3>5
  <2>8. X(i) = (U \ W) \union (W \ U)
    <3>1. X(i) \subseteq pats
      OBVIOUS
    <3>. HIDE DEF X
    <3>. QED BY <2>6, <2>7, <3>1
  <2>3. Means(pats, val, P, Xor(f[i - 1], ins[i]), (U \ W) \union (W \ U))
    <3>. HIDE DEF X
    <3>. QED BY ONLY <2>1, <2>2, MeansXor
  <2>4. f[i] = Xor(f[i - 1], ins[i]) /\ i \in 0 .. n
    BY <1>1, <1>2
  <2>5. Means(pats, val, P, f[i], X(i))
    <3>. HIDE DEF X
    <3>. QED BY <2>8, <2>3, <2>4
  <2>. HIDE DEF X
  <2>. QED BY <2>4, <2>5
<1>5. n \in T
  <2>1. 0 .. n \subseteq T
    <3>. HIDE DEF T, n
    <3>. QED BY <1>1, <1>3, <1>4, UpTo
  <2>. QED BY <1>1, <2>1
<1>6. Means(pats, val, P, XorAll(ins), X(n))
  <2>. HIDE DEF X
  <2>. QED BY <1>2, <1>5
<1>. QED BY <1>1, <1>6

LEMMA MeansOrAll ==
  ASSUME NEW pats, NEW val, NEW P, NEW ins, AllMean(pats, val, P, ins)
  PROVE  Means(pats, val, P, OrAll(ins),
               {p \in pats : \E i \in DOMAIN ins : p \in TermValue(pats, val, ins[i])})
<1>. USE DEF AllMean
<1>1. PICK nots : nots = [i \in 1 .. Len(ins) |-> Not(ins[i])]
  OBVIOUS
<1>2. DOMAIN ins = 1 .. Len(ins) /\ Len(ins) \in Nat /\ \A i \in DOMAIN ins : ins[i] \in Lits
  OBVIOUS
<1>3. nots \in Seq(Lits) /\ DOMAIN nots = DOMAIN ins
  BY <1>1, <1>2, LitsMade
<1>4. \A i \in DOMAIN ins : Means(pats, val, P, nots[i], pats \ TermValue(pats, val, ins[i]))
  BY <1>1, <1>2, MeansNot
<1>5. \A i \in DOMAIN ins : TermValue(pats, val, nots[i]) = pats \ TermValue(pats, val, ins[i])
  BY <1>4 DEF Means
<1>6. \A i \in DOMAIN nots : Means(pats, val, P, nots[i], TermValue(pats, val, nots[i]))
  BY <1>3, <1>4, <1>5
<1>7. PICK X : X = {p \in pats : \A i \in DOMAIN nots : p \in TermValue(pats, val, nots[i])}
  OBVIOUS
<1>8. Means(pats, val, P, AndAll(nots), X)
  <2>1. AllMean(pats, val, P, nots)
    BY <1>3, <1>6 DEF AllMean
  <2>. QED BY <1>7, <2>1, MeansAndAll
<1>9. Means(pats, val, P, Not(AndAll(nots)), pats \ X)
  BY <1>8, MeansNot
<1>10. OrAll(ins) = Not(AndAll(nots))
  BY <1>1 DEF OrAll
<1>11. pats \ X = {p \in pats : \E i \in DOMAIN ins : p \in TermValue(pats, val, ins[i])}
  BY <1>3, <1>5, <1>7
<1>. QED BY <1>9, <1>10, <1>11

(* gateFunc computes what the gate computes.                               *)
IsTermGate(type, ins) ==
  type \in GateTypes /\ ins \in Seq(Lits) /\ (type \in {"not", "buf"} => Len(ins) = 1)

LEMMA MeansGate ==
  ASSUME NEW c, NEW val, NEW P, \A q \in P : val[q] \subseteq Patterns(c),
         NEW type, NEW ins, IsTermGate(type, ins),
         NEW in, DOMAIN in = DOMAIN ins,
         \A i \in DOMAIN ins : Means(Patterns(c), val, P, ins[i], in[i])
  PROVE  Means(Patterns(c), val, P, GateTerm(type, ins), GateFn(c, type, in))
<1>1. PICK pats : pats = Patterns(c)
  OBVIOUS
<1>2. /\ ins \in Seq(Lits) /\ \A i \in DOMAIN ins : TermValue(pats, val, ins[i]) = in[i]
  BY <1>1 DEF Means, IsTermGate
<1>3. \A i \in DOMAIN ins : Means(pats, val, P, ins[i], TermValue(pats, val, ins[i]))
  BY <1>1, <1>2
<1>4. PICK Al, Ex, Odd :
        /\ Al = {p \in pats : {i \in DOMAIN in : p \in in[i]} = DOMAIN in}
        /\ Ex = {p \in pats : {i \in DOMAIN in : p \in in[i]} # {}}
        /\ Odd = {p \in pats : Cardinality({i \in DOMAIN in : p \in in[i]}) % 2 = 1}
  OBVIOUS
<1>5. /\ Means(pats, val, P, AndAll(ins), Al) /\ Means(pats, val, P, OrAll(ins), Ex)
      /\ Means(pats, val, P, XorAll(ins), Odd)
  <2>1. Al = {p \in pats : \A i \in DOMAIN ins : p \in TermValue(pats, val, ins[i])}
    BY <1>2, <1>4
  <2>2. Ex = {p \in pats : \E i \in DOMAIN ins : p \in TermValue(pats, val, ins[i])}
    BY <1>2, <1>4
  <2>3. Odd = {p \in pats : Cardinality({i \in DOMAIN ins : p \in TermValue(pats, val, ins[i])}) % 2 = 1}
    <3>1. \A p : {i \in DOMAIN in : p \in in[i]} = {i \in DOMAIN ins : p \in TermValue(pats, val, ins[i])}
      BY <1>2
    <3>. QED BY <1>4, <3>1
  <2>4. \A q \in P : val[q] \subseteq pats
    BY <1>1
  <2>8. AllMean(pats, val, P, ins)
    BY <1>2, <1>3, <2>4 DEF AllMean
  <2>5. Means(pats, val, P, AndAll(ins), Al)
    BY <2>1, <2>8, MeansAndAll
  <2>6. Means(pats, val, P, OrAll(ins), Ex)
    BY <2>2, <2>8, MeansOrAll
  <2>7. Means(pats, val, P, XorAll(ins), Odd)
    BY <2>3, <2>8, MeansXorAll
  <2>. QED BY <2>5, <2>6, <2>7
<1>6. /\ Means(pats, val, P, Not(AndAll(ins)), pats \ Al)
      /\ Means(pats, val, P, Not(OrAll(ins)), pats \ Ex)
      /\ Means(pats, val, P, Not(XorAll(ins)), pats \ Odd)
  BY <1>5, MeansNot
<1>7. type \in {"not", "buf"} =>
        /\ Means(pats, val, P, ins[1], Al) /\ Means(pats, val, P, Not(ins[1]), pats \ Al)
  <2>. SUFFICES ASSUME type \in {"not", "buf"}
                PROVE  Means(pats, val, P, ins[1], Al) /\ Means(pats, val, P, Not(ins[1]), pats \ Al)
    OBVIOUS
  <2>1. DOMAIN ins = {1}
    BY <1>2 DEF IsTermGate
  <2>2. Means(pats, val, P, ins[1], in[1])
    BY <1>1, <2>1
  <2>3. in[1] \subseteq pats
    BY <2>2, MeansSuited
  <2>4. Al = in[1]
    BY <1>4, <2>1, <2>3
  <2>. QED BY <2>2, <2>4, MeansNot
<1>8. GateFn(c, type, in) =
        CASE type \in {"and", "buf"} -> Al
          [] type \in {"nand", "not"} -> pats \ Al
          [] type = "or" -> Ex
          [] type = "nor" -> pats \ Ex
          [] type = "xor" -> Odd
          [] type = "xnor" -> pats \ Odd
  BY <1>1, <1>4 DEF GateFn
<1>9. type \in GateTypes
  BY DEF IsTermGate
<1>10. Means(pats, val, P, GateTerm(type, ins), GateFn(c, type, in))
  <2>1. CASE type = "and"
    BY <1>5, <1>8, <2>1 DEF GateTerm
  <2>2. CASE type = "nand"
    BY <1>6, <1>8, <2>2 DEF GateTerm
  <2>3. CASE type = "or"
    BY <1>5, <1>8, <2>3 DEF GateTerm
  <2>4. CASE type = "nor"
    BY <1>6, <1>8, <2>4 DEF GateTerm
  <2>5. CASE type = "xor"
    BY <1>5, <1>8, <2>5 DEF GateTerm
  <2>6. CASE type = "xnor"
    BY <1>6, <1>8, <2>6 DEF GateTerm
  <2>7. CASE type = "not"
    BY <1>7, <1>8, <2>7 DEF GateTerm
  <2>8. CASE type = "buf"
    BY <1>7, <1>8, <2>8 DEF GateTerm
  <2>. QED BY <1>9, <2>1, <2>2, <2>3, <2>4, <2>5, <2>6, <2>7, <2>8 DEF GateTypes
<1>. QED BY <1>1, <1>10

LEMMA GreatestIs ==
  ASSUME NEW S, IsFiniteSet(S), S \subseteq Int, S # {}
  PROVE  Greatest(S) \in S
<1>. DEFINE below(x) == {y \in S : y <= x}
            T == {Cardinality(below(x)) : x \in S}
<1>1. \A x \in S : IsFiniteSet(below(x)) /\ Cardinality(below(x)) \in Nat
  BY FS_Subset, FS_CardinalityType
<1>2. IsFiniteSet(T)
  <2>1. PICK f : f = [x \in S |-> Cardinality(below(x))]
    OBVIOUS
  <2>2. IsFiniteSet({f[x] : x \in S})
    <3>1. DOMAIN f = S
      BY <2>1
    <3>. QED BY ONLY IsFiniteSet(S), <3>1, FiniteImage
  <2>3. T = {f[x] : x \in S}
    BY <2>1
  <2>. QED BY <2>2, <2>3
<1>3. T \subseteq Nat /\ T # {}
  BY <1>1
<1>4. PICK k \in T : \A j \in T : j <= k
  <2>. HIDE DEF T
  <2>. QED BY <1>2, <1>3, Largest
<1>5. PICK x \in S : k = Cardinality(below(x))
  OBVIOUS
<1>6. \A y \in S : y <= x
  <2>1. SUFFICES ASSUME NEW y \in S, x < y PROVE FALSE
    OBVIOUS
  <2>2. below(x) \subseteq below(y) /\ y \in below(y) /\ y \notin below(x)
    <3>1. x \in Int /\ y \in Int /\ \A z \in S : z \in Int
      OBVIOUS
    <3>2. ~(y <= x) /\ y <= y /\ \A z \in S : z <= x => z <= y
      BY ONLY <2>1, <3>1
    <3>. QED BY <3>2
  <2>3. Cardinality(below(x)) < Cardinality(below(y))
    <3>. HIDE DEF below
    <3>1. below(x) # below(y)
      BY <2>2
    <3>2. IsFiniteSet(below(y)) /\ below(x) \in SUBSET below(y)
      BY <1>1, <2>2
    <3>3. /\ Cardinality(below(x)) <= Cardinality(below(y))
          /\ Cardinality(below(x)) # Cardinality(below(y))
      BY ONLY <3>1, <3>2, FS_Subset
    <3>4. Cardinality(below(y)) \in Nat /\ Cardinality(below(x)) \in Nat
      BY <1>1
    <3>. QED BY ONLY <3>3, <3>4
  <2>4. Cardinality(below(y)) <= Cardinality(below(x))
    BY <1>4, <1>5
  <2>5. Cardinality(below(y)) \in Nat /\ Cardinality(below(x)) \in Nat
    BY <1>1
  <2>. HIDE DEF below
  <2>. QED BY <2>3, <2>4, <2>5
<1>. QED BY <1>6 DEF Greatest

LEMMA NextPortIs ==
  ASSUME NEW sup, NEW on, NEW S, IsFiniteSet(S), S \subseteq Int, S # {}
  PROVE  NextPort(sup, on, S) \in S
<1>1. PICK idle : idle = {p \in S : Idle(sup, on, p)}
  OBVIOUS
<1>2. IsFiniteSet(idle) /\ idle \subseteq Int
  BY <1>1, FS_Subset
<1>3. CASE idle = {}
  BY <1>1, <1>3, GreatestIs DEF NextPort
<1>4. CASE idle # {}
  <2>1. Greatest(idle) \in idle
    BY <1>2, <1>4, GreatestIs
  <2>. QED BY <1>1, <1>4, <2>1 DEF NextPort
<1>. QED BY <1>3, <1>4

(* shannon: the literal of a function over the literals of its ports.      *)
FnLits(sup, on, lit) == IsFiniteSet(sup) /\ sup \subseteq Int /\ lit \in [sup -> Lits]

Split(sup, on, lit, f, S, ones) ==
  IF S = {} THEN IF ones \in on THEN One ELSE Zero
  ELSE LET p == NextPort(sup, on, S)
       IN  Mux(lit[p], f[S \ {p}][ones \union {p}], f[S \ {p}][ones])

IsSplit(sup, on, lit, f) ==
  /\ f \in [SUBSET sup -> [SUBSET sup -> Lits]]
  /\ \A S \in SUBSET sup, ones \in SUBSET sup : f[S][ones] = Split(sup, on, lit, f, S, ones)

LEMMA SplitIn ==
  ASSUME NEW sup, NEW on, NEW lit, FnLits(sup, on, lit), NEW f, NEW S \in SUBSET sup,
         NEW ones \in SUBSET sup,
         S # {} => f[S \ {NextPort(sup, on, S)}] \in [SUBSET sup -> Lits]
  PROVE  Split(sup, on, lit, f, S, ones) \in Lits
<1>1. CASE S = {}
  BY <1>1, LitsMade DEF Split
<1>2. CASE S # {}
  <2>1. PICK p : p = NextPort(sup, on, S)
    OBVIOUS
  <2>2. p \in S
    <3>1. IsFiniteSet(S) /\ S \subseteq Int
      BY FS_Subset DEF FnLits
    <3>. QED BY <1>2, <2>1, <3>1, NextPortIs
  <2>3. /\ lit[p] \in Lits /\ f[S \ {p}][ones \union {p}] \in Lits /\ f[S \ {p}][ones] \in Lits
    <3>1. ones \union {p} \in SUBSET sup
      BY <2>2
    <3>. QED BY <1>2, <2>1, <2>2, <3>1 DEF FnLits
  <2>4. Mux(lit[p], f[S \ {p}][ones \union {p}], f[S \ {p}][ones]) \in Lits
    BY ONLY <2>3, LitsOr
  <2>. QED BY <1>2, <2>1, <2>4 DEF Split
<1>. QED BY <1>1, <1>2

LEMMA SplitIs ==
  ASSUME NEW sup, NEW on, NEW lit, FnLits(sup, on, lit)
  PROVE  \E f : IsSplit(sup, on, lit, f) /\ FnLit(sup, on, lit) = f[sup][{}]
<1>. DEFINE D == SUBSET sup
            V == [D -> Lits]
            H == [S \in D |-> [f \in [D -> V] |-> [ones \in D |-> Split(sup, on, lit, f, S, ones)]]]
            rank == [S \in D |-> Cardinality(S)]
            Is(g) == g = [S \in D |-> [ones \in D |-> Split(sup, on, lit, g, S, ones)]]
<1>1. IsFiniteSet(sup) /\ sup \subseteq Int
  BY DEF FnLits
<1>2. \A S \in D : IsFiniteSet(S) /\ Cardinality(S) \in Nat
  BY <1>1, FS_Subset, FS_CardinalityType
<1>3. \A S \in D : S # {} => /\ NextPort(sup, on, S) \in S /\ S \ {NextPort(sup, on, S)} \in D
                             /\ Cardinality(S \ {NextPort(sup, on, S)}) < Cardinality(S)
  <2>. SUFFICES ASSUME NEW S \in D, S # {}
                PROVE  /\ NextPort(sup, on, S) \in S /\ S \ {NextPort(sup, on, S)} \in D
                       /\ Cardinality(S \ {NextPort(sup, on, S)}) < Cardinality(S)
    OBVIOUS
  <2>1. PICK p : p = NextPort(sup, on, S)
    OBVIOUS
  <2>2. p \in S
    BY <1>1, <1>2, <2>1, NextPortIs
  <2>3. Cardinality(S \ {p}) = Cardinality(S) - 1
    BY <1>2, <2>2, FS_RemoveElement
  <2>. QED BY <1>2, <2>1, <2>2, <2>3
<1>4. Graded(H, D, V, rank)
  <2>1. ASSUME NEW S \in D, NEW f \in [D -> V], NEW ones \in D PROVE Split(sup, on, lit, f, S, ones) \in Lits
    <3>1. S # {} => f[S \ {NextPort(sup, on, S)}] \in [SUBSET sup -> Lits]
      BY <1>3
    <3>. QED BY <3>1, SplitIn
  <2>2. ASSUME NEW S \in D, NEW f \in [D -> V], NEW g \in [D -> V],
               \A U \in D : Cardinality(U) < Cardinality(S) => f[U] = g[U], NEW ones \in D
        PROVE  Split(sup, on, lit, f, S, ones) = Split(sup, on, lit, g, S, ones)
    <3>1. S # {} => f[S \ {NextPort(sup, on, S)}] = g[S \ {NextPort(sup, on, S)}]
      BY <1>3, <2>2
    <3>. QED BY <3>1 DEF Split
  <2>3. V # {}
    <3>1. [S \in D |-> Zero] \in V
      BY LitsMade
    <3>. QED BY <3>1
  <2>4. rank \in [D -> Nat] /\ \A S \in D : rank[S] = Cardinality(S)
    BY <1>2
  <2>5. H \in [D -> [[D -> V] -> V]]
    <3>1. ASSUME NEW S \in D, NEW f \in [D -> V]
          PROVE  [ones \in D |-> Split(sup, on, lit, f, S, ones)] \in V
      BY <2>1
    <3>. HIDE DEF V
    <3>. QED BY <3>1
  <2>6. ASSUME NEW S \in D, NEW f \in [D -> V], NEW g \in [D -> V],
               \A U \in D : rank[U] < rank[S] => f[U] = g[U]
        PROVE  H[S][f] = H[S][g]
    <3>1. \A U \in D : Cardinality(U) < Cardinality(S) => f[U] = g[U]
      BY <2>4, <2>6
    <3>2. \A ones \in D : Split(sup, on, lit, f, S, ones) = Split(sup, on, lit, g, S, ones)
      BY <2>2, <3>1
    <3>. HIDE DEF V
    <3>. QED BY <3>2
  <2>. HIDE DEF H, V, rank
  <2>. QED BY <2>3, <2>4, <2>5, <2>6 DEF Graded
<1>5. PICK f \in [D -> V] : \A S \in D : f[S] = H[S][f]
  <2>. HIDE DEF H, V, rank, D
  <2>. QED BY <1>4, GradedSolved
<1>6. Is(f)
  <2>1. \A S \in D : f[S] = [ones \in D |-> Split(sup, on, lit, f, S, ones)]
    <3>. HIDE DEF V
    <3>. QED BY <1>5
  <2>2. f = [S \in D |-> f[S]]
    <3>. HIDE DEF V
    <3>. QED BY <1>5
  <2>. QED BY <2>1, <2>2
<1>7. PICK g : g = CHOOSE h : Is(h)
  OBVIOUS
<1>8. Is(g)
  BY <1>6, <1>7
<1>9. FnLit(sup, on, lit) = g[sup][{}]
  BY <1>7 DEF FnLit, Split
<1>10. DOMAIN g = D /\ \A S \in D : g[S] = [ones \in D |-> Split(sup, on, lit, g, S, ones)]
  BY <1>8
<1>11. \A S \in D : g[S] \in V
  <2>. DEFINE T == {Cardinality(S) : S \in {U \in D : g[U] \notin V}}
  <2>1. SUFFICES ASSUME T # {} PROVE FALSE
    OBVIOUS
  <2>2. PICK k \in T : \A j \in T : k <= j
    <3>1. T \subseteq Nat
      BY <1>2
    <3>. HIDE DEF T
    <3>. QED BY <2>1, <3>1, Smallest
  <2>3. PICK S \in D : g[S] \notin V /\ k = Cardinality(S)
    <3>. HIDE DEF V
    <3>. QED OBVIOUS
  <2>4. S # {} => g[S \ {NextPort(sup, on, S)}] \in V
    <3>. SUFFICES ASSUME S # {}, g[S \ {NextPort(sup, on, S)}] \notin V PROVE FALSE
      OBVIOUS
    <3>1. PICK U : U = S \ {NextPort(sup, on, S)}
      OBVIOUS
    <3>2. U \in D /\ Cardinality(U) < Cardinality(S) /\ g[U] \notin V
      BY <1>3, <3>1
    <3>3. Cardinality(U) \in T
      <4>. HIDE DEF V
      <4>. QED BY <3>2
    <3>4. Cardinality(U) \in Nat /\ Cardinality(S) \in Nat
      BY <1>2, <3>2
    <3>5. k <= Cardinality(U) /\ k = Cardinality(S)
      <4>. HIDE DEF T, V
      <4>. QED BY <2>2, <2>3, <3>3
    <3>. QED BY ONLY <3>2, <3>4, <3>5
  <2>5. \A ones \in D : Split(sup, on, lit, g, S, ones) \in Lits
    BY <2>4, SplitIn
  <2>6. g[S] \in V
    BY <1>10, <2>5
  <2>. QED BY <2>3, <2>6
<1>12. IsSplit(sup, on, lit, g)
  <2>1. g \in [D -> V]
    <3>1. g = [S \in D |-> g[S]]
      BY <1>8
    <3>. HIDE DEF V
    <3>. QED BY <1>11, <3>1
  <2>2. \A S \in D, ones \in D : g[S][ones] = Split(sup, on, lit, g, S, ones)
    BY <1>10
  <2>. QED BY <2>1, <2>2 DEF IsSplit
<1>. QED BY <1>9, <1>12

(* shannon computes the function.                                          *)
FnMeans(pats, val, P, sup, on, lit, has) ==
  /\ IsFiniteSet(sup) /\ sup \subseteq Int /\ lit \in [sup -> Lits]
  /\ \A q \in P : val[q] \subseteq pats
  /\ \A p \in sup : Means(pats, val, P, lit[p], has[p])

(* What all subsets of sup are in that have their lesser ones there.       *)
LEMMA SubsetsAll ==
  ASSUME NEW sup, IsFiniteSet(sup), NEW G,
         \A S \in SUBSET sup : (\A p \in S : S \ {p} \in G) => S \in G
  PROVE  SUBSET sup \subseteq G
<1>1. \A S \in SUBSET sup : IsFiniteSet(S) /\ Cardinality(S) \in Nat
  BY FS_Subset, FS_CardinalityType
<1>. DEFINE T == {Cardinality(S) : S \in (SUBSET sup) \ G}
<1>2. SUFFICES ASSUME T # {} PROVE FALSE
  OBVIOUS
<1>3. PICK k \in T : \A j \in T : k <= j
  <2>1. T \subseteq Nat
    BY <1>1
  <2>. HIDE DEF T
  <2>. QED BY <1>2, <2>1, Smallest
<1>4. PICK S \in (SUBSET sup) \ G : k = Cardinality(S)
  OBVIOUS
<1>5. PICK p \in S : S \ {p} \notin G
  OBVIOUS
<1>6. Cardinality(S \ {p}) = Cardinality(S) - 1
  BY <1>1, FS_RemoveElement
<1>7. Cardinality(S \ {p}) \in T
  BY <1>5
<1>8. Cardinality(S) \in Nat /\ k <= Cardinality(S \ {p})
  <2>. HIDE DEF T
  <2>. QED BY <1>1, <1>3, <1>4, <1>7
<1>9. PICK n : n = Cardinality(S)
  OBVIOUS
<1>. QED BY ONLY <1>4, <1>6, <1>8, <1>9

(* Where a function is 1 once the ports outside of S are known: ones of    *)
(* them are 1.                                                             *)
OnFrom(pats, has, on, S, ones) == {q \in pats : ({p \in S : q \in has[p]} \union ones) \in on}

LEMMA MeansSplit ==
  ASSUME NEW pats, NEW val, NEW P, NEW sup, NEW on, NEW lit, NEW has,
         FnMeans(pats, val, P, sup, on, lit, has), NEW f, IsSplit(sup, on, lit, f),
         NEW S \in SUBSET sup, NEW ones \in SUBSET sup
  PROVE  Means(pats, val, P, f[S][ones], OnFrom(pats, has, on, S, ones))
<1>. DEFINE D == SUBSET sup
            X(U, more) == {q \in pats : ({p \in U : q \in has[p]} \union more) \in on}
            Good(U) == \A more \in D : Means(pats, val, P, f[U][more], X(U, more))
            G == {U \in D : Good(U)}
<1>1. IsFiniteSet(sup) /\ sup \subseteq Int
  BY DEF FnMeans
<1>2. \A U \in D : IsFiniteSet(U) /\ U \subseteq Int
  BY <1>1, FS_Subset
<1>3. ASSUME NEW U \in D, \A p \in U : U \ {p} \in G PROVE U \in G
  <2>1. SUFFICES ASSUME NEW more \in D PROVE Means(pats, val, P, f[U][more], X(U, more))
    OBVIOUS
  <2>2. f[U][more] = Split(sup, on, lit, f, U, more)
    BY DEF IsSplit
  <2>3. CASE U = {}
    <3>1. X(U, more) = IF more \in on THEN pats ELSE {}
      <4>1. \A q : {p \in U : q \in has[p]} \union more = more
        BY <2>3
      <4>. QED BY <4>1
    <3>2. Means(pats, val, P, Zero, {}) /\ Means(pats, val, P, One, pats)
      BY MeansLeaf DEF FnMeans
    <3>3. f[U][more] = IF more \in on THEN One ELSE Zero
      BY <2>2, <2>3 DEF Split
    <3>. HIDE DEF X
    <3>. QED BY <3>1, <3>2, <3>3
  <2>4. CASE U # {}
    <3>1. PICK p : p = NextPort(sup, on, U)
      OBVIOUS
    <3>2. p \in U /\ p \in sup
      BY <1>2, <2>4, <3>1, NextPortIs
    <3>3. PICK L, all : L = U \ {p} /\ all = more \union {p}
      OBVIOUS
    <3>4. L \in D /\ all \in D /\ Good(L)
      <4>. HIDE DEF Good
      <4>. QED BY <1>3, <3>2, <3>3
    <3>5. Means(pats, val, P, f[L][all], X(L, all)) /\ Means(pats, val, P, f[L][more], X(L, more))
      BY <3>4
    <3>6. Means(pats, val, P, lit[p], has[p])
      BY <3>2 DEF FnMeans
    <3>7. Means(pats, val, P, Mux(lit[p], f[L][all], f[L][more]),
                (has[p] \intersect X(L, all)) \union (X(L, more) \ has[p]))
      <4>. HIDE DEF X
      <4>. QED BY ONLY <3>5, <3>6, MeansMux
    <3>8. f[U][more] = Mux(lit[p], f[L][all], f[L][more])
      BY <2>2, <2>4, <3>1, <3>3 DEF Split
    <3>9. X(U, more) = (has[p] \intersect X(L, all)) \union (X(L, more) \ has[p])
      <4>1. ASSUME NEW q PROVE q \in has[p] => {r \in U : q \in has[r]} \union more
                                                = {r \in L : q \in has[r]} \union all
        BY <3>2, <3>3
      <4>2. ASSUME NEW q PROVE q \notin has[p] => {r \in U : q \in has[r]} \union more
                                                   = {r \in L : q \in has[r]} \union more
        BY <3>2, <3>3
      <4>. QED BY <4>1, <4>2
    <3>. HIDE DEF X
    <3>. QED BY <3>7, <3>8, <3>9
  <2>. QED BY <2>3, <2>4
<1>4. S \in G
  <2>. HIDE DEF G
  <2>. QED BY <1>1, <1>3, SubsetsAll
<1>5. Good(S)
  <2>. HIDE DEF Good
  <2>. QED BY <1>4
<1>. QED BY <1>5 DEF OnFrom

LEMMA MeansFn ==
  ASSUME NEW pats, NEW val, NEW P, NEW sup, NEW on, NEW lit, NEW has,
         FnMeans(pats, val, P, sup, on, lit, has)
  PROVE  Means(pats, val, P, FnLit(sup, on, lit), {q \in pats : {p \in sup : q \in has[p]} \in on})
<1>1. FnLits(sup, on, lit)
  BY DEF FnMeans, FnLits
<1>2. PICK f : IsSplit(sup, on, lit, f) /\ FnLit(sup, on, lit) = f[sup][{}]
  BY <1>1, SplitIs
<1>3. Means(pats, val, P, f[sup][{}], OnFrom(pats, has, on, sup, {}))
  BY <1>2, MeansSplit
<1>4. \A q : {p \in sup : q \in has[p]} \union {} = {p \in sup : q \in has[p]}
  OBVIOUS
<1>. QED BY <1>2, <1>3, <1>4 DEF OnFrom

(* The ports of a multiplexer that is controlled by a port its branches    *)
(* do not have: nothing of it is folded.                                   *)
LEMMA AndKept ==
  ASSUME NEW a \in Lits, NEW b \in Lits, a.node # b.node,
         a.node # Zero.node, b.node # Zero.node
  PROVE  /\ And(a, b) \in Lits /\ And(a, b).node.op = "and" /\ And(a, b).node.ins = {a, b}
         /\ And(a, b).ph = 0 /\ PortsOf(And(a, b)) = PortsOf(a) \union PortsOf(b)
<1>1. PICK x : x = AndNode(a, b)
  OBVIOUS
<1>2. And(a, b) = Lit(x, 0)
  <2>1. Zero \notin {a, b} /\ a # One /\ b # One /\ a # b /\ a # Not(b)
    BY LeafFields, LitIs, LitsMade
  <2>. QED BY <1>1, <2>1 DEF And
<1>3. AndOver(x, a, b)
  BY <1>1 DEF AndOver
<1>4. x.op = "and" /\ x.ins = {a, b} /\ Lit(x, 0) \in Lits
  BY <1>3, AndFields, ConeSub
<1>5. PortsOf(Lit(x, 0)) = PortsOf(a) \union PortsOf(b)
  BY <1>3, PortsAre
<1>. QED BY <1>2, <1>4, <1>5, LitIs

LEMMA MuxKept ==
  ASSUME NEW p \in Int, NEW a \in Lits, NEW b \in Lits,
         a.node # Zero.node, b.node # Zero.node, p \notin PortsOf(a), p \notin PortsOf(b)
  PROVE  /\ Mux(Port(p), a, b).node # Zero.node
         /\ PortsOf(Mux(Port(p), a, b)) = {p} \union PortsOf(a) \union PortsOf(b)
<1>1. PICK s, n : s = Port(p) /\ n = Not(s)
  OBVIOUS
<1>2. /\ s \in Lits /\ n \in Lits /\ n # s /\ n.node = s.node
      /\ PortsOf(s) = {p} /\ PortsOf(n) = {p} /\ s.node # Zero.node
  BY <1>1, LitsMade, PortsAre, LeafFields
<1>3. ASSUME NEW l \in Lits, p \notin PortsOf(l) PROVE l.node # s.node
  <2>1. l = Lit(l.node, l.ph) /\ PortsOf(Lit(s.node, l.ph)) = {p}
    BY <1>2, LitIs, PortsAre
  <2>. QED BY <1>3, <2>1
<1>4. a.node # s.node /\ b.node # s.node
  BY <1>3
<1>5. PICK t, e : t = And(s, a) /\ e = And(n, b)
  OBVIOUS
<1>6. /\ t \in Lits /\ t.node.op = "and" /\ t.node.ins = {s, a}
      /\ PortsOf(t) = {p} \union PortsOf(a)
  BY <1>2, <1>4, <1>5, AndKept
<1>7. /\ e \in Lits /\ e.node.op = "and" /\ e.node.ins = {n, b}
      /\ PortsOf(e) = {p} \union PortsOf(b)
  BY <1>2, <1>4, <1>5, AndKept
<1>8. t.node # e.node
  <2>1. s \in t.node.ins /\ s \notin e.node.ins
    BY <1>2, <1>4, <1>6, <1>7
  <2>. QED BY <2>1
<1>9. t.node # Zero.node /\ e.node # Zero.node
  BY <1>6, <1>7, LeafFields
<1>10. PICK u, w : u = Not(t) /\ w = Not(e)
  OBVIOUS
<1>11. /\ u \in Lits /\ w \in Lits /\ u.node = t.node /\ w.node = e.node
       /\ PortsOf(u) = PortsOf(t) /\ PortsOf(w) = PortsOf(e)
  BY <1>6, <1>7, <1>10, LitsMade, PortsAre
<1>12. PICK m : m = And(u, w)
  OBVIOUS
<1>13. m \in Lits /\ m.node.op = "and" /\ PortsOf(m) = PortsOf(u) \union PortsOf(w)
  BY <1>8, <1>9, <1>11, <1>12, AndKept
<1>14. Mux(s, a, b) = Not(m)
  BY <1>1, <1>5, <1>10, <1>12 DEF Mux, Or
<1>15. Not(m).node = m.node /\ PortsOf(Not(m)) = PortsOf(m)
  BY <1>13, LitsMade, PortsAre
<1>16. Not(m).node # Zero.node
  BY <1>13, <1>15, LeafFields
<1>. QED BY <1>1, <1>6, <1>7, <1>11, <1>13, <1>14, <1>15, <1>16

(* What shannon makes of the ports S, over ports, has no others.           *)
PortLits(sup) == [p \in sup |-> Port(p)]

SplitOfPorts(sup, on, f, S, ones) ==
  /\ IsFiniteSet(sup) /\ sup \subseteq Int /\ IsSplit(sup, on, PortLits(sup), f)
  /\ S \subseteq sup /\ ones \subseteq sup

LEMMA SplitPorts ==
  ASSUME NEW sup, NEW on, NEW f, NEW S, NEW ones, SplitOfPorts(sup, on, f, S, ones)
  PROVE  f[S][ones] \in Lits /\ PortsOf(f[S][ones]) \subseteq S
<1>. DEFINE D == SUBSET sup
            Good(U) == \A more \in D : f[U][more] \in Lits /\ PortsOf(f[U][more]) \subseteq U
            G == {U \in D : Good(U)}
<1>1. /\ IsFiniteSet(sup) /\ sup \subseteq Int /\ IsSplit(sup, on, PortLits(sup), f)
      /\ S \in D /\ ones \in D
  BY DEF SplitOfPorts
<1>2. \A U \in D : IsFiniteSet(U) /\ U \subseteq Int
  BY <1>1, FS_Subset
<1>3. ASSUME NEW U \in D, \A p \in U : U \ {p} \in G PROVE U \in G
  <2>1. SUFFICES ASSUME NEW more \in D PROVE f[U][more] \in Lits /\ PortsOf(f[U][more]) \subseteq U
    OBVIOUS
  <2>2. f[U][more] = Split(sup, on, PortLits(sup), f, U, more)
    BY <1>1 DEF IsSplit
  <2>3. CASE U = {}
    BY <2>2, <2>3, LitsMade, PortsAre DEF Split
  <2>4. CASE U # {}
    <3>1. PICK p : p = NextPort(sup, on, U)
      OBVIOUS
    <3>2. p \in U /\ p \in sup /\ p \in Int
      BY <1>2, <2>4, <3>1, NextPortIs
    <3>3. PICK L, a, b : L = U \ {p} /\ a = f[L][more \union {p}] /\ b = f[L][more]
      OBVIOUS
    <3>4. L \in D /\ more \union {p} \in D /\ Good(L)
      <4>. HIDE DEF Good
      <4>. QED BY <1>3, <3>2, <3>3
    <3>5. a \in Lits /\ b \in Lits /\ PortsOf(a) \subseteq U /\ PortsOf(b) \subseteq U
      BY <3>3, <3>4
    <3>6. f[U][more] = Mux(Port(p), a, b)
      BY <2>2, <2>4, <3>1, <3>2, <3>3 DEF Split, PortLits
    <3>7. PICK val : val = [q \in Int |-> {}]
      OBVIOUS
    <3>8. Port(p) \in Lits /\ PortsOf(Port(p)) = {p}
      BY <3>2, LitsMade, PortsAre
    <3>9. Suited({}, val, Port(p)) /\ Suited({}, val, a) /\ Suited({}, val, b)
      <4>1. \A l \in Lits : PortsOf(l) \subseteq Int
        BY PortsAre
      <4>. QED BY <3>5, <3>7, <3>8, <4>1 DEF Suited
    <3>10. PortsOf(Mux(Port(p), a, b)) \subseteq PortsOf(Port(p)) \union PortsOf(a) \union PortsOf(b)
      BY <3>5, <3>8, <3>9, TermMux
    <3>11. Mux(Port(p), a, b) \in Lits
      BY <3>5, <3>8, LitsOr
    <3>. QED BY <3>2, <3>5, <3>6, <3>8, <3>10, <3>11
  <2>. QED BY <2>3, <2>4
<1>4. S \in G
  <2>. HIDE DEF G
  <2>. QED BY <1>1, <1>3, SubsetsAll
<1>. QED BY <1>1, <1>4

-----------------------------------------------------------------------------
(* The AIG of the current circuit (CurLits, specByMap's nets in the        *)
(* source) has the values of the circuit.                                  *)

(* A circuit with gates as the parser leaves them, and an R2.              *)
Gated(c) ==
  /\ IsCircuit(c)
  /\ \A n \in Driven(c) : /\ c.gate[n].ins \in Seq(Int)
                          /\ c.gate[n].type \in {"not", "buf"} => Len(c.gate[n].ins) = 1

FinitePatches(drv) == \A n \in DOMAIN drv : IsFiniteSet(drv[n].sup)

(* A literal over the inputs of G1, with its value.                        *)
Carries(c, l, X) == Means(Patterns(c), AllInputs(c), Inputs(c), l, X)

LEMMA InputsAre ==
  ASSUME NEW c, IsCircuit(c)
  PROVE  /\ \A n \in Inputs(c) : AllInputs(c)[n] = c.pis[n] /\ AllInputs(c)[n] \subseteq Patterns(c)
         /\ \A n \in Inputs(c) : Carries(c, Port(n), c.pis[n])
         /\ Carries(c, Zero, {}) /\ Carries(c, One, Patterns(c))
<1>1. \A n \in Inputs(c) : AllInputs(c)[n] = c.pis[n] /\ AllInputs(c)[n] \subseteq Patterns(c)
  BY DEF AllInputs, IsCircuit
<1>2. \A n \in Inputs(c) : n \in Int
  BY DEF IsCircuit
<1>3. Carries(c, Zero, {}) /\ Carries(c, One, Patterns(c))
  BY <1>1, MeansLeaf DEF Carries
<1>4. ASSUME NEW n \in Inputs(c) PROVE Carries(c, Port(n), c.pis[n])
  <2>1. Means(Patterns(c), AllInputs(c), Inputs(c), Port(n), AllInputs(c)[n])
    BY <1>1, <1>2, MeansLeaf
  <2>. QED BY <1>1, <2>1 DEF Carries
<1>. QED BY <1>1, <1>3, <1>4

(* The literal of a gate whose inputs have literals.                       *)
LEMMA GateCarries ==
  ASSUME NEW c, Gated(c), NEW n \in Driven(c), NEW lits, NEW cur,
         \A m \in Ins(c, n) : Carries(c, lits[m], cur[m])
  PROVE  Carries(c, GateTerm(c.gate[n].type, [i \in DOMAIN c.gate[n].ins |-> lits[c.gate[n].ins[i]]]),
                 GateFn(c, c.gate[n].type, [i \in DOMAIN c.gate[n].ins |-> cur[c.gate[n].ins[i]]]))
<1>1. PICK type, ins : type = c.gate[n].type /\ ins = c.gate[n].ins
  OBVIOUS
<1>2. /\ ins \in Seq(Int) /\ type \in GateTypes /\ (type \in {"not", "buf"} => Len(ins) = 1)
  BY <1>1 DEF Gated, IsCircuit
<1>3. \A i \in DOMAIN ins : Carries(c, lits[ins[i]], cur[ins[i]])
  BY <1>1 DEF Ins
<1>4. PICK t, in : t = [i \in DOMAIN ins |-> lits[ins[i]]] /\ in = [i \in DOMAIN ins |-> cur[ins[i]]]
  OBVIOUS
<1>5. \A i \in DOMAIN ins : Means(Patterns(c), AllInputs(c), Inputs(c), t[i], in[i])
  BY <1>3, <1>4 DEF Carries
<1>6. DOMAIN in = DOMAIN ins /\ DOMAIN t = DOMAIN ins
  BY <1>4
<1>7. t \in Seq(Lits) /\ Len(t) = Len(ins)
  <2>1. \A i \in DOMAIN ins : t[i] \in Lits
    BY <1>5 DEF Means
  <2>2. DOMAIN ins = 1 .. Len(ins) /\ Len(ins) \in Nat
    BY <1>2
  <2>. QED BY <1>4, <2>1, <2>2
<1>8. IsTermGate(type, t)
  BY <1>2, <1>7 DEF IsTermGate
<1>9. \A q \in Inputs(c) : AllInputs(c)[q] \subseteq Patterns(c)
  BY InputsAre DEF Gated
<1>10. Means(Patterns(c), AllInputs(c), Inputs(c), GateTerm(type, t), GateFn(c, type, in))
  BY <1>5, <1>6, <1>8, <1>9, MeansGate
<1>. QED BY <1>1, <1>4, <1>10 DEF Carries

LEMMA PortCarries ==
  ASSUME NEW c, Gated(c), NEW lits, NEW cur, NEW p \in Int,
         p \in c.nets \/ -p \in Inputs(c) \union Driven(c),
         p > 0 => Carries(c, lits[p], cur[p]),
         ~(p > 0) /\ -p \notin Inputs(c) => \A m \in Ins(c, -p) : Carries(c, lits[m], cur[m])
  PROVE  Carries(c, PortLit(c, lits, p), PortValue(c, cur, p))
<1>1. CASE p > 0
  BY <1>1 DEF PortLit, PortValue
<1>2. CASE ~(p > 0) /\ -p \in Inputs(c)
  BY <1>2, InputsAre DEF PortLit, PortValue, Gated
<1>3. CASE ~(p > 0) /\ -p \notin Inputs(c)
  <2>1. -p \in Driven(c)
    <3>1. p \notin c.nets
      BY <1>3 DEF Gated, IsCircuit
    <3>. QED BY <1>3, <3>1
  <2>2. PICK n \in Driven(c) : n = -p
    BY <2>1
  <2>3. \A m \in Ins(c, n) : Carries(c, lits[m], cur[m])
    BY <1>3, <2>2
  <2>4. Carries(c, GateTerm(c.gate[n].type, [i \in DOMAIN c.gate[n].ins |-> lits[c.gate[n].ins[i]]]),
                 GateFn(c, c.gate[n].type, [i \in DOMAIN c.gate[n].ins |-> cur[c.gate[n].ins[i]]]))
    BY <2>3, GateCarries
  <2>. QED BY <1>3, <2>2, <2>4 DEF PortLit, PortValue
<1>. QED BY <1>1, <1>2, <1>3

LEMMA NetCarries ==
  ASSUME NEW c, Gated(c), NEW drv, PatchesOK(c, drv), FinitePatches(drv), NEW lits, NEW cur,
         NEW n, n \in DOMAIN drv \/ n \in Driven(c),
         \A m \in Reads(c, drv, n) : Carries(c, lits[m], cur[m])
  PROVE  Carries(c, NetTerm(c, drv, lits, n), NetValue(c, drv, cur, n))
<1>1. CASE n \in DOMAIN drv
  <2>1. PICK sup, on : sup = drv[n].sup /\ on = drv[n].on
    OBVIOUS
  <2>2. PICK lit, has : lit = [p \in sup |-> PortLit(c, lits, p)] /\ has = [p \in sup |-> PortValue(c, cur, p)]
    OBVIOUS
  <2>3. \A p \in sup : p \in Int /\ (p \in c.nets \/ -p \in Inputs(c) \union Driven(c))
    BY <1>1, <2>1 DEF PatchesOK, Gated, IsCircuit
  <2>4. ASSUME NEW p \in sup PROVE Carries(c, lit[p], has[p])
    <3>1. p > 0 => p \in Reads(c, drv, n)
      BY <1>1, <2>1 DEF Reads
    <3>2. ~(p > 0) /\ -p \notin Inputs(c) => Ins(c, -p) \subseteq Reads(c, drv, n)
      BY <1>1, <2>1 DEF Reads
    <3>3. p > 0 => Carries(c, lits[p], cur[p])
      BY <3>1
    <3>4. ~(p > 0) /\ -p \notin Inputs(c) => \A m \in Ins(c, -p) : Carries(c, lits[m], cur[m])
      BY <3>2
    <3>5. Carries(c, PortLit(c, lits, p), PortValue(c, cur, p))
      BY <2>3, <3>3, <3>4, PortCarries
    <3>. QED BY <2>2, <3>5
  <2>5. FnMeans(Patterns(c), AllInputs(c), Inputs(c), sup, on, lit, has)
    <3>1. IsFiniteSet(sup) /\ sup \subseteq Int
      BY <1>1, <2>1, <2>3 DEF FinitePatches
    <3>2. lit \in [sup -> Lits] /\ \A p \in sup : Means(Patterns(c), AllInputs(c), Inputs(c), lit[p], has[p])
      BY <2>2, <2>4 DEF Carries, Means
    <3>3. \A q \in Inputs(c) : AllInputs(c)[q] \subseteq Patterns(c)
      BY InputsAre DEF Gated
    <3>. QED BY <3>1, <3>2, <3>3 DEF FnMeans
  <2>6. Means(Patterns(c), AllInputs(c), Inputs(c), FnLit(sup, on, lit),
              {q \in Patterns(c) : {p \in sup : q \in has[p]} \in on})
    BY <2>5, MeansFn
  <2>7. NetTerm(c, drv, lits, n) = FnLit(sup, on, lit)
    BY <1>1, <2>1, <2>2 DEF NetTerm
  <2>8. NetValue(c, drv, cur, n) = {q \in Patterns(c) : {p \in sup : q \in has[p]} \in on}
    <3>1. \A q : {p \in sup : q \in has[p]} = {p \in drv[n].sup : q \in PortValue(c, cur, p)}
      BY <2>1, <2>2
    <3>. QED BY <1>1, <2>1, <3>1 DEF NetValue, PatchValue
  <2>. QED BY <2>6, <2>7, <2>8 DEF Carries
<1>2. CASE n \notin DOMAIN drv
  <2>1. n \in Driven(c) /\ Ins(c, n) = Reads(c, drv, n)
    BY <1>2 DEF Reads
  <2>2. \A m \in Ins(c, n) : Carries(c, lits[m], cur[m])
    BY <2>1
  <2>3. Carries(c, GateTerm(c.gate[n].type, [i \in DOMAIN c.gate[n].ins |-> lits[c.gate[n].ins[i]]]),
                 GateFn(c, c.gate[n].type, [i \in DOMAIN c.gate[n].ins |-> cur[c.gate[n].ins[i]]]))
    BY <2>1, <2>2, GateCarries
  <2>. QED BY <1>2, <2>3 DEF NetTerm, NetValue
<1>. QED BY <1>1, <1>2

-----------------------------------------------------------------------------
(* The literals of all nets: CurLits adds those of ready nets, round by    *)
(* round.                                                                  *)
LitsOf(c) == UNION {[D -> Lits] : D \in SUBSET NetsOf(c)}

GivenLits(c, drv) ==
  [n \in {0, 1} \union (Inputs(c) \ DOMAIN drv) |->
     IF n = 0 THEN Zero ELSE IF n = 1 THEN One ELSE Port(n)]

ReadyLits(c, drv, lits) ==
  {n \in (DOMAIN drv \union Driven(c)) \ DOMAIN lits : Reads(c, drv, n) \subseteq DOMAIN lits}

NextLits(c, drv, lits) ==
  [n \in DOMAIN lits \union ReadyLits(c, drv, lits) |->
     IF n \in DOMAIN lits THEN lits[n] ELSE NetTerm(c, drv, lits, n)]

(* Every literal given so far is that of its net's value.                  *)
Exact(c, drv, lits) ==
  /\ lits \in LitsOf(c) /\ {0, 1} \union (Inputs(c) \ DOMAIN drv) \subseteq DOMAIN lits
  /\ \A n \in DOMAIN lits : /\ Evaluate(c, drv)[n] # Unset
                            /\ Carries(c, lits[n], Evaluate(c, drv)[n])

LEMMA LitsOfIs ==
  ASSUME NEW c, NEW lits
  PROVE  lits \in LitsOf(c) <=> lits \in [DOMAIN lits -> Lits] /\ DOMAIN lits \subseteq NetsOf(c)
BY DEF LitsOf

LEMMA GivenExact ==
  ASSUME NEW c, Gated(c), NEW drv, PatchesOK(c, drv)
  PROVE  Exact(c, drv, GivenLits(c, drv))
<1>1. PICK lits, cur : lits = GivenLits(c, drv) /\ cur = Evaluate(c, drv)
  OBVIOUS
<1>2. IsEvaluated(c, drv, cur)
  BY <1>1, EvaluateEvaluates DEF Gated
<1>3. /\ cur[0] = {} /\ cur[1] = Patterns(c) /\ \A n \in Inputs(c) \ DOMAIN drv : cur[n] = c.pis[n]
  BY <1>2 DEF IsEvaluated, Const
<1>4. DOMAIN lits = {0, 1} \union (Inputs(c) \ DOMAIN drv) /\ DOMAIN lits \subseteq NetsOf(c)
  BY <1>1 DEF GivenLits, NetsOf, Gated, IsCircuit
<1>5. 0 \notin Inputs(c) /\ 1 \notin Inputs(c) /\ Inputs(c) \subseteq Int
  BY DEF Gated, IsCircuit
<1>6. lits[0] = Zero /\ lits[1] = One /\ \A n \in Inputs(c) \ DOMAIN drv : lits[n] = Port(n)
  BY <1>1, <1>5 DEF GivenLits
<1>7. ASSUME NEW n \in DOMAIN lits PROVE cur[n] # Unset /\ Carries(c, lits[n], cur[n])
  <2>1. Carries(c, lits[n], cur[n])
    <3>1. /\ \A m \in Inputs(c) : Carries(c, Port(m), c.pis[m])
          /\ Carries(c, Zero, {}) /\ Carries(c, One, Patterns(c))
      BY InputsAre DEF Gated
    <3>2. n = 0 \/ n = 1 \/ n \in Inputs(c) \ DOMAIN drv
      BY <1>4
    <3>3. CASE n = 0
      BY <1>3, <1>6, <3>1, <3>3
    <3>4. CASE n = 1
      BY <1>3, <1>6, <3>1, <3>4
    <3>5. CASE n \in Inputs(c) \ DOMAIN drv
      BY <1>3, <1>6, <3>1, <3>5
    <3>. QED BY <3>2, <3>3, <3>4, <3>5
  <2>2. cur[n] \subseteq Patterns(c)
    BY <2>1, MeansSuited DEF Carries
  <2>. QED BY <2>1, <2>2, IsValue DEF Gated
<1>8. lits \in LitsOf(c)
  <2>1. \A n \in DOMAIN lits : lits[n] \in Lits
    BY <1>7 DEF Carries, Means
  <2>2. lits \in [DOMAIN lits -> Lits]
    BY <1>1, <2>1 DEF GivenLits
  <2>. QED BY <1>4, <2>2, LitsOfIs
<1>9. Exact(c, drv, lits)
  BY <1>1, <1>4, <1>7, <1>8 DEF Exact
<1>. QED BY <1>1, <1>9

LEMMA NextExact ==
  ASSUME NEW c, Gated(c), NEW drv, PatchesOK(c, drv), FinitePatches(drv),
         NEW lits, Exact(c, drv, lits)
  PROVE  Exact(c, drv, NextLits(c, drv, lits))
<1>1. PICK next, cur, new : /\ next = NextLits(c, drv, lits) /\ cur = Evaluate(c, drv)
                            /\ new = ReadyLits(c, drv, lits)
  OBVIOUS
<1>2. IsEvaluated(c, drv, cur)
  BY <1>1, EvaluateEvaluates DEF Gated
<1>3. DOMAIN next = DOMAIN lits \union new /\ next = [n \in DOMAIN next |-> next[n]]
  BY <1>1 DEF NextLits
<1>4. \A n \in DOMAIN lits : next[n] = lits[n] /\ cur[n] # Unset /\ Carries(c, next[n], cur[n])
  BY <1>1 DEF NextLits, Exact
<1>5. ASSUME NEW n \in new PROVE n \in c.nets /\ cur[n] # Unset /\ Carries(c, next[n], cur[n])
  <2>1. /\ n \in DOMAIN drv \union Driven(c) /\ n \notin DOMAIN lits
        /\ Reads(c, drv, n) \subseteq DOMAIN lits
    BY <1>1 DEF ReadyLits
  <2>2. \A m \in Reads(c, drv, n) : cur[m] # Unset /\ Carries(c, lits[m], cur[m])
    BY <1>1, <2>1 DEF Exact
  <2>3. cur[n] # Unset
    BY <1>2, <2>1, <2>2 DEF IsEvaluated
  <2>4. cur[n] = NetValue(c, drv, cur, n)
    BY <1>2, <2>1, <2>3 DEF IsEvaluated
  <2>5. Carries(c, NetTerm(c, drv, lits, n), NetValue(c, drv, cur, n))
    BY <2>1, <2>2, NetCarries
  <2>6. next[n] = NetTerm(c, drv, lits, n)
    BY <1>1, <2>1 DEF NextLits
  <2>7. n \in c.nets
    BY <2>1 DEF PatchesOK, Gated, IsCircuit
  <2>. QED BY <2>3, <2>4, <2>5, <2>6, <2>7
<1>6. next \in LitsOf(c)
  <2>1. \A n \in DOMAIN next : next[n] \in Lits
    BY <1>3, <1>4, <1>5 DEF Carries, Means
  <2>2. DOMAIN lits \subseteq NetsOf(c)
    BY LitsOfIs DEF Exact
  <2>3. DOMAIN next \subseteq NetsOf(c)
    BY <1>3, <1>5, <2>2 DEF NetsOf
  <2>. QED BY <1>3, <2>1, <2>3, LitsOfIs
<1>7. Exact(c, drv, next)
  BY <1>1, <1>3, <1>4, <1>5, <1>6 DEF Exact
<1>. QED BY <1>1, <1>7

LEMMA MoreLits ==
  ASSUME NEW c, IsFiniteSet(c.nets), {0, 1} \intersect c.nets = {}, NEW lits \in LitsOf(c)
  PROVE  /\ Cardinality(c.nets) \in Nat
         /\ Cardinality(c.nets \intersect DOMAIN lits) \in 0 .. Cardinality(c.nets)
         /\ \A S \in SUBSET NetsOf(c) : S # {} /\ S \intersect DOMAIN lits = {} /\ {0, 1} \subseteq DOMAIN lits =>
              Cardinality(c.nets \intersect (DOMAIN lits \union S)) > Cardinality(c.nets \intersect DOMAIN lits)
<1>1. PICK D, A : D = DOMAIN lits /\ A = c.nets \intersect D
  OBVIOUS
<1>2. IsFiniteSet(A) /\ Cardinality(A) \in Nat /\ Cardinality(c.nets) \in Nat
      /\ Cardinality(A) <= Cardinality(c.nets)
  BY <1>1, FS_Subset, FS_CardinalityType
<1>3. ASSUME NEW S \in SUBSET NetsOf(c), S # {}, S \intersect D = {}, {0, 1} \subseteq D
      PROVE  Cardinality(c.nets \intersect (D \union S)) > Cardinality(A)
  <2>1. PICK B : B = c.nets \intersect (D \union S)
    OBVIOUS
  <2>2. PICK x \in S : TRUE
    BY <1>3
  <2>3. x \in c.nets
    BY <1>3, <2>2 DEF NetsOf
  <2>4. A \subseteq B /\ A # B /\ IsFiniteSet(B)
    BY <1>1, <1>3, <2>1, <2>2, <2>3, FS_Subset
  <2>6. Cardinality(B) \in Nat
    BY <2>4, FS_CardinalityType
  <2>7. Cardinality(A) <= Cardinality(B) /\ Cardinality(A) # Cardinality(B)
    BY ONLY <2>4, FS_Subset
  <2>5. Cardinality(A) < Cardinality(B)
    BY <1>2, <2>6, <2>7
  <2>. QED BY <1>2, <2>1, <2>5, <2>6
<1>. QED BY <1>1, <1>2, <1>3

(* evalInto gives every net that has a value a literal with this value.    *)
LEMMA CurLitsEnd ==
  ASSUME NEW c, Gated(c), NEW drv, PatchesOK(c, drv), FinitePatches(drv)
  PROVE  Exact(c, drv, CurLits(c, drv)) /\ ReadyLits(c, drv, CurLits(c, drv)) = {}
<1>. DEFINE N == Cardinality(c.nets)
            V == {lits \in LitsOf(c) : Exact(c, drv, lits)}
            G == [lits \in V |-> NextLits(c, drv, lits)]
            mu == [lits \in V |-> Cardinality(c.nets \intersect DOMAIN lits)]
            x == GivenLits(c, drv)
            Is(h) == h = [i \in 0 .. N |-> IF i = 0 THEN x ELSE NextLits(c, drv, h[i - 1])]
<1>1. IsFiniteSet(c.nets) /\ {0, 1} \intersect c.nets = {} /\ N \in Nat
  BY FS_CardinalityType DEF Gated, IsCircuit
<1>2. x \in V
  BY GivenExact DEF Exact
<1>3. G \in [V -> V]
  BY NextExact DEF Exact
<1>4. PICK f : IsIteration(f, x, G, V, N)
  <2>. HIDE DEF N, V, G, x
  <2>. QED BY <1>1, <1>2, <1>3, IterationExists
<1>5. /\ f \in [0 .. N -> V] /\ f[0] = x /\ \A i \in 1 .. N : f[i] = G[f[i - 1]]
  <2>. HIDE DEF N, V, G, x
  <2>. QED BY <1>4 DEF IsIteration
<1>6. \A i \in 1 .. N : i - 1 \in 0 .. N /\ f[i] = NextLits(c, drv, f[i - 1])
  <2>1. \A i \in 1 .. N : i - 1 \in 0 .. N
    BY <1>1
  <2>. HIDE DEF N, V, x
  <2>. QED BY <1>5, <2>1
<1>7. Is(f)
  <2>. HIDE DEF V, x
  <2>. QED BY <1>1, <1>5, <1>6
<1>8. PICK h : h = CHOOSE g : Is(g)
  OBVIOUS
<1>9. Is(h)
  <2>. HIDE DEF Is
  <2>. QED BY <1>7, <1>8
<1>10. CurLits(c, drv) = h[N]
  BY <1>8 DEF CurLits, NextLits, ReadyLits, GivenLits
<1>11. h[0] = x /\ \A i \in 1 .. N : h[i] = NextLits(c, drv, h[i - 1])
  <2>. HIDE DEF x
  <2>. QED BY <1>1, <1>9
<1>12. \A i \in 0 .. N : h[i] = f[i]
  <2>. DEFINE T == {i \in 0 .. N : h[i] = f[i]}
  <2>1. 0 \in T
    BY <1>1, <1>5, <1>11
  <2>2. ASSUME NEW i \in 1 .. N, i - 1 \in T PROVE i \in T
    BY <1>6, <1>11, <2>2
  <2>3. 0 .. N \subseteq T
    <3>. HIDE DEF T, N
    <3>. QED BY <1>1, <2>1, <2>2, UpTo
  <2>. QED BY <2>3
<1>13. f[N] \in V /\ h[N] = f[N]
  <2>1. N \in 0 .. N
    BY <1>1
  <2>. HIDE DEF N, V, x
  <2>. QED BY <1>5, <1>12, <2>1
<1>14. G[f[N]] = f[N]
  <2>1. mu \in [V -> 0 .. N]
    <3>1. \A lits \in V : Cardinality(c.nets \intersect DOMAIN lits) \in 0 .. N
      BY <1>1, MoreLits
    <3>. HIDE DEF V, N
    <3>. QED BY <3>1
  <2>2. N <= mu[x] + N
    <3>1. mu[x] \in 0 .. N
      <4>. HIDE DEF V, N, mu, x
      <4>. QED BY <1>2, <2>1
    <3>. HIDE DEF mu, N, x
    <3>. QED BY <1>1, <3>1
  <2>3. ASSUME NEW lits \in V PROVE G[lits] = lits \/ mu[G[lits]] > mu[lits]
    <3>1. PICK S : S = ReadyLits(c, drv, lits)
      OBVIOUS
    <3>2. G[lits] = NextLits(c, drv, lits) /\ G[lits] \in V
      <4>. HIDE DEF V
      <4>. QED BY <1>3
    <3>3. DOMAIN G[lits] = DOMAIN lits \union S
      BY <3>1, <3>2 DEF NextLits
    <3>4. S \intersect DOMAIN lits = {} /\ S \subseteq NetsOf(c)
      BY <3>1 DEF ReadyLits, PatchesOK, Gated, IsCircuit, NetsOf
    <3>5. lits \in [DOMAIN lits -> Lits] /\ {0, 1} \subseteq DOMAIN lits /\ lits \in LitsOf(c)
      BY LitsOfIs DEF Exact
    <3>6. CASE S = {}
      <4>1. NextLits(c, drv, lits) = lits
        BY <3>1, <3>5, <3>6 DEF NextLits
      <4>. QED BY <3>2, <4>1
    <3>7. CASE S # {}
      <4>1. Cardinality(c.nets \intersect (DOMAIN lits \union S)) > Cardinality(c.nets \intersect DOMAIN lits)
        BY <1>1, <3>4, <3>5, <3>7, MoreLits
      <4>2. mu[lits] = Cardinality(c.nets \intersect DOMAIN lits)
            /\ mu[G[lits]] = Cardinality(c.nets \intersect DOMAIN G[lits])
        <5>. HIDE DEF V, G
        <5>. QED BY <3>2
      <4>. QED BY <3>3, <4>1, <4>2
    <3>. QED BY <3>6, <3>7
  <2>. HIDE DEF N, V, G, mu, x
  <2>. QED BY <1>1, <1>4, <2>1, <2>2, <2>3, IterationStops
<1>15. NextLits(c, drv, f[N]) = f[N]
  <2>. HIDE DEF V
  <2>. QED BY <1>13, <1>14
<1>16. ReadyLits(c, drv, f[N]) = {}
  <2>1. DOMAIN NextLits(c, drv, f[N]) = DOMAIN f[N] \union ReadyLits(c, drv, f[N])
    BY DEF NextLits
  <2>. QED BY <1>15, <2>1 DEF ReadyLits
<1>17. Exact(c, drv, f[N])
  BY <1>13
<1>. QED BY <1>10, <1>13, <1>16, <1>17

LEMMA CurLitsAre ==
  ASSUME NEW c, Gated(c), NEW drv, PatchesOK(c, drv), FinitePatches(drv),
         NEW lits, lits = CurLits(c, drv), NEW cur, cur = Evaluate(c, drv)
  PROVE  /\ DOMAIN lits = {n \in NetsOf(c) : cur[n] # Unset}
         /\ \A n \in DOMAIN lits : lits[n] \in Lits /\ Carries(c, lits[n], cur[n])
<1>1. Exact(c, drv, lits) /\ ReadyLits(c, drv, lits) = {}
  BY CurLitsEnd
<1>2. IsEvaluated(c, drv, cur)
  BY EvaluateEvaluates DEF Gated
<1>3. DOMAIN lits \subseteq {n \in NetsOf(c) : cur[n] # Unset}
  BY <1>1, LitsOfIs DEF Exact
<1>7. PICK b \in Nat : \E rank \in [NetsOf(c) -> 0 .. b] :
        \A n \in DOMAIN drv \union Driven(c) : cur[n] # Unset =>
          \A m \in Reads(c, drv, n) : rank[m] < rank[n]
  BY <1>2 DEF IsEvaluated
<1>4. PICK rank \in [NetsOf(c) -> 0 .. b] :
        \A n \in DOMAIN drv \union Driven(c) : cur[n] # Unset =>
          \A m \in Reads(c, drv, n) : rank[m] < rank[n]
  BY <1>7
<1>5. PICK X : X = {n \in NetsOf(c) : cur[n] # Unset} \ DOMAIN lits
  OBVIOUS
<1>6. X = {}
  <2>1. SUFFICES ASSUME X # {} PROVE FALSE
    OBVIOUS
  <2>2. PICK n \in X : \A m \in X : rank[n] <= rank[m]
    BY <1>4, <1>5, <2>1, Lowest
  <2>3. n \in c.nets /\ n \notin Inputs(c) \ DOMAIN drv /\ cur[n] # Unset
    BY <1>1, <1>5, <2>2 DEF Exact, NetsOf
  <2>4. n \in DOMAIN drv \union Driven(c)
    BY <1>2, <2>3 DEF IsEvaluated
  <2>5. \A m \in Reads(c, drv, n) : cur[m] # Unset /\ rank[m] < rank[n]
    BY <1>2, <1>4, <2>3, <2>4 DEF IsEvaluated
  <2>6. Reads(c, drv, n) \subseteq NetsOf(c)
    BY <2>4, ReadsTyped DEF Gated
  <2>7. Reads(c, drv, n) \subseteq DOMAIN lits
    <3>. SUFFICES ASSUME NEW m \in Reads(c, drv, n), m \notin DOMAIN lits PROVE FALSE
      OBVIOUS
    <3>1. m \in X /\ rank[m] < rank[n]
      BY <1>5, <2>5, <2>6
    <3>2. rank[m] \in 0 .. b /\ rank[n] \in 0 .. b
      BY <1>4, <1>5, <2>2, <3>1
    <3>. QED BY <2>2, <3>1, <3>2
  <2>. QED BY <1>1, <1>5, <2>2, <2>4, <2>7 DEF ReadyLits
<1>. QED BY <1>1, <1>3, <1>5, <1>6 DEF Exact, Carries, Means

-----------------------------------------------------------------------------
(* buildVar: the literal that it gives means what it was asked for,        *)
(* whatever net it takes for a node (by cut points, constants or current   *)
(* values).                                                                *)

(* Least is the least element of a set of numbers.                         *)
LEMMA LeastIs ==
  ASSUME NEW N, N \subseteq Nat, N # {}
  PROVE  Least(N) \in N
BY Smallest DEF Least

(* What buildVar may give a node l that it need not build.  ByNet: a       *)
(* usable net carries it or its complement; ByConst: it is a constant;     *)
(* ByValue: a net has its current value or the opposite one.               *)
ByNet(c, ctx, l, n, ph, m) ==
  /\ n \in c.nets \intersect DOMAIN ctx.nets /\ ph \in {0, 1}
  /\ Same(c, ctx.merged, ctx.nets[n], Flip(l, ph)) /\ Usable(c, ctx, n) # NoNet
  /\ m = Flip(Port(Usable(c, ctx, n)), ph)
ByConst(c, ctx, l, m) == m \in {Zero, One} /\ Same(c, ctx.merged, l, m)
ByValue(c, ctx, l, n, m) ==
  /\ n \in DOMAIN ctx.lazy /\ ctx.lazy[n] \in {Value(c, l), Patterns(c) \ Value(c, l)}
  /\ m = Flip(Port(n), IF ctx.lazy[n] = Value(c, l) THEN 0 ELSE 1)
Matches(c, ctx, l, m) ==
  \/ \E n, ph : ByNet(c, ctx, l, n, ph, m)
  \/ ByConst(c, ctx, l, m)
  \/ \E n : ByValue(c, ctx, l, n, m)

Choosing(c, ctx) == c.nets \subseteq Nat /\ DOMAIN ctx.lazy \subseteq c.nets

LEMMA MatchedIs ==
  ASSUME NEW c, NEW ctx, Choosing(c, ctx), NEW l
  PROVE  Matched(c, ctx, l) = NoLit \/ Matches(c, ctx, l, Matched(c, ctx, l))
<1>. DEFINE nets(ph) == {n \in c.nets \intersect DOMAIN ctx.nets :
                     /\ Same(c, ctx.merged, ctx.nets[n], Flip(l, ph))
                     /\ Usable(c, ctx, n) # NoNet}
            const == {k \in {Zero, One} : Same(c, ctx.merged, l, k)}
            x == Value(c, l)
            lazy == {n \in DOMAIN ctx.lazy : ctx.lazy[n] \in {x, Patterns(c) \ x}}
            M == Matched(c, ctx, l)
            R == IF const # {} THEN CHOOSE k \in const : TRUE
                 ELSE LazyCarrier(ctx.lazy, lazy, x)
<1>1. M = Else(Carrier(c, ctx, nets(0), 0), Else(Carrier(c, ctx, nets(1), 1), R))
  BY DEF Matched
<1>2. ASSUME NEW ph \in {0, 1}, NEW m, m = Carrier(c, ctx, nets(ph), ph)
      PROVE  m = NoLit \/ \E n : ByNet(c, ctx, l, n, ph, m)
  <2>1. CASE nets(ph) = {}
    BY <1>2, <2>1 DEF Carrier
  <2>2. CASE nets(ph) # {}
    <3>1. nets(ph) \subseteq Nat
      BY DEF Choosing
    <3>2. PICK n : n = Least(nets(ph))
      OBVIOUS
    <3>3. n \in nets(ph)
      <4>. HIDE DEF nets
      <4>. QED BY <2>2, <3>1, <3>2, LeastIs
    <3>4. m = Flip(Port(Usable(c, ctx, n)), ph)
      <4>. HIDE DEF nets
      <4>. QED BY <1>2, <2>2, <3>2 DEF Carrier
    <3>. QED BY <3>3, <3>4 DEF ByNet
  <2>. QED BY <2>1, <2>2
<1>3. ASSUME NEW m, m = LazyCarrier(ctx.lazy, lazy, x)
      PROVE  m = NoLit \/ \E n : ByValue(c, ctx, l, n, m)
  <2>1. CASE lazy = {}
    BY <1>3, <2>1 DEF LazyCarrier
  <2>2. CASE lazy # {}
    <3>1. lazy \subseteq Nat
      BY DEF Choosing
    <3>2. PICK n : n = Least(lazy)
      OBVIOUS
    <3>3. n \in lazy
      <4>. HIDE DEF lazy
      <4>. QED BY <2>2, <3>1, <3>2, LeastIs
    <3>4. m = Flip(Port(n), IF ctx.lazy[n] = x THEN 0 ELSE 1)
      <4>. HIDE DEF lazy
      <4>. QED BY <1>3, <2>2, <3>2 DEF LazyCarrier
    <3>. QED BY <3>3, <3>4 DEF ByValue
  <2>. QED BY <2>1, <2>2
<1>4. R = NoLit \/ Matches(c, ctx, l, R)
  <2>1. CASE const # {}
    <3>1. R \in const
      BY <2>1
    <3>. QED BY <3>1 DEF Matches, ByConst
  <2>2. CASE const = {}
    <3>1. R = LazyCarrier(ctx.lazy, lazy, x)
      BY <2>2
    <3>. HIDE DEF R, lazy
    <3>. QED BY <1>3, <3>1 DEF Matches
  <2>. QED BY <2>1, <2>2
<1>5. \/ M = Carrier(c, ctx, nets(0), 0) \/ M = Carrier(c, ctx, nets(1), 1) \/ M = R
  <2>. HIDE DEF M, R, nets
  <2>. QED BY <1>1 DEF Else
<1>. HIDE DEF M, R, nets
<1>6. M = R => M = NoLit \/ Matches(c, ctx, l, M)
  BY <1>4
<1>7. M = Carrier(c, ctx, nets(0), 0) => M = NoLit \/ \E n : ByNet(c, ctx, l, n, 0, M)
  BY <1>2
<1>8. M = Carrier(c, ctx, nets(1), 1) => M = NoLit \/ \E n : ByNet(c, ctx, l, n, 1, M)
  BY <1>2
<1>9. M = NoLit \/ Matches(c, ctx, l, M)
  BY <1>5, <1>6, <1>7, <1>8 DEF Matches
<1>. QED BY <1>9 DEF M

(* The literals of a patch: no port has the name that stands for none.     *)
Plain == {l \in Lits : NoNet \notin PortsOf(l)}
Made == Plain \union {NoLit}

LEMMA PlainIs ==
  /\ Zero \in Plain /\ One \in Plain /\ NoLit \notin Plain /\ Plain \subseteq Lits
  /\ \A p \in Int : p # NoNet => Port(p) \in Plain
  /\ \A l \in Plain : Not(l) \in Plain /\ \A q \in {0, 1} : Flip(l, q) \in Plain
<1>1. Zero \in Plain /\ One \in Plain /\ NoLit \notin Plain /\ Plain \subseteq Lits
  BY LitsMade, PortsAre DEF Plain
<1>2. \A p \in Int : p # NoNet => Port(p) \in Plain
  BY LitsMade, PortsAre DEF Plain
<1>3. \A l \in Plain : Not(l) \in Plain
  BY LitsMade, PortsAre DEF Plain
<1>. QED BY <1>1, <1>2, <1>3 DEF Flip

LEMMA PlainAnd ==
  ASSUME NEW a \in Plain, NEW b \in Plain
  PROVE  And(a, b) \in Plain
<1>1. PICK val : val = [q \in Int |-> {}]
  OBVIOUS
<1>2. a \in Lits /\ b \in Lits /\ NoNet \notin PortsOf(a) /\ NoNet \notin PortsOf(b)
  BY DEF Plain
<1>3. Suited({}, val, a) /\ Suited({}, val, b)
  <2>1. PortsOf(a) \subseteq Int /\ PortsOf(b) \subseteq Int
    BY <1>2, PortsAre
  <2>. QED BY <1>1, <2>1 DEF Suited
<1>4. PortsOf(And(a, b)) \subseteq PortsOf(a) \union PortsOf(b)
  BY <1>2, <1>3, TermAnd
<1>5. And(a, b) \in Lits
  BY <1>2, LitsAnd
<1>. QED BY <1>2, <1>4, <1>5 DEF Plain

LEMMA FlipMade ==
  ASSUME NEW l \in Made, NEW ph \in {0, 1}
  PROVE  /\ Flip(l, ph) \in Made /\ (Flip(l, ph) = NoLit <=> l = NoLit)
<1>1. l = NoLit => Flip(l, ph) = NoLit
  BY DEF Flip
<1>2. l \in Plain => Flip(l, ph) \in Plain
  BY PlainIs
<1>. QED BY <1>1, <1>2, PlainIs DEF Made

LEMMA MatchesMade ==
  ASSUME NEW c, NEW ctx, Choosing(c, ctx), NEW l
  PROVE  Matched(c, ctx, l) \in Made
<1>. DEFINE M == Matched(c, ctx, l)
<1>1. ASSUME NEW n, NEW ph, ByNet(c, ctx, l, n, ph, M) PROVE M \in Plain
  <2>1. n \in Nat /\ ph \in {0, 1} /\ M = Flip(Port(Usable(c, ctx, n)), ph)
    <3>. HIDE DEF M
    <3>. QED BY <1>1 DEF ByNet, Choosing
  <2>2. Usable(c, ctx, n) \in Int
    BY <2>1 DEF Usable, NoNet
  <2>3. Usable(c, ctx, n) # NoNet
    BY <1>1 DEF ByNet
  <2>4. Port(Usable(c, ctx, n)) \in Plain
    BY <2>2, <2>3, PlainIs
  <2>. HIDE DEF M
  <2>. QED BY <2>1, <2>4, PlainIs
<1>2. ASSUME NEW n, ByValue(c, ctx, l, n, M) PROVE M \in Plain
  <2>. HIDE DEF M
  <2>1. n \in Int /\ n # NoNet
    BY <1>2 DEF ByValue, Choosing, NoNet
  <2>2. PICK ph \in {0, 1} : M = Flip(Port(n), ph)
    BY <1>2 DEF ByValue
  <2>. QED BY <2>1, <2>2, PlainIs
<1>3. ByConst(c, ctx, l, M) => M \in Plain
  <2>. HIDE DEF M
  <2>. QED BY PlainIs DEF ByConst
<1>4. M = NoLit \/ Matches(c, ctx, l, M)
  BY MatchedIs
<1>. HIDE DEF M
<1>5. M \in Made
  BY <1>1, <1>2, <1>3, <1>4 DEF Matches, Made
<1>. QED BY <1>5 DEF M

LEMMA AndOfIs ==
  ASSUME NEW y \in Made, NEW z \in Made
  PROVE  /\ y = NoLit \/ z = NoLit => AndOf({y, z}) = NoLit
         /\ y # NoLit /\ z # NoLit => AndOf({y, z}) \in {And(y, z), And(z, y)}
         /\ AndOf({y, z}) \in Made
<1>1. y = NoLit \/ z = NoLit => AndOf({y, z}) = NoLit
  BY DEF AndOf
<1>2. ASSUME y # NoLit, z # NoLit PROVE AndOf({y, z}) \in {And(y, z), And(z, y)}
  <2>1. PICK a : a = CHOOSE x \in {y, z} : TRUE
    OBVIOUS
  <2>2. PICK b : b = CHOOSE x \in {y, z} : {y, z} = {a, x}
    OBVIOUS
  <2>3. a \in {y, z}
    BY <2>1
  <2>4. b \in {y, z} /\ {y, z} = {a, b}
    BY <2>2, <2>3
  <2>5. AndOf({y, z}) = And(a, b)
    BY <1>2, <2>1, <2>2 DEF AndOf
  <2>6. (a = y /\ b = z) \/ (a = z /\ b = y)
    BY <2>3, <2>4
  <2>. QED BY <2>5, <2>6
<1>3. y # NoLit /\ z # NoLit => And(y, z) \in Plain /\ And(z, y) \in Plain
  BY PlainAnd DEF Made
<1>. QED BY <1>1, <1>2, <1>3 DEF Made

(* One step of buildVar.                                                   *)
BuildNode(c, ctx, built, x) ==
  IF x = Zero.node THEN Zero
  ELSE Else(Matched(c, ctx, Lit(x, 0)),
            IF x.op = "and" THEN AndOf({Flip(built[i.node], i.ph) : i \in x.ins})
            ELSE NoLit)

LEMMA BuildNodeMade ==
  ASSUME NEW c, NEW ctx, Choosing(c, ctx), NEW x \in Nodes, NEW f,
         \A y \in Operands(x) : f[y] \in Made
  PROVE  BuildNode(c, ctx, f, x) \in Made
<1>1. Matched(c, ctx, Lit(x, 0)) \in Made
  BY MatchesMade
<1>2. ASSUME x.op = "and" PROVE AndOf({Flip(f[i.node], i.ph) : i \in x.ins}) \in Made
  <2>1. PICK a, b : AndOver(x, a, b)
    BY <1>2, NodeOps
  <2>2. /\ x.ins = {a, b} /\ a \in Lits /\ b \in Lits
        /\ f[a.node] \in Made /\ f[b.node] \in Made
    BY <2>1, AndFields
  <2>3. a.ph \in {0, 1} /\ b.ph \in {0, 1}
    BY <2>2, LitIs
  <2>4. PICK y, z : y = Flip(f[a.node], a.ph) /\ z = Flip(f[b.node], b.ph)
    OBVIOUS
  <2>5. y \in Made /\ z \in Made
    BY <2>2, <2>3, <2>4, FlipMade
  <2>6. {Flip(f[i.node], i.ph) : i \in x.ins} = {y, z}
    BY <2>2, <2>4
  <2>. QED BY <2>5, <2>6, AndOfIs
<1>3. Zero \in Made /\ NoLit \in Made
  BY PlainIs DEF Made
<1>. QED BY <1>1, <1>2, <1>3 DEF BuildNode, Else

IsBuilt(c, ctx, D, f) ==
  f \in [D -> Made] /\ \A x \in D : f[x] = BuildNode(c, ctx, f, x)

LEMMA BuildIs ==
  ASSUME NEW c, NEW ctx, Choosing(c, ctx), NEW l \in Lits
  PROVE  \E f : IsBuilt(c, ctx, Cone(l), f) /\ Build(c, ctx, l) = Flip(f[l.node], l.ph)
<1>. DEFINE D == Cone(l)
            V == Made
            rank == [x \in D |-> x.level]
            H == [x \in D |-> [f \in [D -> V] |-> BuildNode(c, ctx, f, x)]]
<1>1. D \subseteq Nodes /\ l.node \in D /\ Downward(D) /\ \A x \in D : x.level \in Nat
  BY ConeIs
<1>2. ASSUME NEW x \in D, NEW f \in [D -> V] PROVE BuildNode(c, ctx, f, x) \in V
  <2>1. x \in Nodes /\ Operands(x) \subseteq D
    BY <1>1 DEF Downward
  <2>2. \A y \in Operands(x) : f[y] \in Made
    <3>. HIDE DEF D
    <3>. QED BY <2>1
  <2>. QED BY <2>1, <2>2, BuildNodeMade
<1>3. ASSUME NEW x \in D, NEW f \in [D -> V], NEW g \in [D -> V],
             \A u \in D : rank[u] < rank[x] => f[u] = g[u]
      PROVE  BuildNode(c, ctx, f, x) = BuildNode(c, ctx, g, x)
  <2>1. x \in Nodes /\ Operands(x) \subseteq D
    BY <1>1 DEF Downward
  <2>2. \A y \in Operands(x) : f[y] = g[y]
    BY <1>3, <2>1, OperandsNodes
  <2>3. x.op = "and" => {Flip(f[i.node], i.ph) : i \in x.ins} = {Flip(g[i.node], i.ph) : i \in x.ins}
    BY <2>2 DEF Operands
  <2>. QED BY <2>3 DEF BuildNode
<1>4. Graded(H, D, V, rank)
  <2>1. V # {} /\ rank \in [D -> Nat]
    BY <1>1 DEF Made
  <2>2. H \in [D -> [[D -> V] -> V]]
    <3>. HIDE DEF D, V
    <3>. QED BY <1>2
  <2>3. \A x \in D, f, g \in [D -> V] :
          (\A u \in D : rank[u] < rank[x] => f[u] = g[u]) => H[x][f] = H[x][g]
    <3>. HIDE DEF D, V, rank
    <3>. QED BY <1>3
  <2>. HIDE DEF D, V, H, rank
  <2>. QED BY <2>1, <2>2, <2>3 DEF Graded
<1>5. PICK base \in [D -> V] : \A x \in D : base[x] = H[x][base]
  <2>. HIDE DEF D, V, H, rank
  <2>. QED BY <1>4, GradedSolved
<1>. DEFINE Is(h) == h = [x \in D |-> BuildNode(c, ctx, h, x)]
<1>6. Is(base)
  <2>1. \A x \in D : base[x] = BuildNode(c, ctx, base, x)
    <3>. HIDE DEF D, V
    <3>. QED BY <1>5
  <2>. QED BY <1>5, <2>1
<1>7. PICK h : h = CHOOSE g : Is(g)
  OBVIOUS
<1>8. Is(h)
  BY <1>6, <1>7
<1>9. Build(c, ctx, l) = Flip(h[l.node], l.ph)
  BY <1>7 DEF Build, BuildNode
<1>10. IsBuilt(c, ctx, D, h)
  <2>1. \A x \in D : h[x] = BuildNode(c, ctx, h, x)
    BY <1>8
  <2>2. DOMAIN h = D /\ h = [x \in D |-> h[x]]
    BY <1>8
  <2>. DEFINE T == {x.level : x \in {y \in D : h[y] \notin V}}
  <2>3. T = {}
    <3>1. SUFFICES ASSUME T # {} PROVE FALSE
      OBVIOUS
    <3>2. PICK k \in T : \A j \in T : k <= j
      <4>1. T \subseteq Nat
        BY <1>1
      <4>. HIDE DEF T
      <4>. QED BY <3>1, <4>1, Smallest
    <3>3. PICK x \in D : h[x] \notin V /\ k = x.level
      OBVIOUS
    <3>4. \A y \in Operands(x) : h[y] \in V
      <4>. SUFFICES ASSUME NEW y \in Operands(x), h[y] \notin V PROVE FALSE
        OBVIOUS
      <4>1. y \in D /\ x \in Nodes
        BY <1>1 DEF Downward
      <4>2. y.level \in T
        <5>. HIDE DEF V, D
        <5>. QED BY <4>1
      <4>3. y.level \in Nat /\ x.level \in Nat /\ y.level < x.level
        BY <4>1, OperandsNodes
      <4>. HIDE DEF T
      <4>. QED BY <3>2, <3>3, <4>2, <4>3
    <3>5. BuildNode(c, ctx, h, x) \in V
      BY <1>1, <3>4, BuildNodeMade
    <3>. QED BY <2>1, <3>3, <3>5
  <2>4. h \in [D -> V]
    BY <2>2, <2>3
  <2>. QED BY <2>1, <2>4 DEF IsBuilt
<1>. QED BY <1>9, <1>10

LEMMA BuildMade ==
  ASSUME NEW c, NEW ctx, Choosing(c, ctx), NEW l \in Lits
  PROVE  Build(c, ctx, l) \in Made
<1>1. PICK f : IsBuilt(c, ctx, Cone(l), f) /\ Build(c, ctx, l) = Flip(f[l.node], l.ph)
  BY BuildIs
<1>2. f[l.node] \in Made /\ l.ph \in {0, 1}
  BY <1>1, ConeIs, LitIs DEF IsBuilt
<1>. QED BY <1>1, <1>2, FlipMade

(* What the names of the patch mean to buildVar: P are the names it may    *)
(* use, with their values has.                                             *)
Meant(c, ctx, P, has) ==
  /\ Choosing(c, ctx) /\ P \subseteq Int /\ (\A p \in P : has[p] \subseteq Patterns(c))
  /\ \A n \in c.nets \intersect DOMAIN ctx.nets : Usable(c, ctx, n) # NoNet =>
       /\ Usable(c, ctx, n) \in P /\ ctx.nets[n] \in Lits
       /\ has[Usable(c, ctx, n)] = Value(c, ctx.nets[n])
  /\ \A n \in DOMAIN ctx.lazy : n \in P /\ has[n] = ctx.lazy[n]

Valued(c, l) ==
  l \in Lits /\ PortsOf(l) \subseteq DOMAIN AllInputs(c) /\ Suited(Patterns(c), AllInputs(c), l)

LEMMA ValuedIs ==
  ASSUME NEW c, NEW l, Valued(c, l)
  PROVE  /\ Value(c, l) \subseteq Patterns(c)
         /\ Valued(c, Not(l)) /\ Value(c, Not(l)) = Patterns(c) \ Value(c, l)
         /\ Value(c, Zero) = {} /\ Value(c, One) = Patterns(c)
<1>1. Value(c, l) \subseteq Patterns(c)
  BY TermTyped DEF Valued, Value
<1>2. Not(l) \in Lits /\ PortsOf(Not(l)) = PortsOf(l)
  BY LitsMade, PortsAre DEF Valued
<1>3. Suited(Patterns(c), AllInputs(c), Not(l)) /\ Value(c, Not(l)) = Patterns(c) \ Value(c, l)
  BY TermNot DEF Valued, Value
<1>4. Value(c, Zero) = {} /\ Value(c, One) = Patterns(c)
  BY TermLeaf DEF Value
<1>. QED BY <1>1, <1>2, <1>3, <1>4 DEF Valued

(* A match has the value of the literal.                                   *)
LEMMA MatchMeans ==
  ASSUME NEW c, NEW ctx, NEW P, NEW has, Meant(c, ctx, P, has), NEW l, Valued(c, l), l.ph = 0,
         NEW m, Matches(c, ctx, l, m)
  PROVE  Means(Patterns(c), has, P, m, Value(c, l))
<1>1. \A q \in P : has[q] \subseteq Patterns(c)
  BY DEF Meant
<1>2. Value(c, l) \subseteq Patterns(c) /\ Value(c, Not(l)) = Patterns(c) \ Value(c, l)
      /\ Value(c, Zero) = {} /\ Value(c, One) = Patterns(c) /\ l # NoLit
  BY ValuedIs, LitsMade DEF Valued
<1>3. ASSUME NEW n, NEW ph, ByNet(c, ctx, l, n, ph, m)
      PROVE  Means(Patterns(c), has, P, m, Value(c, l))
  <2>1. PICK p : p = Usable(c, ctx, n)
    OBVIOUS
  <2>2. p \in P /\ p \in Int /\ has[p] = Value(c, ctx.nets[n])
    BY <1>3, <2>1 DEF Meant, ByNet
  <2>3. has[p] = Value(c, Flip(l, ph)) /\ ph \in {0, 1} /\ m = Flip(Port(p), ph)
    BY <1>3, <2>1, <2>2 DEF ByNet, Same
  <2>4. Means(Patterns(c), has, P, Port(p), has[p])
    BY <1>1, <2>2, MeansLeaf
  <2>5. Port(p) # NoLit
    BY <2>2, LitsMade
  <2>6. CASE ph = 0
    BY <2>3, <2>4, <2>6 DEF Flip
  <2>7. CASE ph = 1
    <3>1. has[p] = Patterns(c) \ Value(c, l) /\ m = Not(Port(p))
      BY <1>2, <2>3, <2>5, <2>7 DEF Flip
    <3>2. Means(Patterns(c), has, P, Not(Port(p)), Patterns(c) \ has[p])
      BY ONLY <2>4, MeansNot
    <3>3. Patterns(c) \ has[p] = Value(c, l)
      BY <1>2, <3>1
    <3>. QED BY <3>1, <3>2, <3>3
  <2>. QED BY <2>3, <2>6, <2>7
<1>4. ASSUME ByConst(c, ctx, l, m) PROVE Means(Patterns(c), has, P, m, Value(c, l))
  <2>1. Means(Patterns(c), has, P, Zero, {}) /\ Means(Patterns(c), has, P, One, Patterns(c))
    BY <1>1, MeansLeaf
  <2>2. m \in {Zero, One} /\ Value(c, l) = Value(c, m)
    BY <1>4 DEF ByConst, Same
  <2>. QED BY <1>2, <2>1, <2>2
<1>5. ASSUME NEW n, ByValue(c, ctx, l, n, m) PROVE Means(Patterns(c), has, P, m, Value(c, l))
  <2>1. n \in P /\ n \in Int /\ has[n] = ctx.lazy[n]
    BY <1>5 DEF Meant, ByValue
  <2>2. Means(Patterns(c), has, P, Port(n), has[n])
    BY <1>1, <2>1, MeansLeaf
  <2>3. Means(Patterns(c), has, P, Not(Port(n)), Patterns(c) \ has[n])
    BY ONLY <2>2, MeansNot
  <2>4. Port(n) # NoLit
    BY <2>1, LitsMade
  <2>5. has[n] = Value(c, l) => m = Port(n)
    BY <1>5, <2>1 DEF ByValue, Flip
  <2>6. has[n] # Value(c, l) => m = Not(Port(n)) /\ has[n] = Patterns(c) \ Value(c, l)
    BY <1>5, <2>1, <2>4 DEF ByValue, Flip
  <2>7. has[n] # Value(c, l) => Patterns(c) \ has[n] = Value(c, l)
    BY <1>2, <2>6
  <2>. QED BY <2>2, <2>3, <2>5, <2>6, <2>7
<1>. QED BY <1>3, <1>4, <1>5 DEF Matches

LEMMA ValuedSub ==
  ASSUME NEW c, NEW l, Valued(c, l), NEW x \in Cone(l)
  PROVE  x \in Nodes /\ Valued(c, Lit(x, 0)) /\ Lit(x, 0).ph = 0 /\ Lit(x, 0).node = x
<1>1. x \in Nodes /\ Lit(x, 0) \in Lits /\ Lit(x, 0).ph = 0 /\ Lit(x, 0).node = x
  BY ConeIs, LitIs DEF Valued
<1>2. Cone(Lit(x, 0)) \subseteq Cone(l)
  <2>1. x \in Cone(l) /\ Downward(Cone(l))
    BY ConeIs DEF Valued
  <2>. QED BY <1>1, <2>1, ConeIs
<1>3. PortsOf(Lit(x, 0)) \subseteq PortsOf(l)
  BY <1>2 DEF PortsOf
<1>. QED BY <1>1, <1>3 DEF Valued, Suited

(* The value of a literal is that of its node, in its phase.               *)
LEMMA ValuePhased ==
  ASSUME NEW c, NEW l, Valued(c, l), NEW x, x = l.node
  PROVE  /\ Valued(c, Lit(x, 0)) /\ l.ph \in {0, 1}
         /\ Value(c, l) = Phased(Patterns(c), Value(c, Lit(x, 0)), l.ph)
<1>1. l \in Lits /\ l = Lit(l.node, l.ph) /\ l.ph \in {0, 1}
  BY LitIs DEF Valued
<1>2. x \in Cone(l)
  BY <1>1, ConeIs
<1>3. Valued(c, Lit(x, 0)) /\ Lit(x, 0).ph = 0 /\ Lit(x, 0).node = x
  BY <1>2, ValuedSub
<1>4. CASE l.ph = 0
  BY <1>1, <1>3, <1>4 DEF Phased
<1>5. CASE l.ph = 1
  <2>1. l = Not(Lit(x, 0))
    BY <1>1, <1>3, <1>5 DEF Not
  <2>2. Value(c, l) = Patterns(c) \ Value(c, Lit(x, 0))
    BY <1>3, <2>1, ValuedIs
  <2>. QED BY <1>1, <1>3, <1>5, <2>2 DEF Phased
<1>. QED BY <1>1, <1>4, <1>5

LEMMA ValueAnd ==
  ASSUME NEW c, NEW x, NEW a, NEW b, AndOver(x, a, b), Valued(c, Lit(x, 0))
  PROVE  /\ Valued(c, a) /\ Valued(c, b)
         /\ Value(c, Lit(x, 0)) = Value(c, a) \intersect Value(c, b)
<1>1. a \in Lits /\ b \in Lits /\ PortsOf(Lit(x, 0)) = PortsOf(a) \union PortsOf(b)
  BY PortsAre, AndFields
<1>2. Valued(c, a) /\ Valued(c, b)
  BY <1>1 DEF Valued, Suited
<1>. QED BY <1>2, TermAndNode DEF Valued, Value

LEMMA MeansFlip ==
  ASSUME NEW pats, NEW val, NEW P, NEW m, NEW X, Means(pats, val, P, m, X), NEW ph \in {0, 1}
  PROVE  Means(pats, val, P, Flip(m, ph), Phased(pats, X, ph))
<1>1. m # NoLit
  BY LitsMade DEF Means
<1>2. Means(pats, val, P, Not(m), pats \ X)
  BY MeansNot
<1>3. Flip(m, ph) = IF ph = 1 THEN Not(m) ELSE m
  BY <1>1 DEF Flip
<1>. QED BY <1>2, <1>3 DEF Phased

LEMMA BuildMeans ==
  ASSUME NEW c, NEW ctx, NEW P, NEW has, Meant(c, ctx, P, has), NEW l, Valued(c, l),
         Build(c, ctx, l) # NoLit
  PROVE  Means(Patterns(c), has, P, Build(c, ctx, l), Value(c, l))
<1>1. Choosing(c, ctx) /\ l \in Lits
  BY DEF Meant, Valued
<1>2. PICK f : IsBuilt(c, ctx, Cone(l), f) /\ Build(c, ctx, l) = Flip(f[l.node], l.ph)
  BY <1>1, BuildIs
<1>. DEFINE D == Cone(l)
            Good(x) == f[x] # NoLit => Means(Patterns(c), has, P, f[x], Value(c, Lit(x, 0)))
            T == {x.level : x \in {y \in D : ~Good(y)}}
<1>3. D \subseteq Nodes /\ l.node \in D /\ Downward(D) /\ \A x \in D : x.level \in Nat
  BY <1>1, ConeIs
<1>4. T = {}
  <2>1. SUFFICES ASSUME T # {} PROVE FALSE
    OBVIOUS
  <2>2. PICK k \in T : \A j \in T : k <= j
    <3>1. T \subseteq Nat
      BY <1>3
    <3>. HIDE DEF T
    <3>. QED BY <2>1, <3>1, Smallest
  <2>3. PICK x \in D : ~Good(x) /\ k = x.level
    <3>. HIDE DEF Good
    <3>. QED OBVIOUS
  <2>4. x \in Nodes /\ Valued(c, Lit(x, 0)) /\ Lit(x, 0).ph = 0
    BY <2>3, ValuedSub
  <2>5. \A y \in Operands(x) : y \in D /\ Good(y)
    <3>. SUFFICES ASSUME NEW y \in Operands(x) PROVE y \in D /\ Good(y)
      OBVIOUS
    <3>1. y \in D
      BY <1>3 DEF Downward
    <3>2. y.level \in Nat /\ x.level \in Nat /\ y.level < x.level
      BY <2>4, OperandsNodes
    <3>3. ~Good(y) => y.level \in T
      <4>. HIDE DEF Good, D
      <4>. QED BY <3>1
    <3>. HIDE DEF Good, T
    <3>. QED BY <2>2, <2>3, <3>1, <3>2, <3>3
  <2>6. f[x] = BuildNode(c, ctx, f, x) /\ f[x] # NoLit
    BY <1>2, <2>3 DEF IsBuilt
  <2>7. CASE x = Zero.node
    <3>1. f[x] = Zero
      BY <2>6, <2>7 DEF BuildNode
    <3>2. Lit(x, 0) = Zero
      BY <2>7, LeafFields
    <3>3. Value(c, Lit(x, 0)) = {}
      BY <2>4, <3>2, ValuedIs
    <3>4. Means(Patterns(c), has, P, Zero, {})
      BY MeansLeaf DEF Meant
    <3>. QED BY <2>3, <3>1, <3>3, <3>4
  <2>8. CASE x # Zero.node /\ Matched(c, ctx, Lit(x, 0)) # NoLit
    <3>1. f[x] = Matched(c, ctx, Lit(x, 0))
      BY <2>6, <2>8 DEF BuildNode, Else
    <3>2. Matches(c, ctx, Lit(x, 0), f[x])
      BY <1>1, <2>8, <3>1, MatchedIs
    <3>3. Means(Patterns(c), has, P, f[x], Value(c, Lit(x, 0)))
      BY <2>4, <3>2, MatchMeans
    <3>. QED BY <2>3, <3>3
  <2>9. CASE x # Zero.node /\ Matched(c, ctx, Lit(x, 0)) = NoLit
    <3>1. x.op = "and" /\ f[x] = AndOf({Flip(f[i.node], i.ph) : i \in x.ins})
      BY <2>6, <2>9 DEF BuildNode, Else
    <3>2. PICK a, b : AndOver(x, a, b)
      BY <2>4, <3>1, NodeOps
    <3>3. /\ x.ins = {a, b} /\ Operands(x) = {a.node, b.node} /\ a.ph \in {0, 1} /\ b.ph \in {0, 1}
      BY <3>2, AndFields, LitIs
    <3>4. Valued(c, a) /\ Valued(c, b)
          /\ Value(c, Lit(x, 0)) = Value(c, a) \intersect Value(c, b)
      BY <2>4, <3>2, ValueAnd
    <3>5. PICK y, z : y = Flip(f[a.node], a.ph) /\ z = Flip(f[b.node], b.ph)
      OBVIOUS
    <3>6. a.node \in D /\ b.node \in D /\ Good(a.node) /\ Good(b.node)
      BY <2>5, <3>3
    <3>7. f[a.node] \in Made /\ f[b.node] \in Made
      BY <1>2, <3>6 DEF IsBuilt
    <3>8. f[x] = AndOf({y, z})
      <4>1. {Flip(f[i.node], i.ph) : i \in x.ins} = {y, z}
        BY <3>3, <3>5
      <4>. QED BY <3>1, <4>1
    <3>9. y \in Made /\ z \in Made /\ (y = NoLit <=> f[a.node] = NoLit) /\ (z = NoLit <=> f[b.node] = NoLit)
      BY <3>3, <3>5, <3>7, FlipMade
    <3>10. y # NoLit /\ z # NoLit /\ f[x] \in {And(y, z), And(z, y)}
      BY <2>6, <3>8, <3>9, AndOfIs
    <3>11. Means(Patterns(c), has, P, y, Value(c, a))
      <4>1. Means(Patterns(c), has, P, f[a.node], Value(c, Lit(a.node, 0)))
        BY <3>6, <3>9, <3>10
      <4>2. Value(c, a) = Phased(Patterns(c), Value(c, Lit(a.node, 0)), a.ph)
        BY <3>4, ValuePhased
      <4>. QED BY <3>3, <3>5, <4>1, <4>2, MeansFlip
    <3>12. Means(Patterns(c), has, P, z, Value(c, b))
      <4>1. Means(Patterns(c), has, P, f[b.node], Value(c, Lit(b.node, 0)))
        BY <3>6, <3>9, <3>10
      <4>2. Value(c, b) = Phased(Patterns(c), Value(c, Lit(b.node, 0)), b.ph)
        BY <3>4, ValuePhased
      <4>. QED BY <3>3, <3>5, <4>1, <4>2, MeansFlip
    <3>13. Means(Patterns(c), has, P, And(y, z), Value(c, a) \intersect Value(c, b))
      BY ONLY <3>11, <3>12, MeansAnd
    <3>14. Means(Patterns(c), has, P, And(z, y), Value(c, b) \intersect Value(c, a))
      BY ONLY <3>11, <3>12, MeansAnd
    <3>15. Value(c, b) \intersect Value(c, a) = Value(c, a) \intersect Value(c, b)
      OBVIOUS
    <3>16. Means(Patterns(c), has, P, f[x], Value(c, Lit(x, 0)))
      BY ONLY <3>4, <3>10, <3>13, <3>14, <3>15
    <3>. QED BY <2>3, <3>16
  <2>. QED BY <2>7, <2>8, <2>9
<1>5. f[l.node] \in Made /\ l.ph \in {0, 1}
  BY <1>1, <1>2, <1>3, LitIs DEF IsBuilt
<1>6. f[l.node] # NoLit
  BY <1>2, <1>5, FlipMade
<1>7. Means(Patterns(c), has, P, f[l.node], Value(c, Lit(l.node, 0)))
  <2>1. Good(l.node)
    <3>. HIDE DEF Good
    <3>. QED BY <1>3, <1>4
  <2>. QED BY <1>6, <2>1
<1>8. Value(c, l) = Phased(Patterns(c), Value(c, Lit(l.node, 0)), l.ph)
  BY ValuePhased
<1>. QED BY <1>2, <1>5, <1>7, <1>8, MeansFlip

-----------------------------------------------------------------------------
(* The targets of a candidate: in the order of a topological sort, and     *)
(* each over nets that are not downstream of a target behind it.           *)

IsOrder(s, S) ==
  s \in [1 .. Cardinality(S) -> S] /\ \A i, j \in DOMAIN s : i < j => s[i] < s[j]

LEMMA OrderExists ==
  ASSUME NEW S, S \subseteq Nat, IsFiniteSet(S)
  PROVE  \E s : IsOrder(s, S)
<1>. DEFINE Sized(k) == \A U \in SUBSET Nat : IsFiniteSet(U) /\ Cardinality(U) = k => \E s : IsOrder(s, U)
            T == {k \in Nat : Sized(k)}
            n == Cardinality(S)
<1>1. n \in Nat
  BY FS_CardinalityType
<1>2. 0 \in T
  <2>1. SUFFICES ASSUME NEW U \in SUBSET Nat, IsFiniteSet(U), Cardinality(U) = 0
                 PROVE  \E s : IsOrder(s, U)
    OBVIOUS
  <2>2. 1 .. 0 = {}
    OBVIOUS
  <2>3. PICK s : s = [i \in 1 .. 0 |-> i]
    OBVIOUS
  <2>4. DOMAIN s = {} /\ s \in [1 .. 0 -> U]
    BY <2>2, <2>3
  <2>5. IsOrder(s, U)
    BY <2>1, <2>4 DEF IsOrder
  <2>. QED BY <2>5
<1>3. ASSUME NEW k \in 1 .. n, k - 1 \in T PROVE k \in T
  <2>1. SUFFICES ASSUME NEW U \in SUBSET Nat, IsFiniteSet(U), Cardinality(U) = k
                 PROVE  \E s : IsOrder(s, U)
    BY <1>1
  <2>2. k \in Nat /\ k # 0 /\ k - 1 \in Nat
    BY <1>1
  <2>3. U # {}
    BY <2>1, <2>2, FS_EmptySet
  <2>4. PICK m \in U : \A x \in U : x <= m
    BY <2>1, <2>3, Largest
  <2>5. PICK W : W = U \ {m}
    OBVIOUS
  <2>6. IsFiniteSet(W) /\ Cardinality(W) = k - 1 /\ W \in SUBSET Nat
    BY <2>1, <2>4, <2>5, FS_RemoveElement
  <2>7. Sized(k - 1)
    <3>. HIDE DEF Sized
    <3>. QED BY <1>3
  <2>8. PICK r : IsOrder(r, W)
    BY <2>6, <2>7
  <2>9. r \in [1 .. k - 1 -> W] /\ \A i, j \in 1 .. k - 1 : i < j => r[i] < r[j]
    BY <2>6, <2>8 DEF IsOrder
  <2>10. PICK s : s = [i \in 1 .. k |-> IF i = k THEN m ELSE r[i]]
    OBVIOUS
  <2>11. \A i \in 1 .. k : i = k \/ i \in 1 .. k - 1
    BY <2>2
  <2>12. s \in [1 .. k -> U] /\ DOMAIN s = 1 .. k
    BY <2>4, <2>5, <2>9, <2>10, <2>11
  <2>13. ASSUME NEW i \in 1 .. k, NEW j \in 1 .. k, i < j PROVE s[i] < s[j]
    <3>1. i \in 1 .. k - 1 /\ s[i] = r[i] /\ r[i] \in W
      <4>1. i # k
        BY <2>2, <2>13
      <4>. QED BY <2>9, <2>10, <2>11, <4>1
    <3>2. CASE j = k
      <4>1. r[i] \in Nat /\ m \in Nat /\ r[i] <= m /\ r[i] # m
        BY <2>4, <2>5, <3>1
      <4>2. s[j] = m
        BY <2>10, <3>2
      <4>. QED BY <3>1, <4>1, <4>2
    <3>3. CASE j # k
      <4>1. j \in 1 .. k - 1 /\ s[j] = r[j]
        BY <2>10, <2>11, <3>3
      <4>. QED BY <2>9, <2>13, <3>1, <4>1
    <3>. QED BY <3>2, <3>3
  <2>14. IsOrder(s, U)
    BY <2>1, <2>12, <2>13 DEF IsOrder
  <2>. QED BY <2>14
<1>4. 0 .. n \subseteq T
  <2>. HIDE DEF T, n
  <2>. QED BY <1>1, <1>2, <1>3, UpTo
<1>5. n \in T
  BY <1>1, <1>4
<1>. QED BY <1>5

LEMMA InOrderIs ==
  ASSUME NEW S, S \subseteq Nat, IsFiniteSet(S), NEW s, s = InOrder(S)
  PROVE  /\ Cardinality(S) \in Nat /\ DOMAIN s = 1 .. Cardinality(S)
         /\ \A i \in DOMAIN s : s[i] \in S
         /\ \A i, j \in DOMAIN s : s[i] = s[j] => i = j
         /\ \A n \in S : \E i \in DOMAIN s : s[i] = n
<1>. DEFINE n == Cardinality(S)
<1>1. n \in Nat
  BY FS_CardinalityType
<1>2. IsOrder(s, S)
  BY OrderExists DEF InOrder, IsOrder
<1>3. s \in [1 .. n -> S] /\ DOMAIN s = 1 .. n /\ \A i, j \in 1 .. n : i < j => s[i] < s[j]
  BY <1>2 DEF IsOrder
<1>4. \A i, j \in 1 .. n : s[i] = s[j] => i = j
  <2>. SUFFICES ASSUME NEW i \in 1 .. n, NEW j \in 1 .. n, s[i] = s[j], i # j PROVE FALSE
    OBVIOUS
  <2>1. s[i] \in Nat /\ s[j] \in Nat /\ i \in Int /\ j \in Int
    <3>1. s[i] \in S /\ s[j] \in S
      <4>. HIDE DEF n
      <4>. QED BY <1>3
    <3>2. i \in Int /\ j \in Int
      <4>. HIDE DEF n
      <4>. QED BY <1>1
    <3>. QED BY <3>1, <3>2
  <2>2. i < j \/ j < i
    BY <2>1
  <2>3. s[i] < s[j] \/ s[j] < s[i]
    BY <1>3, <2>2
  <2>. QED BY <2>1, <2>3
<1>5. s \in Injection(1 .. n, S)
  <2>. HIDE DEF n
  <2>. QED BY <1>3, <1>4 DEF Injection, IsInjective
<1>6. Cardinality(1 .. n) = n
  <2>1. 1 \in Int /\ n \in Int
    BY <1>1
  <2>2. Cardinality(1 .. n) = IF 1 > n THEN 0 ELSE n - 1 + 1
    <3>. HIDE DEF n
    <3>. QED BY ONLY <2>1, FS_Interval
  <2>. QED BY <1>1, <2>2
<1>7. s \in Surjection(1 .. n, S)
  BY <1>5, <1>6, FS_Injection
<1>8. \A x \in S : \E i \in 1 .. n : s[i] = x
  <2>. HIDE DEF n
  <2>. QED BY <1>7 DEF Surjection
<1>. QED BY <1>1, <1>3, <1>4, <1>8

(* Targets: nets with literals.                                            *)
IsTargets(c, ts) == ts \in Seq([out : c.nets, lit : Plain])

LEMMA TargetsFields ==
  ASSUME NEW c, NEW ts, IsTargets(c, ts), NEW i \in DOMAIN ts
  PROVE  /\ ts[i].out \in c.nets /\ ts[i].lit \in Plain /\ Len(ts) \in Nat
         /\ DOMAIN ts = 1 .. Len(ts) /\ i \in Nat
<1>1. PICK V : V = [out : c.nets, lit : Plain]
  OBVIOUS
<1>2. ts \in Seq(V)
  BY <1>1 DEF IsTargets
<1>3. ts[i] \in V /\ Len(ts) \in Nat /\ DOMAIN ts = 1 .. Len(ts)
  BY <1>2
<1>4. i \in Nat
  BY <1>3
<1>. QED BY <1>1, <1>3, <1>4

(* Each target of its own net.                                             *)
Distinct(ts) == \A i, j \in DOMAIN ts : ts[i].out = ts[j].out => i = j
TargetNets(ts) == {ts[i].out : i \in DOMAIN ts}

CanExpress(c, ctx, spec) ==
  /\ Choosing(c, ctx) /\ IsFiniteSet(c.nets) /\ DOMAIN spec \subseteq c.nets
  /\ \A n \in DOMAIN spec : spec[n] \in Lits

LEMMA ExpressedIs ==
  ASSUME NEW c, NEW ctx, NEW spec, CanExpress(c, ctx, spec), NEW ts, ts = Expressed(c, ctx, spec)
  PROVE  /\ IsTargets(c, ts) /\ Distinct(ts)
         /\ ts # <<>> => TargetNets(ts) = DOMAIN spec
         /\ \A i \in DOMAIN ts : /\ ts[i].lit = Build(c, ctx, spec[ts[i].out])
                                 /\ ts[i].lit # NoLit
<1>. DEFINE S == DOMAIN spec
            nets == InOrder(S)
            k == Cardinality(S)
            all == [i \in DOMAIN nets |-> [out |-> nets[i], lit |-> Build(c, ctx, spec[nets[i]])]]
<1>1. S \subseteq Nat /\ IsFiniteSet(S) /\ S \subseteq c.nets
  BY FS_Subset DEF CanExpress, Choosing
<1>2. /\ k \in Nat /\ DOMAIN nets = 1 .. k /\ \A i \in DOMAIN nets : nets[i] \in S
      /\ \A i, j \in DOMAIN nets : nets[i] = nets[j] => i = j
      /\ \A n \in S : \E i \in DOMAIN nets : nets[i] = n
  <2>. HIDE DEF S
  <2>. QED BY <1>1, InOrderIs
<1>3. ts = Complete(all)
  BY DEF Expressed
<1>4. CASE \E i \in DOMAIN all : all[i].lit = NoLit
  <2>1. ts = <<>>
    <3>. HIDE DEF all
    <3>. QED BY <1>3, <1>4 DEF Complete
  <2>. QED BY <2>1 DEF IsTargets, Distinct
<1>5. CASE ~\E i \in DOMAIN all : all[i].lit = NoLit
  <2>1. ts = all
    <3>. HIDE DEF all
    <3>. QED BY <1>3, <1>5 DEF Complete
  <2>2. \A i \in 1 .. k : /\ nets[i] \in S /\ spec[nets[i]] \in Lits
                          /\ Build(c, ctx, spec[nets[i]]) \in Plain
    <3>. SUFFICES ASSUME NEW i \in 1 .. k
                  PROVE  /\ nets[i] \in S /\ spec[nets[i]] \in Lits
                         /\ Build(c, ctx, spec[nets[i]]) \in Plain
      OBVIOUS
    <3>1. nets[i] \in S /\ spec[nets[i]] \in Lits
      <4>. HIDE DEF nets, k
      <4>. QED BY <1>2 DEF CanExpress
    <3>2. Build(c, ctx, spec[nets[i]]) \in Made
      <4>. HIDE DEF nets
      <4>. QED BY <3>1, BuildMade DEF CanExpress
    <3>3. Build(c, ctx, spec[nets[i]]) # NoLit
      BY <1>2, <1>5
    <3>. HIDE DEF nets
    <3>. QED BY <3>1, <3>2, <3>3 DEF Made
  <2>. HIDE DEF nets, k, S
  <2>3. DOMAIN ts = 1 .. k /\ \A i \in 1 .. k : ts[i] = [out |-> nets[i], lit |-> Build(c, ctx, spec[nets[i]])]
    BY <1>2, <2>1
  <2>4. \A i \in 1 .. k : ts[i] \in [out : c.nets, lit : Plain]
    <3>. SUFFICES ASSUME NEW i \in 1 .. k PROVE ts[i] \in [out : c.nets, lit : Plain]
      OBVIOUS
    <3>1. PICK m, l : m = nets[i] /\ l = Build(c, ctx, spec[nets[i]])
      OBVIOUS
    <3>2. m \in c.nets /\ l \in Plain
      BY <1>1, <2>2, <3>1
    <3>3. ts[i] = [out |-> m, lit |-> l]
      BY <2>3, <3>1
    <3>. QED BY <3>2, <3>3
  <2>5. IsTargets(c, ts)
    <3>1. ts = [i \in 1 .. k |-> ts[i]]
      BY <1>2, <2>1
    <3>2. PICK V : V = [out : c.nets, lit : Plain]
      OBVIOUS
    <3>3. ts \in [1 .. k -> V] /\ k \in Nat
      BY <1>2, <2>4, <3>1, <3>2
    <3>4. ts \in Seq(V)
      BY ONLY <3>3
    <3>. QED BY <3>2, <3>4 DEF IsTargets
  <2>6. \A i \in 1 .. k : ts[i].out = nets[i] /\ ts[i].lit = Build(c, ctx, spec[nets[i]])
    BY <2>3
  <2>7. Distinct(ts)
    BY <1>2, <2>3, <2>6 DEF Distinct
  <2>8. TargetNets(ts) = S
    BY <1>2, <2>3, <2>6 DEF TargetNets
  <2>9. \A i \in 1 .. k : ts[i].lit = Build(c, ctx, spec[ts[i].out]) /\ ts[i].lit # NoLit
    BY <2>2, <2>6, PlainIs
  <2>. QED BY <2>3, <2>5, <2>7, <2>8, <2>9 DEF S
<1>. QED BY <1>4, <1>5

(* A patch function over its own ports is plain.                           *)
LEMMA FnPlain ==
  ASSUME NEW sup, NEW on, IsFiniteSet(sup), sup \subseteq Int, NoNet \notin sup
  PROVE  FnLit(sup, on, [p \in sup |-> Port(p)]) \in Plain
<1>1. PICK lit, val : lit = [p \in sup |-> Port(p)] /\ val = [q \in Int |-> {}]
  OBVIOUS
<1>2. \A q \in sup : val[q] \subseteq {}
  BY <1>1
<1>3. \A p \in sup : Means({}, val, sup, lit[p], val[p])
  BY <1>1, <1>2, MeansLeaf
<1>4. lit \in [sup -> Lits]
  BY <1>1, LitsMade
<1>5. FnMeans({}, val, sup, sup, on, lit, val)
  BY <1>2, <1>3, <1>4 DEF FnMeans
<1>6. Means({}, val, sup, FnLit(sup, on, lit), {q \in {} : {p \in sup : q \in val[p]} \in on})
  BY ONLY <1>5, MeansFn
<1>. QED BY <1>1, <1>6 DEF Means, Plain

(* Fixes with functions over names.                                        *)
FixesTyped(c, fixes) ==
  /\ \E S : fixes \in Seq(S)
  /\ \A i \in DOMAIN fixes : /\ fixes[i].target \in c.nets
                             /\ IsFiniteSet(fixes[i].fn.sup) /\ fixes[i].fn.sup \subseteq Int
                             /\ NoNet \notin fixes[i].fn.sup

LEMMA FixTargetsAre ==
  ASSUME NEW c, NEW fixes, FixesTyped(c, fixes), NEW ts, ts = FixTargets(fixes)
  PROVE  /\ IsTargets(c, ts) /\ Len(ts) = Len(fixes) /\ DOMAIN ts = DOMAIN fixes
         /\ \A i \in DOMAIN fixes :
              /\ ts[i].out = fixes[i].target
              /\ ts[i].lit = FnLit(fixes[i].fn.sup, fixes[i].fn.on,
                                   [p \in fixes[i].fn.sup |-> Port(p)])
<1>. DEFINE lit(i) == FnLit(fixes[i].fn.sup, fixes[i].fn.on, [p \in fixes[i].fn.sup |-> Port(p)])
<1>1. PICK V : V = [out : c.nets, lit : Plain]
  OBVIOUS
<1>2. Len(fixes) \in Nat /\ DOMAIN fixes = 1 .. Len(fixes)
  BY DEF FixesTyped
<1>3. \A i \in DOMAIN fixes : lit(i) \in Plain
  BY FnPlain DEF FixesTyped
<1>4. ts = [i \in DOMAIN fixes |-> [out |-> fixes[i].target, lit |-> lit(i)]]
  BY DEF FixTargets
<1>. HIDE DEF lit
<1>5. \A i \in DOMAIN fixes : ts[i] \in V /\ ts[i].out = fixes[i].target /\ ts[i].lit = lit(i)
  BY <1>1, <1>3, <1>4 DEF FixesTyped
<1>6. ts \in [1 .. Len(fixes) -> V]
  BY <1>2, <1>4, <1>5
<1>7. ts \in Seq(V) /\ Len(ts) = Len(fixes)
  BY ONLY <1>2, <1>6
<1>. QED BY <1>1, <1>2, <1>4, <1>5, <1>7 DEF IsTargets, lit

(* A set of literals that emission may work on: those of a set of nodes    *)
(* with their operands.                                                    *)
Emittable(C) ==
  /\ C \subseteq Plain
  /\ \A l \in C : Positive(l) \in C
  /\ \A l \in C : l.node.op = "and" => l.node.ins \subseteq C

LEMMA PlainCone ==
  ASSUME NEW l \in Plain, NEW x \in Cone(l), NEW q \in {0, 1}
  PROVE  /\ Lit(x, q) \in Plain /\ Lit(x, q).node = x /\ Lit(x, q).ph = q
         /\ Operands(x) \subseteq Cone(l) /\ x \in Nodes
<1>1. l \in Lits /\ NoNet \notin PortsOf(l)
  BY DEF Plain
<1>2. x \in Nodes /\ Downward(Cone(l))
  BY <1>1, ConeIs
<1>3. Lit(x, q) \in Lits /\ Lit(x, q).node = x /\ Lit(x, q).ph = q
  BY <1>2, LitIs
<1>4. Cone(Lit(x, q)) \subseteq Cone(l)
  BY <1>2, <1>3, ConeIs
<1>5. PortsOf(Lit(x, q)) \subseteq PortsOf(l)
  BY <1>4 DEF PortsOf
<1>. QED BY <1>1, <1>2, <1>3, <1>5 DEF Plain, Downward

LEMMA ConeLitsEmittable ==
  ASSUME NEW c, NEW ts, IsTargets(c, ts), NEW C, C = ConeLits(ts)
  PROVE  Emittable(C) /\ \A i \in DOMAIN ts : ts[i].lit \in C
<1>1. \A i \in DOMAIN ts : ts[i].lit \in Plain
  BY TargetsFields
<1>2. \A l : l \in C <=> \E i \in DOMAIN ts : \E x \in Cone(ts[i].lit) : \E q \in {0, 1} : l = Lit(x, q)
  BY DEF ConeLits
<1>3. ASSUME NEW l \in C
      PROVE  /\ l \in Plain /\ Positive(l) \in C
             /\ l.node.op = "and" => l.node.ins \subseteq C
  <2>5. PICK i \in DOMAIN ts : \E x \in Cone(ts[i].lit) : \E q \in {0, 1} : l = Lit(x, q)
    BY <1>2
  <2>1. PICK x \in Cone(ts[i].lit), q \in {0, 1} : l = Lit(x, q)
    BY <2>5
  <2>2. /\ l \in Plain /\ l.node = x /\ l.ph = q /\ x \in Nodes
        /\ Operands(x) \subseteq Cone(ts[i].lit)
    BY <1>1, <2>1, PlainCone
  <2>3. Positive(l) \in C
    BY <1>2, <2>2 DEF Positive
  <2>4. ASSUME x.op = "and", NEW k \in x.ins PROVE k \in C
    <3>1. k.node \in Cone(ts[i].lit)
      BY <2>2, <2>4 DEF Operands
    <3>2. PICK a, b : AndOver(x, a, b)
      BY <2>2, <2>4, NodeOps
    <3>3. k \in Lits
      BY <2>4, <3>2, AndFields
    <3>4. k = Lit(k.node, k.ph) /\ k.ph \in {0, 1}
      BY <3>3, LitIs
    <3>. QED BY <1>2, <3>1, <3>4
  <2>. QED BY <2>2, <2>3, <2>4
<1>4. ASSUME NEW i \in DOMAIN ts PROVE ts[i].lit \in C
  <2>1. ts[i].lit \in Lits
    BY <1>1 DEF Plain
  <2>2. ts[i].lit = Lit(ts[i].lit.node, ts[i].lit.ph) /\ ts[i].lit.ph \in {0, 1}
        /\ ts[i].lit.node \in Cone(ts[i].lit)
    BY <2>1, LitIs, ConeIs
  <2>. QED BY <1>2, <2>2
<1>. QED BY <1>3, <1>4 DEF Emittable

(* What a literal of such a set is.                                        *)
LEMMA EmittableIs ==
  ASSUME NEW C, Emittable(C), NEW m \in C
  PROVE  /\ m \in Lits /\ m = Lit(m.node, m.ph) /\ m.ph \in {0, 1} /\ m.node \in Nodes
         /\ Positive(m) \in C /\ Positive(m).node = m.node /\ Positive(m).ph = 0
         /\ m.node.level \in Nat
         /\ m.node.op \in {"const", "port", "and"}
         /\ m.node.op = "const" => m.node = Zero.node
         /\ m.node.op = "port" => /\ m.node.port \in Int /\ m.node.port # NoNet
                                  /\ m.node = Port(m.node.port).node
         /\ m.node.op = "and" =>
              \E a, b : /\ AndOver(m.node, a, b) /\ m.node.ins = {a, b} /\ a # b
                        /\ a \in C /\ b \in C
                        /\ a.node.level < m.node.level /\ b.node.level < m.node.level
<1>1. m \in Lits /\ NoNet \notin PortsOf(m)
  BY DEF Emittable, Plain
<1>2. m = Lit(m.node, m.ph) /\ m.ph \in {0, 1} /\ m.node \in Nodes /\ m.node.level \in Nat
  BY <1>1, LitIs, NodeLevel
<1>3. Positive(m) \in C /\ Positive(m).node = m.node /\ Positive(m).ph = 0
  <2>1. Positive(m) = Lit(m.node, 0)
    BY DEF Positive
  <2>. QED BY <1>2, <2>1, LitIs DEF Emittable
<1>4. /\ m.node.op \in {"const", "port", "and"}
      /\ m.node.op = "const" => m.node = Zero.node
      /\ m.node.op = "port" => m.node.port \in Int /\ m.node = Port(m.node.port).node
      /\ m.node.op = "and" => \E a, b : AndOver(m.node, a, b)
  BY <1>2, NodeOps
<1>5. m.node.op = "port" => m.node.port # NoNet
  <2>. SUFFICES ASSUME m.node.op = "port" PROVE m.node.port \in PortsOf(m)
    BY <1>1
  <2>1. m.node \in Cone(m)
    BY <1>1, ConeIs
  <2>. QED BY <2>1 DEF PortsOf
<1>6. ASSUME m.node.op = "and"
      PROVE  \E a, b : /\ AndOver(m.node, a, b) /\ m.node.ins = {a, b} /\ a # b
                        /\ a \in C /\ b \in C
                        /\ a.node.level < m.node.level /\ b.node.level < m.node.level
  <2>1. PICK a, b : AndOver(m.node, a, b)
    BY <1>4, <1>6
  <2>2. m.node.ins = {a, b} /\ a # b /\ a.node.level < m.node.level /\ b.node.level < m.node.level
    BY <2>1, AndFields
  <2>3. a \in C /\ b \in C
    BY <1>6, <2>2 DEF Emittable
  <2>. QED BY <2>1, <2>2, <2>3
<1>. QED BY <1>1, <1>2, <1>3, <1>4, <1>5, <1>6

-----------------------------------------------------------------------------
(* Emission and its names: what aigToPatchDirect emits is a patch, and     *)
(* tidy after normalisation; a patch under other names behaves alike.      *)

(* Names that wires get are names.                                         *)
WiresTyped(c) == WireBase \in Nat /\ \A k \in DOMAIN c.ecow : c.ecow[k] \in Nat

GateRecs == [type : GateTypes, out : Int, ins : Seq(Int)]
Namings(C) == {names \in [C -> Int] : \A l \in C : l.node = Zero.node => names[l] # NoNet}

LEMMA EmissionFields ==
  ASSUME NEW C, NEW s \in Emissions(C)
  PROVE  /\ s.names \in Namings(C) /\ s.names \in [C -> Int] /\ s.wid \in Nat
         /\ s.used \subseteq Int /\ s.gates \in Seq(GateRecs)
BY DEF Emissions, Namings, GateRecs

LEMMA EmissionMade ==
  ASSUME NEW C, NEW names \in Namings(C), NEW wid \in Nat, NEW used \in SUBSET Int,
         NEW gates \in Seq(GateRecs)
  PROVE  [names |-> names, wid |-> wid, used |-> used, gates |-> gates] \in Emissions(C)
BY DEF Emissions, Namings, GateRecs

LEMMA NamingChanged ==
  ASSUME NEW C, NEW f \in Namings(C), NEW l \in C, NEW n \in Int, n # NoNet
  PROVE  /\ [f EXCEPT ![l] = n] \in Namings(C) /\ [f EXCEPT ![l] = n][l] = n
         /\ \A k \in C : k # l => [f EXCEPT ![l] = n][k] = f[k]
BY DEF Namings

LEMMA NamedIs ==
  ASSUME NEW C, NEW s \in Emissions(C), NEW l \in C, NEW n \in Int, n # NoNet,
         NEW t, t = Named(s, l, n)
  PROVE  /\ t \in Emissions(C) /\ t.wid = s.wid /\ t.used = s.used /\ t.gates = s.gates
         /\ t.names[l] = n /\ \A k \in C : k # l => t.names[k] = s.names[k]
<1>1. s.names \in Namings(C) /\ s.wid \in Nat /\ s.used \subseteq Int /\ s.gates \in Seq(GateRecs)
  BY EmissionFields
<1>2. PICK f : f = [s.names EXCEPT ![l] = n]
  OBVIOUS
<1>3. f \in Namings(C) /\ f[l] = n /\ \A k \in C : k # l => f[k] = s.names[k]
  BY <1>1, <1>2, NamingChanged
<1>4. t = [names |-> f, wid |-> s.wid, used |-> s.used, gates |-> s.gates]
  BY <1>2 DEF Named, Emissions
<1>5. t \in Emissions(C)
  BY ONLY <1>1, <1>3, <1>4, EmissionMade
<1>. QED BY <1>3, <1>4, <1>5

LEMMA AddGateIs ==
  ASSUME NEW c, WiresTyped(c), NEW C, NEW s \in Emissions(C), NEW type \in GateTypes,
         NEW ins \in Seq(Int), NEW l \in C,
         NEW t, t = AddGate(c, s, type, ins, l), NEW w, w = EcoWire(c, s.wid)
  PROVE  /\ t \in Emissions(C) /\ t.wid = s.wid + 1 /\ t.used = s.used
         /\ t.gates = Append(s.gates, Gate(type, w, ins)) /\ w \in Nat
         /\ t.names[l] = w /\ \A k \in C : k # l => t.names[k] = s.names[k]
<1>1. s.names \in Namings(C) /\ s.wid \in Nat /\ s.used \subseteq Int /\ s.gates \in Seq(GateRecs)
  BY EmissionFields
<1>2. w \in Nat /\ w # NoNet /\ w \in Int
  BY <1>1 DEF WiresTyped, EcoWire, NoNet
<1>3. PICK f : f = [s.names EXCEPT ![l] = w]
  OBVIOUS
<1>4. f \in Namings(C) /\ f[l] = w /\ \A k \in C : k # l => f[k] = s.names[k]
  BY <1>1, <1>2, <1>3, NamingChanged
<1>5. PICK gates : gates = Append(s.gates, Gate(type, w, ins))
  OBVIOUS
<1>6. gates \in Seq(GateRecs)
  <2>1. Gate(type, w, ins) \in GateRecs
    BY <1>2 DEF Gate, GateRecs
  <2>. QED BY <1>1, <1>5, <2>1
<1>7. t = [names |-> f, wid |-> s.wid + 1, used |-> s.used, gates |-> gates]
  BY <1>3, <1>5 DEF AddGate, Named, Emissions
<1>8. s.wid + 1 \in Nat
  BY <1>1
<1>9. t \in Emissions(C)
  BY ONLY <1>1, <1>4, <1>6, <1>7, <1>8, EmissionMade
<1>. QED BY <1>2, <1>4, <1>5, <1>7, <1>9

(* A literal gets its inverter, if it is one, and its name.                *)
LEMMA WithInverterIn ==
  ASSUME NEW c, WiresTyped(c), NEW C, Emittable(C), NEW s \in Emissions(C), NEW m \in C,
         NEW t, t = WithInverter(c, s, m)
  PROVE  t \in Emissions(C)
<1>1. CASE m.ph = 0
  BY <1>1 DEF WithInverter
<1>2. CASE m.ph # 0
  <2>1. Positive(m) \in C
    BY EmittableIs
  <2>2. PICK ins : ins = <<s.names[Positive(m)]>>
    OBVIOUS
  <2>3. ins \in Seq(Int)
    BY <2>1, <2>2, EmissionFields
  <2>4. t = AddGate(c, s, "not", ins, m) /\ "not" \in GateTypes
    BY <1>2, <2>2 DEF WithInverter, GateTypes
  <2>. QED BY <2>3, <2>4, AddGateIs
<1>. QED BY <1>1, <1>2

PortNamed(c, s, m) ==
  WithInverter(c, Named([s EXCEPT !.used = @ \union {m.node.port}], Positive(m), m.node.port), m)
AndNamed(c, m, a, b, s0, s1) ==
  WithInverter(c, AddGate(c, s1, "and", <<s0.names[a], s1.names[b]>>, Positive(m)), m)
NameStep(c, f, m, s) ==
  IF s.names[m] # NoNet THEN s
  ELSE IF m.node.op = "port" THEN PortNamed(c, s, m)
  ELSE LET f0 == CHOOSE i \in m.node.ins : TRUE
           f1 == CHOOSE i \in m.node.ins : i # f0
       IN  AndNamed(c, m, f0, f1, f[f0][s], f[f1][f[f0][s]])

LEMMA UsedIs ==
  ASSUME NEW C, NEW s \in Emissions(C), NEW p \in Int, NEW t, t = [s EXCEPT !.used = @ \union {p}]
  PROVE  /\ t \in Emissions(C) /\ t.wid = s.wid /\ t.used = s.used \union {p} /\ t.gates = s.gates
         /\ t.names = s.names
<1>1. s.names \in Namings(C) /\ s.wid \in Nat /\ s.used \subseteq Int /\ s.gates \in Seq(GateRecs)
  BY EmissionFields
<1>2. t = [names |-> s.names, wid |-> s.wid, used |-> s.used \union {p}, gates |-> s.gates]
  BY DEF Emissions
<1>3. s.used \union {p} \in SUBSET Int
  BY <1>1
<1>4. t \in Emissions(C)
  BY ONLY <1>1, <1>2, <1>3, EmissionMade
<1>. QED BY <1>2, <1>4

LEMMA PortNamedIn ==
  ASSUME NEW c, WiresTyped(c), NEW C, Emittable(C), NEW s \in Emissions(C), NEW m \in C,
         m.node.op = "port"
  PROVE  PortNamed(c, s, m) \in Emissions(C)
<1>1. m.node.port \in Int /\ m.node.port # NoNet /\ Positive(m) \in C
  BY EmittableIs
<1>2. PICK u : u = [s EXCEPT !.used = @ \union {m.node.port}]
  OBVIOUS
<1>3. PICK v : v = Named(u, Positive(m), m.node.port)
  OBVIOUS
<1>4. v \in Emissions(C)
  BY <1>1, <1>2, <1>3, UsedIs, NamedIs
<1>. QED BY <1>2, <1>3, <1>4, WithInverterIn DEF PortNamed

LEMMA AndNamedIn ==
  ASSUME NEW c, WiresTyped(c), NEW C, Emittable(C), NEW s0 \in Emissions(C), NEW s1 \in Emissions(C),
         NEW m \in C, NEW a \in C, NEW b \in C
  PROVE  AndNamed(c, m, a, b, s0, s1) \in Emissions(C)
<1>1. PICK ins : ins = <<s0.names[a], s1.names[b]>>
  OBVIOUS
<1>2. ins \in Seq(Int)
  <2>1. s0.names[a] \in Int /\ s1.names[b] \in Int
    BY EmissionFields
  <2>. QED BY <1>1, <2>1
<1>3. Positive(m) \in C /\ "and" \in GateTypes
  BY EmittableIs DEF GateTypes
<1>4. PICK u : u = AddGate(c, s1, "and", ins, Positive(m))
  OBVIOUS
<1>5. u \in Emissions(C)
  BY <1>2, <1>3, <1>4, AddGateIs
<1>. QED BY <1>1, <1>4, <1>5, WithInverterIn DEF AndNamed

(* The operands of a literal of C, in some order.                          *)
Pair(m, a, b) == m.node.op = "and" /\ m.node.ins = {a, b} /\ a # b

LEMMA PairOperands ==
  ASSUME NEW C, Emittable(C), NEW m \in C, NEW a, NEW b, Pair(m, a, b)
  PROVE  /\ a \in C /\ b \in C /\ a.node.level \in Nat /\ b.node.level \in Nat /\ m.node.level \in Nat
         /\ a.node.level < m.node.level /\ b.node.level < m.node.level
<1>1. PICK x, y : /\ AndOver(m.node, x, y) /\ m.node.ins = {x, y} /\ x \in C /\ y \in C
                  /\ x.node.level < m.node.level /\ y.node.level < m.node.level
  BY EmittableIs DEF Pair
<1>2. a \in {x, y} /\ b \in {x, y}
  BY <1>1 DEF Pair
<1>. QED BY <1>1, <1>2, EmittableIs

LEMMA PairChosen ==
  ASSUME NEW C, Emittable(C), NEW m \in C, m.node.op = "and",
         NEW f0, f0 = CHOOSE i \in m.node.ins : TRUE,
         NEW f1, f1 = CHOOSE i \in m.node.ins : i # f0
  PROVE  Pair(m, f0, f1)
<1>1. PICK x, y : /\ AndOver(m.node, x, y) /\ m.node.ins = {x, y} /\ x # y
                  /\ x \in C /\ y \in C
                  /\ x.node.level < m.node.level /\ y.node.level < m.node.level
  BY EmittableIs
<1>2. f0 \in {x, y}
  BY <1>1
<1>3. f1 \in {x, y} /\ f1 # f0
  BY <1>1, <1>2
<1>. QED BY <1>1, <1>2, <1>3 DEF Pair

(* The step, by cases.                                                     *)
LEMMA NameStepIs ==
  ASSUME NEW c, NEW C, Emittable(C), NEW m \in C, NEW s \in Emissions(C), NEW f
  PROVE  /\ s.names[m] # NoNet => NameStep(c, f, m, s) = s
         /\ s.names[m] = NoNet => m.node.op \in {"port", "and"}
         /\ s.names[m] = NoNet /\ m.node.op = "port" => NameStep(c, f, m, s) = PortNamed(c, s, m)
         /\ s.names[m] = NoNet /\ m.node.op = "and" =>
              \E a, b : /\ Pair(m, a, b)
                        /\ NameStep(c, f, m, s) = AndNamed(c, m, a, b, f[a][s], f[b][f[a][s]])
                        /\ \A g : NameStep(c, g, m, s) = AndNamed(c, m, a, b, g[a][s], g[b][g[a][s]])
<1>1. s.names[m] = NoNet => m.node.op \in {"port", "and"}
  BY EmittableIs, EmissionFields DEF Namings
<1>2. ASSUME s.names[m] = NoNet, m.node.op = "and"
      PROVE  \E a, b : /\ Pair(m, a, b)
                       /\ \A g : NameStep(c, g, m, s) = AndNamed(c, m, a, b, g[a][s], g[b][g[a][s]])
  <2>1. PICK f0 : f0 = CHOOSE i \in m.node.ins : TRUE
    OBVIOUS
  <2>2. PICK f1 : f1 = CHOOSE i \in m.node.ins : i # f0
    OBVIOUS
  <2>3. Pair(m, f0, f1)
    BY <1>2, <2>1, <2>2, PairChosen
  <2>4. \A g : NameStep(c, g, m, s) = AndNamed(c, m, f0, f1, g[f0][s], g[f1][g[f0][s]])
    BY <1>2, <2>1, <2>2 DEF NameStep
  <2>. QED BY <2>3, <2>4
<1>3. s.names[m] # NoNet => NameStep(c, f, m, s) = s
  BY DEF NameStep
<1>4. s.names[m] = NoNet /\ m.node.op = "port" => NameStep(c, f, m, s) = PortNamed(c, s, m)
  BY DEF NameStep
<1>. QED BY <1>1, <1>2, <1>3, <1>4

LEMMA NameStepIn ==
  ASSUME NEW c, WiresTyped(c), NEW C, Emittable(C), NEW m \in C, NEW s \in Emissions(C), NEW f,
         \A a \in C : a.node.level < m.node.level => f[a] \in [Emissions(C) -> Emissions(C)]
  PROVE  NameStep(c, f, m, s) \in Emissions(C)
<1>1. CASE s.names[m] # NoNet
  BY <1>1, NameStepIs
<1>2. CASE s.names[m] = NoNet /\ m.node.op = "port"
  BY <1>2, NameStepIs, PortNamedIn
<1>3. CASE s.names[m] = NoNet /\ m.node.op = "and"
  <2>1. PICK a, b : Pair(m, a, b) /\ NameStep(c, f, m, s) = AndNamed(c, m, a, b, f[a][s], f[b][f[a][s]])
    BY <1>3, NameStepIs
  <2>2. PICK s0, s1 : s0 = f[a][s] /\ s1 = f[b][s0]
    OBVIOUS
  <2>3. a \in C /\ b \in C /\ a.node.level < m.node.level /\ b.node.level < m.node.level
    BY <2>1, PairOperands
  <2>4. s0 \in Emissions(C)
    BY <2>2, <2>3
  <2>5. s1 \in Emissions(C)
    BY <2>2, <2>3, <2>4
  <2>. QED BY <2>1, <2>2, <2>3, <2>4, <2>5, AndNamedIn
<1>. QED BY <1>1, <1>2, <1>3, NameStepIs

IsNaming(c, C, f) ==
  /\ f \in [C -> [Emissions(C) -> Emissions(C)]]
  /\ \A m \in C, s \in Emissions(C) : f[m][s] = NameStep(c, f, m, s)

LEMMA NameOfIs ==
  ASSUME NEW c, WiresTyped(c), NEW C, Emittable(C)
  PROVE  \E f : /\ IsNaming(c, C, f)
                /\ \A m \in C, s \in Emissions(C) : NameOf(c, C, m, s) = f[m][s]
<1>. DEFINE E == Emissions(C)
            V == [E -> E]
            rank == [m \in C |-> m.node.level]
            H == [m \in C |-> [f \in [C -> V] |-> [s \in E |-> NameStep(c, f, m, s)]]]
            Is(h) == h = [m \in C |-> [s \in E |-> NameStep(c, h, m, s)]]
<1>1. \A m \in C : m.node.level \in Nat
  BY EmittableIs
<1>2. Graded(H, C, V, rank)
  <2>1. rank \in [C -> Nat]
    BY <1>1
  <2>2. V # {}
    <3>1. [s \in E |-> s] \in V
      OBVIOUS
    <3>. QED BY <3>1
  <2>3. ASSUME NEW m \in C, NEW f \in [C -> V] PROVE [s \in E |-> NameStep(c, f, m, s)] \in V
    <3>1. \A s \in E : NameStep(c, f, m, s) \in E
      BY NameStepIn
    <3>. QED BY <3>1
  <2>4. H \in [C -> [[C -> V] -> V]]
    <3>. HIDE DEF V
    <3>. QED BY <2>3
  <2>5. ASSUME NEW m \in C, NEW f \in [C -> V], NEW g \in [C -> V],
               \A u \in C : rank[u] < rank[m] => f[u] = g[u]
        PROVE  H[m][f] = H[m][g]
    <3>1. \A u \in C : u.node.level < m.node.level => f[u] = g[u]
      BY <2>5
    <3>2. ASSUME NEW s \in E PROVE NameStep(c, f, m, s) = NameStep(c, g, m, s)
      <4>1. CASE s.names[m] # NoNet \/ m.node.op = "port"
        BY <4>1 DEF NameStep
      <4>2. CASE s.names[m] = NoNet /\ m.node.op = "and"
        <5>1. PICK a, b : /\ Pair(m, a, b)
                          /\ NameStep(c, f, m, s) = AndNamed(c, m, a, b, f[a][s], f[b][f[a][s]])
                          /\ NameStep(c, g, m, s) = AndNamed(c, m, a, b, g[a][s], g[b][g[a][s]])
          <6>. HIDE DEF V
          <6>. QED BY <4>2, NameStepIs
        <5>2. a \in C /\ b \in C /\ a.node.level < m.node.level /\ b.node.level < m.node.level
          BY <5>1, PairOperands
        <5>3. f[a] = g[a] /\ f[b] = g[b]
          BY <3>1, <5>2
        <5>. QED BY <5>1, <5>3
      <4>. QED BY <4>1, <4>2, NameStepIs
    <3>3. [s \in E |-> NameStep(c, f, m, s)] = [s \in E |-> NameStep(c, g, m, s)]
      BY <3>2
    <3>. HIDE DEF V
    <3>. QED BY <3>3
  <2>. HIDE DEF V, H, rank
  <2>. QED BY <2>1, <2>2, <2>4, <2>5 DEF Graded
<1>3. PICK f \in [C -> V] : \A m \in C : f[m] = H[m][f]
  <2>. HIDE DEF V, H, rank
  <2>. QED BY <1>2, GradedSolved
<1>4. Is(f)
  <2>1. \A m \in C : f[m] = [s \in E |-> NameStep(c, f, m, s)]
    <3>. HIDE DEF V
    <3>. QED BY <1>3
  <2>2. f = [m \in C |-> f[m]]
    <3>. HIDE DEF V
    <3>. QED BY <1>3
  <2>. QED BY <2>1, <2>2
<1>5. PICK h : h = CHOOSE g : Is(g)
  OBVIOUS
<1>6. Is(h)
  BY <1>4, <1>5
<1>7. \A m \in C, s \in E : NameOf(c, C, m, s) = h[m][s]
  <2>1. ASSUME NEW m, NEW s PROVE NameOf(c, C, m, s) = h[m][s]
    BY <1>5 DEF NameOf, NameStep, PortNamed, AndNamed
  <2>. QED BY <2>1
<1>8. h = [m \in C |-> h[m]] /\ \A m \in C : h[m] = [s \in E |-> NameStep(c, h, m, s)]
  BY <1>6
<1>9. \A m \in C : h[m] \in V
  <2>. DEFINE T == {m.node.level : m \in {k \in C : h[k] \notin V}}
  <2>1. SUFFICES ASSUME T # {} PROVE FALSE
    OBVIOUS
  <2>2. PICK k \in T : \A j \in T : k <= j
    <3>1. T \subseteq Nat
      BY <1>1
    <3>. HIDE DEF T
    <3>. QED BY <2>1, <3>1, Smallest
  <2>3. PICK m \in C : h[m] \notin V /\ k = m.node.level
    <3>. HIDE DEF V
    <3>. QED OBVIOUS
  <2>4. \A a \in C : a.node.level < m.node.level => h[a] \in V
    <3>. SUFFICES ASSUME NEW a \in C, a.node.level < m.node.level, h[a] \notin V PROVE FALSE
      OBVIOUS
    <3>1. a.node.level \in T
      <4>. HIDE DEF V
      <4>. QED OBVIOUS
    <3>2. a.node.level \in Nat /\ m.node.level \in Nat
      BY <1>1
    <3>. HIDE DEF T
    <3>. QED BY <2>2, <2>3, <3>1, <3>2
  <2>5. \A s \in E : NameStep(c, h, m, s) \in E
    BY <2>4, NameStepIn
  <2>6. h[m] \in V
    BY <1>8, <2>5
  <2>. QED BY <2>3, <2>6
<1>10. IsNaming(c, C, h)
  <2>1. h \in [C -> V]
    <3>. HIDE DEF V
    <3>. QED BY <1>8, <1>9
  <2>2. \A m \in C, s \in E : h[m][s] = NameStep(c, h, m, s)
    BY <1>8
  <2>. QED BY <2>1, <2>2 DEF IsNaming
<1>. QED BY <1>7, <1>10

(* Induction over nameOf: what holds between states, literals and states   *)
(* for every step of it holds for all of it.                               *)
NameRel(c, C, R) ==
  /\ \A m \in C, s \in Emissions(C) :
       /\ s.names[m] # NoNet => <<s, m, s>> \in R
       /\ s.names[m] = NoNet /\ m.node.op = "port" => <<s, m, PortNamed(c, s, m)>> \in R
  /\ \A m \in C, a \in C, b \in C, s \in Emissions(C), s0 \in Emissions(C), s1 \in Emissions(C) :
       s.names[m] = NoNet /\ Pair(m, a, b) /\ <<s, a, s0>> \in R /\ <<s0, b, s1>> \in R =>
         <<s, m, AndNamed(c, m, a, b, s0, s1)>> \in R

LEMMA NameOfKeeps ==
  ASSUME NEW c, WiresTyped(c), NEW C, Emittable(C), NEW R, NameRel(c, C, R),
         NEW m \in C, NEW s \in Emissions(C)
  PROVE  NameOf(c, C, m, s) \in Emissions(C) /\ <<s, m, NameOf(c, C, m, s)>> \in R
<1>1. PICK f : /\ IsNaming(c, C, f)
               /\ \A k \in C, t \in Emissions(C) : NameOf(c, C, k, t) = f[k][t]
  BY NameOfIs
<1>. DEFINE Good(k) == \A t \in Emissions(C) : <<t, k, f[k][t]>> \in R
            T == {k.node.level : k \in {j \in C : ~Good(j)}}
<1>2. T = {}
  <2>1. SUFFICES ASSUME T # {} PROVE FALSE
    OBVIOUS
  <2>2. PICK n \in T : \A j \in T : n <= j
    <3>1. T \subseteq Nat
      BY EmittableIs
    <3>. HIDE DEF T
    <3>. QED BY <2>1, <3>1, Smallest
  <2>3. PICK k \in C : ~Good(k) /\ n = k.node.level
    <3>. HIDE DEF Good
    <3>. QED OBVIOUS
  <2>4. PICK t \in Emissions(C) : <<t, k, f[k][t]>> \notin R
    BY <2>3
  <2>5. \A a \in C : a.node.level < k.node.level => Good(a)
    <3>. SUFFICES ASSUME NEW a \in C, a.node.level < k.node.level, ~Good(a) PROVE FALSE
      OBVIOUS
    <3>1. a.node.level \in T
      <4>. HIDE DEF Good
      <4>. QED OBVIOUS
    <3>2. a.node.level \in Nat /\ k.node.level \in Nat
      BY EmittableIs
    <3>. HIDE DEF T, Good
    <3>. QED BY <2>2, <2>3, <3>1, <3>2
  <2>6. f[k][t] = NameStep(c, f, k, t)
    BY <1>1 DEF IsNaming
  <2>7. CASE t.names[k] # NoNet
    <3>1. NameStep(c, f, k, t) = t
      BY <2>7, NameStepIs
    <3>2. <<t, k, t>> \in R
      BY <2>7 DEF NameRel
    <3>. QED BY <2>4, <2>6, <3>1, <3>2
  <2>8. CASE t.names[k] = NoNet /\ k.node.op = "port"
    <3>1. NameStep(c, f, k, t) = PortNamed(c, t, k)
      BY <2>8, NameStepIs
    <3>2. <<t, k, PortNamed(c, t, k)>> \in R
      BY <2>8 DEF NameRel
    <3>. QED BY <2>4, <2>6, <3>1, <3>2
  <2>9. CASE t.names[k] = NoNet /\ k.node.op = "and"
    <3>1. PICK a, b : Pair(k, a, b) /\ NameStep(c, f, k, t) = AndNamed(c, k, a, b, f[a][t], f[b][f[a][t]])
      BY <2>9, NameStepIs
    <3>2. a \in C /\ b \in C /\ a.node.level < k.node.level /\ b.node.level < k.node.level
      BY <3>1, PairOperands
    <3>3. PICK s0, s1 : s0 = f[a][t] /\ s1 = f[b][s0]
      OBVIOUS
    <3>4. s0 \in Emissions(C)
      BY <1>1, <3>2, <3>3 DEF IsNaming
    <3>5. s1 \in Emissions(C)
      BY <1>1, <3>2, <3>3, <3>4 DEF IsNaming
    <3>6. <<t, a, s0>> \in R /\ <<s0, b, s1>> \in R
      BY <2>5, <3>2, <3>3, <3>4
    <3>7. <<t, k, AndNamed(c, k, a, b, s0, s1)>> \in R
      BY <2>9, <3>1, <3>2, <3>4, <3>5, <3>6 DEF NameRel
    <3>. QED BY <2>4, <2>6, <3>1, <3>3, <3>7
  <2>. QED BY <2>7, <2>8, <2>9, NameStepIs
<1>3. Good(m)
  <2>. HIDE DEF Good
  <2>. QED BY <1>2
<1>. QED BY <1>1, <1>3 DEF IsNaming

OutsOf(gates) == {gates[i].out : i \in DOMAIN gates}

LEMMA AppendGate ==
  ASSUME NEW gates \in Seq(GateRecs), NEW g \in GateRecs, NEW more, more = Append(gates, g)
  PROVE  /\ more \in Seq(GateRecs) /\ OutsOf(more) = OutsOf(gates) \union {g.out}
         /\ Read(more) = Read(gates) \union Range(g.ins)
<1>1. Len(gates) \in Nat /\ DOMAIN gates = 1 .. Len(gates)
  OBVIOUS
<1>2. /\ more \in Seq(GateRecs) /\ DOMAIN more = 1 .. Len(gates) + 1 /\ more[Len(gates) + 1] = g
      /\ \A i \in 1 .. Len(gates) : more[i] = gates[i]
  OBVIOUS
<1>3. DOMAIN more = DOMAIN gates \union {Len(gates) + 1}
  BY <1>1, <1>2
<1>4. OutsOf(more) = OutsOf(gates) \union {g.out}
  BY <1>1, <1>2, <1>3 DEF OutsOf
<1>5. Read(more) = Read(gates) \union Range(g.ins)
  BY <1>1, <1>2, <1>3 DEF Read
<1>. QED BY <1>2, <1>4, <1>5

(* In the middle of an emission: P are the names that nobody reads yet, O  *)
(* the outputs.                                                            *)
Sources(st) == st.used \union OutsOf(st.gates) \union {0, 1}
Pending(st, P, O) ==
  /\ st.used \subseteq Read(st.gates) \union P
  /\ OutsOf(st.gates) \subseteq Read(st.gates) \union P \union O
  /\ O \subseteq OutsOf(st.gates)
  /\ Read(st.gates) \subseteq Sources(st)
  /\ \A l \in DOMAIN st.names : st.names[l] # NoNet => st.names[l] \in Sources(st)

LEMMA PendingMore ==
  ASSUME NEW st, NEW P, NEW O, Pending(st, P, O), NEW Q, P \subseteq Q
  PROVE  Pending(st, Q, O)
BY DEF Pending

LEMMA AddGatePending ==
  ASSUME NEW c, WiresTyped(c), NEW C, NEW s \in Emissions(C), NEW type \in GateTypes,
         NEW ins \in Seq(Int), NEW l \in C,
         NEW t, t = AddGate(c, s, type, ins, l),
         NEW P, NEW O, Pending(s, P, O), Range(ins) \subseteq Sources(s),
         NEW Q, P \subseteq Q \union Range(ins), t.names[l] \in Q
  PROVE  Pending(t, Q, O)
<1>1. PICK w : w = EcoWire(c, s.wid)
  OBVIOUS
<1>2. /\ t \in Emissions(C) /\ t.wid = s.wid + 1 /\ t.used = s.used
      /\ t.gates = Append(s.gates, Gate(type, w, ins)) /\ w \in Nat
      /\ t.names[l] = w /\ \A k \in C : k # l => t.names[k] = s.names[k]
  BY <1>1, AddGateIs
<1>3. Gate(type, w, ins) \in GateRecs /\ Gate(type, w, ins).out = w /\ Gate(type, w, ins).ins = ins
  BY <1>2 DEF Gate, GateRecs
<1>4. OutsOf(t.gates) = OutsOf(s.gates) \union {w} /\ Read(t.gates) = Read(s.gates) \union Range(ins)
  <2>1. PICK g : g = Gate(type, w, ins)
    OBVIOUS
  <2>2. g \in GateRecs /\ g.out = w /\ g.ins = ins /\ t.gates = Append(s.gates, g)
    BY <1>2, <1>3, <2>1
  <2>3. s.gates \in Seq(GateRecs)
    BY EmissionFields
  <2>4. OutsOf(t.gates) = OutsOf(s.gates) \union {g.out} /\ Read(t.gates) = Read(s.gates) \union Range(g.ins)
    BY ONLY <2>2, <2>3, AppendGate
  <2>. QED BY <2>2, <2>4
<1>5. Sources(t) = Sources(s) \union {w}
  BY <1>2, <1>4 DEF Sources
<1>6. DOMAIN t.names = C /\ DOMAIN s.names = C
  BY <1>2, EmissionFields
<1>7. \A k \in C : t.names[k] # NoNet => t.names[k] \in Sources(t)
  BY <1>2, <1>5, <1>6 DEF Pending
<1>8. t.used \subseteq Read(t.gates) \union Q
  BY <1>2, <1>4 DEF Pending
<1>9. OutsOf(t.gates) \subseteq Read(t.gates) \union Q \union O
  BY <1>2, <1>4 DEF Pending
<1>10. O \subseteq OutsOf(t.gates) /\ Read(t.gates) \subseteq Sources(t)
  BY <1>4, <1>5 DEF Pending
<1>. QED BY <1>6, <1>7, <1>8, <1>9, <1>10 DEF Pending

(* What an emission does not forget.                                       *)
Grown(s, t) == s.used \subseteq t.used /\ OutsOf(s.gates) \subseteq OutsOf(t.gates)

LEMMA WithInverterPending ==
  ASSUME NEW c, WiresTyped(c), NEW C, Emittable(C), NEW s \in Emissions(C), NEW m \in C,
         NEW t, t = WithInverter(c, s, m), s.names[Positive(m)] # NoNet
  PROVE  /\ t \in Emissions(C) /\ t.names[m] # NoNet /\ Grown(s, t)
         /\ \A P, O : Pending(s, P \union {s.names[Positive(m)]}, O) =>
              Pending(t, P \union {t.names[m]}, O)
<1>1. m = Lit(m.node, m.ph) /\ m.ph \in {0, 1} /\ Positive(m) \in C /\ Positive(m).ph = 0
  BY EmittableIs
<1>2. CASE m.ph = 0
  <2>1. t = s /\ Positive(m) = m
    BY <1>1, <1>2 DEF WithInverter, Positive
  <2>. QED BY <2>1 DEF Grown
<1>3. CASE m.ph = 1
  <2>1. PICK n, ins : n = s.names[Positive(m)] /\ ins = <<n>>
    OBVIOUS
  <2>2. n \in Int /\ ins \in Seq(Int) /\ Range(ins) = {n}
    <3>1. n \in Int
      BY <1>1, <2>1, EmissionFields
    <3>. QED BY <2>1, <3>1 DEF Range
  <2>3. t = AddGate(c, s, "not", ins, m) /\ "not" \in GateTypes
    BY <1>3, <2>1 DEF WithInverter, GateTypes
  <2>4. PICK w : w = EcoWire(c, s.wid)
    OBVIOUS
  <2>5. /\ t \in Emissions(C) /\ t.wid = s.wid + 1 /\ t.used = s.used
        /\ t.gates = Append(s.gates, Gate("not", w, ins)) /\ w \in Nat
        /\ t.names[m] = w /\ \A k \in C : k # m => t.names[k] = s.names[k]
    BY <2>2, <2>3, <2>4, AddGateIs
  <2>6. t.names[m] # NoNet
    BY <2>5 DEF NoNet
  <2>7. Grown(s, t)
    <3>1. Gate("not", w, ins) \in GateRecs
      BY <2>2, <2>3, <2>5 DEF Gate, GateRecs
    <3>2. OutsOf(t.gates) = OutsOf(s.gates) \union {Gate("not", w, ins).out}
      <4>1. PICK g : g = Gate("not", w, ins)
        OBVIOUS
      <4>2. g \in GateRecs /\ t.gates = Append(s.gates, g)
        BY <2>5, <3>1, <4>1
      <4>3. s.gates \in Seq(GateRecs)
        BY EmissionFields
      <4>4. OutsOf(t.gates) = OutsOf(s.gates) \union {g.out}
        BY ONLY <4>2, <4>3, AppendGate
      <4>. QED BY <4>1, <4>4
    <3>. QED BY <2>5, <3>2 DEF Grown
  <2>8. ASSUME NEW P, NEW O, Pending(s, P \union {n}, O) PROVE Pending(t, P \union {t.names[m]}, O)
    <3>1. n \in Sources(s)
      <4>1. DOMAIN s.names = C
        BY EmissionFields
      <4>. QED BY <1>1, <2>1, <2>8, <4>1 DEF Pending
    <3>2. PICK Q, P2 : Q = P \union {t.names[m]} /\ P2 = P \union {n}
      OBVIOUS
    <3>3. P2 \subseteq Q \union Range(ins) /\ t.names[m] \in Q /\ Range(ins) \subseteq Sources(s) /\ Pending(s, P2, O)
      BY <2>2, <2>8, <3>1, <3>2
    <3>4. Pending(t, Q, O)
      BY <2>2, <2>3, <3>3, AddGatePending
    <3>. QED BY <3>2, <3>4
  <2>. QED BY <2>1, <2>5, <2>6, <2>7, <2>8
<1>. QED BY <1>1, <1>2, <1>3

(* Naming literal m leaves its name to be read.                            *)
NamesPending(C) ==
  {r \in Emissions(C) \X C \X Emissions(C) :
     /\ r[3].names[r[2]] # NoNet /\ Grown(r[1], r[3])
     /\ \A P, O : Pending(r[1], P, O) => Pending(r[3], P \union {r[3].names[r[2]]}, O)}

LEMMA NamesPendingIs ==
  ASSUME NEW C, NEW s \in Emissions(C), NEW m \in C, NEW t \in Emissions(C)
  PROVE  <<s, m, t>> \in NamesPending(C) <=>
           /\ t.names[m] # NoNet /\ Grown(s, t)
           /\ \A P, O : Pending(s, P, O) => Pending(t, P \union {t.names[m]}, O)
BY DEF NamesPending

(* A port that gets its name is read from then on, or its inverter is.     *)
LEMMA PortNamedPending ==
  ASSUME NEW c, WiresTyped(c), NEW C, Emittable(C), NEW m \in C, NEW s \in Emissions(C),
         m.node.op = "port", NEW t, t = PortNamed(c, s, m)
  PROVE  <<s, m, t>> \in NamesPending(C) /\ t \in Emissions(C)
<1>1. m.node.port \in Int /\ m.node.port # NoNet /\ Positive(m) \in C
  BY EmittableIs
<1>2. PICK p : p = m.node.port
  OBVIOUS
<1>3. PICK u : u = [s EXCEPT !.used = @ \union {p}]
  OBVIOUS
<1>4. /\ u \in Emissions(C) /\ u.wid = s.wid /\ u.used = s.used \union {p} /\ u.gates = s.gates
      /\ u.names = s.names
  BY <1>1, <1>2, <1>3, UsedIs
<1>5. PICK v : v = Named(u, Positive(m), p)
  OBVIOUS
<1>6. /\ v \in Emissions(C) /\ v.used = s.used \union {p} /\ v.gates = s.gates
      /\ v.names[Positive(m)] = p /\ \A k \in C : k # Positive(m) => v.names[k] = s.names[k]
  BY <1>1, <1>2, <1>4, <1>5, NamedIs
<1>7. t = WithInverter(c, v, m) /\ v.names[Positive(m)] # NoNet
  BY <1>1, <1>2, <1>3, <1>5, <1>6 DEF PortNamed
<1>8. /\ t \in Emissions(C) /\ t.names[m] # NoNet /\ Grown(v, t)
      /\ \A P, O : Pending(v, P \union {v.names[Positive(m)]}, O) => Pending(t, P \union {t.names[m]}, O)
  BY <1>6, <1>7, WithInverterPending
<1>9. Grown(s, t)
  BY <1>6, <1>8 DEF Grown
<1>10. ASSUME NEW P, NEW O, Pending(s, P, O) PROVE Pending(v, P \union {p}, O)
  <2>1. DOMAIN s.names = C /\ DOMAIN v.names = C
    BY <1>6, EmissionFields
  <2>2. Sources(v) = Sources(s) \union {p}
    BY <1>6 DEF Sources
  <2>3. \A l \in C : v.names[l] # NoNet => v.names[l] \in Sources(v)
    BY <1>6, <1>10, <2>1, <2>2 DEF Pending
  <2>. QED BY <1>6, <1>10, <2>1, <2>2, <2>3 DEF Pending
<1>11. \A P, O : Pending(s, P, O) => Pending(t, P \union {t.names[m]}, O)
  BY <1>6, <1>8, <1>10
<1>. QED BY <1>8, <1>9, <1>11, NamesPendingIs

LEMMA GrownSources ==
  ASSUME NEW s, NEW t, Grown(s, t)
  PROVE  Sources(s) \subseteq Sources(t)
BY DEF Grown, Sources

(* An AND reads the names of its operands.                                 *)
LEMMA AndNamedPending ==
  ASSUME NEW c, WiresTyped(c), NEW C, Emittable(C), NEW m \in C, NEW a \in C, NEW b \in C,
         NEW s \in Emissions(C), NEW s0 \in Emissions(C), NEW s1 \in Emissions(C),
         <<s, a, s0>> \in NamesPending(C), <<s0, b, s1>> \in NamesPending(C),
         NEW t, t = AndNamed(c, m, a, b, s0, s1)
  PROVE  <<s, m, t>> \in NamesPending(C)
<1>1. /\ s0.names[a] # NoNet /\ Grown(s, s0)
      /\ \A P, O : Pending(s, P, O) => Pending(s0, P \union {s0.names[a]}, O)
  BY NamesPendingIs
<1>2. /\ s1.names[b] # NoNet /\ Grown(s0, s1)
      /\ \A P, O : Pending(s0, P, O) => Pending(s1, P \union {s1.names[b]}, O)
  BY NamesPendingIs
<1>3. PICK n0, n1, ins : n0 = s0.names[a] /\ n1 = s1.names[b] /\ ins = <<n0, n1>>
  OBVIOUS
<1>4. n0 \in Int /\ n1 \in Int
  BY <1>3, EmissionFields
<1>5. ins \in Seq(Int) /\ Range(ins) = {n0, n1}
  BY <1>3, <1>4 DEF Range
<1>6. Positive(m) \in C /\ "and" \in GateTypes
  BY EmittableIs DEF GateTypes
<1>7. PICK u, w : u = AddGate(c, s1, "and", ins, Positive(m)) /\ w = EcoWire(c, s1.wid)
  OBVIOUS
<1>8. /\ u \in Emissions(C) /\ u.used = s1.used
      /\ u.gates = Append(s1.gates, Gate("and", w, ins)) /\ w \in Nat
      /\ u.names[Positive(m)] = w
  BY <1>5, <1>6, <1>7, AddGateIs
<1>9. t = WithInverter(c, u, m) /\ u.names[Positive(m)] # NoNet
  BY <1>3, <1>7, <1>8 DEF AndNamed, NoNet
<1>10. /\ t \in Emissions(C) /\ t.names[m] # NoNet /\ Grown(u, t)
       /\ \A P, O : Pending(u, P \union {u.names[Positive(m)]}, O) => Pending(t, P \union {t.names[m]}, O)
  BY <1>8, <1>9, WithInverterPending
<1>11. Grown(s1, u)
  <2>1. PICK g : g = Gate("and", w, ins)
    OBVIOUS
  <2>2. g \in GateRecs /\ u.gates = Append(s1.gates, g)
    BY <1>5, <1>6, <1>8, <2>1 DEF Gate, GateRecs
  <2>3. s1.gates \in Seq(GateRecs)
    BY EmissionFields
  <2>4. OutsOf(u.gates) = OutsOf(s1.gates) \union {g.out}
    BY ONLY <2>2, <2>3, AppendGate
  <2>. QED BY <1>8, <2>4 DEF Grown
<1>12. Grown(s, t)
  BY <1>1, <1>2, <1>10, <1>11 DEF Grown
<1>13. ASSUME NEW P, NEW O, Pending(s, P, O) PROVE Pending(t, P \union {t.names[m]}, O)
  <2>1. PICK P0, P1, Q : /\ P0 = P \union {n0} /\ P1 = P0 \union {n1}
                         /\ Q = P \union {u.names[Positive(m)]}
    OBVIOUS
  <2>2. Pending(s0, P0, O)
    BY <1>1, <1>3, <1>13, <2>1
  <2>3. Pending(s1, P1, O)
    BY <1>2, <1>3, <2>1, <2>2
  <2>4. n0 \in Sources(s0) /\ n1 \in Sources(s1)
    <3>1. DOMAIN s0.names = C /\ DOMAIN s1.names = C
      BY EmissionFields
    <3>. QED BY <1>1, <1>2, <1>3, <2>2, <2>3, <3>1 DEF Pending
  <2>5. n0 \in Sources(s1)
    BY <1>2, <2>4, GrownSources
  <2>6. Range(ins) \subseteq Sources(s1) /\ P1 \subseteq Q \union Range(ins) /\ u.names[Positive(m)] \in Q
    BY <1>5, <2>1, <2>4, <2>5
  <2>7. Pending(u, Q, O)
    BY ONLY WiresTyped(c), s1 \in Emissions(C), <1>5, <1>6, <1>7, <2>3, <2>6, AddGatePending
  <2>. QED BY <1>10, <2>1, <2>7
<1>. QED BY <1>10, <1>12, <1>13, NamesPendingIs

LEMMA NamesPendingKept ==
  ASSUME NEW c, WiresTyped(c), NEW C, Emittable(C)
  PROVE  NameRel(c, C, NamesPending(C))
<1>1. ASSUME NEW m \in C, NEW s \in Emissions(C), s.names[m] # NoNet
      PROVE  <<s, m, s>> \in NamesPending(C)
  <2>1. Grown(s, s)
    BY DEF Grown
  <2>2. \A P, O : Pending(s, P, O) => Pending(s, P \union {s.names[m]}, O)
    BY PendingMore
  <2>. QED BY <1>1, <2>1, <2>2, NamesPendingIs
<1>2. ASSUME NEW m \in C, NEW s \in Emissions(C), m.node.op = "port"
      PROVE  <<s, m, PortNamed(c, s, m)>> \in NamesPending(C)
  BY <1>2, PortNamedPending
<1>3. ASSUME NEW m \in C, NEW a \in C, NEW b \in C, NEW s \in Emissions(C),
             NEW s0 \in Emissions(C), NEW s1 \in Emissions(C),
             <<s, a, s0>> \in NamesPending(C), <<s0, b, s1>> \in NamesPending(C)
      PROVE  <<s, m, AndNamed(c, m, a, b, s0, s1)>> \in NamesPending(C)
  BY <1>3, AndNamedPending
<1>. QED BY <1>1, <1>2, <1>3 DEF NameRel

(* Nothing is emitted yet.                                                 *)
NoneYet(C) ==
  [names |-> [l \in C |-> IF l = Zero THEN 0 ELSE IF l = One THEN 1 ELSE NoNet],
   wid |-> 0, used |-> {}, gates |-> <<>>]

(* A target gets its buffer.                                               *)
Finish(t, st) == [st EXCEPT !.gates = Append(@, Gate("buf", t.out, <<st.names[t.lit]>>))]

LEMMA EmissionStarts ==
  ASSUME NEW C, Emittable(C), NEW s, s = NoneYet(C)
  PROVE  /\ s \in Emissions(C) /\ s.wid = 0 /\ s.used = {} /\ s.gates = <<>>
         /\ \A l \in C : s.names[l] = IF l = Zero THEN 0 ELSE IF l = One THEN 1 ELSE NoNet
<1>1. PICK f : f = [l \in C |-> IF l = Zero THEN 0 ELSE IF l = One THEN 1 ELSE NoNet]
  OBVIOUS
<1>2. \A l \in C : l.node = Zero.node => l = Zero \/ l = One
  <2>1. ASSUME NEW l \in C, l.node = Zero.node PROVE l = Zero \/ l = One
    <3>1. l = Lit(Zero.node, l.ph) /\ l.ph \in {0, 1}
      BY <2>1, EmittableIs
    <3>. QED BY <3>1 DEF Zero, One, Lit
  <2>. QED BY <2>1
<1>3. f \in Namings(C)
  <2>1. \A l \in C : f[l] = IF l = Zero THEN 0 ELSE IF l = One THEN 1 ELSE NoNet
    BY <1>1
  <2>2. 0 \in Int /\ 1 \in Int /\ NoNet \in Int /\ 0 # NoNet /\ 1 # NoNet
    BY DEF NoNet
  <2>3. f \in [C -> Int]
    BY <1>1, <2>2
  <2>4. \A l \in C : l.node = Zero.node => f[l] # NoNet
    BY <1>2, <2>1, <2>2
  <2>. QED BY <2>3, <2>4 DEF Namings
<1>4. /\ s = [names |-> f, wid |-> 0, used |-> {}, gates |-> <<>>]
      /\ 0 \in Nat /\ {} \in SUBSET Int /\ <<>> \in Seq(GateRecs)
  BY <1>1 DEF NoneYet
<1>5. s \in Emissions(C)
  BY ONLY <1>3, <1>4, EmissionMade
<1>. QED BY <1>1, <1>4, <1>5

LEMMA FinishIs ==
  ASSUME NEW C, NEW s \in Emissions(C), NEW t, t.out \in Int, t.lit \in C,
         NEW u, u = Finish(t, s), NEW n, n = s.names[t.lit]
  PROVE  /\ u \in Emissions(C) /\ u.wid = s.wid /\ u.used = s.used /\ u.names = s.names
         /\ u.gates = Append(s.gates, Gate("buf", t.out, <<n>>))
         /\ Gate("buf", t.out, <<n>>) \in GateRecs /\ n \in Int
<1>1. s.names \in Namings(C) /\ s.wid \in Nat /\ s.used \in SUBSET Int /\ s.gates \in Seq(GateRecs)
  BY EmissionFields
<1>2. n \in Int
  BY EmissionFields
<1>3. PICK ins : ins = <<n>>
  OBVIOUS
<1>4. ins \in Seq(Int) /\ "buf" \in GateTypes
  BY <1>2, <1>3 DEF GateTypes
<1>5. PICK g : g = Gate("buf", t.out, ins)
  OBVIOUS
<1>6. g \in GateRecs
  BY <1>4, <1>5 DEF Gate, GateRecs
<1>7. PICK gates : gates = Append(s.gates, g)
  OBVIOUS
<1>8. gates \in Seq(GateRecs)
  BY <1>1, <1>6, <1>7
<1>9. u = [names |-> s.names, wid |-> s.wid, used |-> s.used, gates |-> gates]
  BY <1>3, <1>5, <1>7 DEF Finish, Emissions
<1>10. u \in Emissions(C)
  BY ONLY <1>1, <1>8, <1>9, EmissionMade
<1>. QED BY <1>2, <1>3, <1>5, <1>6, <1>7, <1>9, <1>10

(* How a patch is emitted: target by target.                               *)
Emitting(c, C, ts, done) ==
  /\ done \in [0 .. Len(ts) -> Emissions(C)] /\ done[0] = NoneYet(C)
  /\ \A k \in 1 .. Len(ts) : done[k] = Finish(ts[k], NameOf(c, C, ts[k].lit, done[k - 1]))

LEMMA TargetIs ==
  ASSUME NEW c, NEW ts, IsTargets(c, ts), c.nets \subseteq Nat
  PROVE  /\ Len(ts) \in Nat /\ DOMAIN ts = 1 .. Len(ts)
         /\ \A i \in 1 .. Len(ts) : ts[i].out \in c.nets /\ ts[i].out \in Int /\ ts[i].lit \in Plain
BY TargetsFields

LEMMA AigToPatchIs ==
  ASSUME NEW c, NEW ts, IsTargets(c, ts), WiresTyped(c), c.nets \subseteq Nat,
         NEW C, C = ConeLits(ts)
  PROVE  \E done : /\ Emitting(c, C, ts, done)
                   /\ AigToPatch(c, ts) =
                        [inputs |-> done[Len(ts)].used, gates |-> done[Len(ts)].gates,
                         outputs |-> [k \in DOMAIN ts |-> ts[k].out]]
<1>. DEFINE n == Len(ts)
            E == Emissions(C)
            One1(t, s) == LET st == NameOf(c, C, t.lit, s)
                         IN  [st EXCEPT !.gates = Append(@, Gate("buf", t.out, <<st.names[t.lit]>>))]
            Is(g) == g = [k \in 0 .. n |-> IF k = 0 THEN NoneYet(C) ELSE One1(ts[k], g[k - 1])]
            K == [k \in 1 .. n |-> [s \in E |-> Finish(ts[k], NameOf(c, C, ts[k].lit, s))]]
<1>1. n \in Nat /\ DOMAIN ts = 1 .. n /\ \A k \in 1 .. n : ts[k].out \in Int
  BY TargetIs
<1>2. Emittable(C) /\ \A k \in 1 .. n : ts[k].lit \in C
  BY <1>1, ConeLitsEmittable
<1>3. \A k \in 1 .. n, s \in E : Finish(ts[k], NameOf(c, C, ts[k].lit, s)) \in E
  <2>1. ASSUME NEW k \in 1 .. n, NEW s \in E PROVE Finish(ts[k], NameOf(c, C, ts[k].lit, s)) \in E
    <3>1. PICK l, t, st, u : l = ts[k].lit /\ t = ts[k] /\ st = NameOf(c, C, l, s) /\ u = Finish(t, st)
      OBVIOUS
    <3>2. l \in C /\ t.out \in Int /\ t.lit \in C
      BY <1>1, <1>2, <3>1
    <3>3. st \in E
      BY ONLY <1>2, <2>1, <3>1, <3>2, WiresTyped(c), NameOfKeeps, NamesPendingKept
    <3>4. u \in E
      BY ONLY <3>1, <3>2, <3>3, FinishIs
    <3>. QED BY <3>1, <3>4
  <2>. QED BY <2>1
<1>4. NoneYet(C) \in E
  BY <1>2, EmissionStarts
<1>5. K \in [1 .. n -> [E -> E]]
  BY <1>3
<1>6. PICK f : IsSteps(f, NoneYet(C), K, E, n)
  <2>. HIDE DEF K, n, E
  <2>. QED BY ONLY <1>1, <1>4, <1>5, StepsExist
<1>7. f \in [0 .. n -> E] /\ f[0] = NoneYet(C) /\ \A k \in 1 .. n : f[k] = K[k][f[k - 1]]
  BY <1>6 DEF IsSteps
<1>8. \A k \in 1 .. n : k - 1 \in 0 .. n
  BY <1>1
<1>9. \A k \in 1 .. n : f[k] = Finish(ts[k], NameOf(c, C, ts[k].lit, f[k - 1]))
  BY <1>7, <1>8
<1>10. \A t, s : One1(t, s) = Finish(t, NameOf(c, C, t.lit, s))
  BY DEF Finish
<1>11. \A k \in 1 .. n : f[k] = One1(ts[k], f[k - 1])
  <2>. HIDE DEF One1, n
  <2>. QED BY <1>9, <1>10
<1>12. Is(f)
  <2>. HIDE DEF One1
  <2>. QED BY <1>1, <1>7, <1>11
<1>13. PICK g : g = CHOOSE h : Is(h)
  OBVIOUS
<1>14. Is(g)
  BY <1>12, <1>13
<1>15. /\ DOMAIN g = 0 .. n /\ g[0] = NoneYet(C)
       /\ \A k \in 1 .. n : g[k] = Finish(ts[k], NameOf(c, C, ts[k].lit, g[k - 1]))
  <2>1. DOMAIN g = 0 .. n /\ g[0] = NoneYet(C) /\ \A k \in 1 .. n : g[k] = One1(ts[k], g[k - 1])
    <3>1. g = [k \in 0 .. n |-> IF k = 0 THEN NoneYet(C) ELSE One1(ts[k], g[k - 1])]
      <4>. HIDE DEF One1, n
      <4>. QED BY ONLY <1>14
    <3>. HIDE DEF One1, n, Is, E, K
    <3>2. n \in Nat
      BY <1>1
    <3>3. DOMAIN g = 0 .. n
      BY ONLY <3>1
    <3>4. 0 \in 0 .. n /\ \A k \in 1 .. n : k \in 0 .. n /\ k # 0
      BY ONLY <3>2
    <3>5. \A k \in 0 .. n : g[k] = IF k = 0 THEN NoneYet(C) ELSE One1(ts[k], g[k - 1])
      BY ONLY <3>1
    <3>. QED BY ONLY <3>3, <3>4, <3>5
  <2>. QED BY <1>10, <2>1
<1>16. \A k \in 0 .. n : g[k] \in E
  <2>. DEFINE T == {k \in 0 .. n : g[k] \in E}
  <2>1. 0 \in T
    BY <1>1, <1>4, <1>15
  <2>2. ASSUME NEW k \in 1 .. n, k - 1 \in T PROVE k \in T
    BY <1>1, <1>3, <1>15, <2>2
  <2>3. 0 .. n \subseteq T
    <3>. HIDE DEF T, n
    <3>. QED BY <1>1, <2>1, <2>2, UpTo
  <2>. QED BY <2>3
<1>17. g \in [0 .. n -> E]
  <2>1. g = [k \in 0 .. n |-> IF k = 0 THEN NoneYet(C) ELSE One1(ts[k], g[k - 1])]
    BY <1>14
  <2>. HIDE DEF n, E, One1
  <2>. QED BY <1>15, <1>16, <2>1
<1>18. AigToPatch(c, ts) = [inputs |-> g[n].used, gates |-> g[n].gates,
                            outputs |-> [k \in DOMAIN ts |-> ts[k].out]]
  BY <1>13 DEF AigToPatch, NoneYet
<1>19. Emitting(c, C, ts, g)
  BY <1>15, <1>17 DEF Emitting
<1>. QED BY <1>18, <1>19

LEMMA FinishPending ==
  ASSUME NEW C, NEW s \in Emissions(C), NEW t, t.out \in Int, t.lit \in C,
         NEW u, u = Finish(t, s), NEW n, n = s.names[t.lit], n # NoNet,
         NEW O, Pending(s, {n}, O)
  PROVE  Pending(u, {}, O \union {t.out})
<1>1. /\ u \in Emissions(C) /\ u.used = s.used /\ u.names = s.names
      /\ u.gates = Append(s.gates, Gate("buf", t.out, <<n>>))
      /\ Gate("buf", t.out, <<n>>) \in GateRecs /\ n \in Int
  BY ONLY s \in Emissions(C), t.out \in Int, t.lit \in C, u = Finish(t, s), n = s.names[t.lit], FinishIs
<1>2. PICK g : g = Gate("buf", t.out, <<n>>)
  OBVIOUS
<1>3. g.out = t.out /\ Range(g.ins) = {n}
  BY <1>1, <1>2 DEF Gate, Range
<1>4. g \in GateRecs /\ u.gates = Append(s.gates, g) /\ s.gates \in Seq(GateRecs)
  BY <1>1, <1>2, EmissionFields
<1>5. OutsOf(u.gates) = OutsOf(s.gates) \union {t.out} /\ Read(u.gates) = Read(s.gates) \union {n}
  <2>1. OutsOf(u.gates) = OutsOf(s.gates) \union {g.out} /\ Read(u.gates) = Read(s.gates) \union Range(g.ins)
    BY ONLY <1>4, AppendGate
  <2>. QED BY <1>3, <2>1
<1>6. Sources(u) = Sources(s) \union {t.out}
  BY <1>1, <1>5 DEF Sources
<1>7. DOMAIN s.names = C
  BY EmissionFields
<1>8. n \in Sources(s)
  BY <1>7 DEF Pending
<1>9. \A l \in DOMAIN u.names : u.names[l] # NoNet => u.names[l] \in Sources(u)
  BY <1>1, <1>6, <1>7 DEF Pending
<1>10. Read(u.gates) \subseteq Sources(u)
  BY <1>5, <1>6, <1>8 DEF Pending
<1>. QED BY <1>1, <1>5, <1>9, <1>10 DEF Pending

OutsUpTo(ts, k) == {ts[i].out : i \in 1 .. k}

LEMMA OutsGrow ==
  ASSUME NEW ts, NEW k \in Nat, k > 0
  PROVE  OutsUpTo(ts, k) = OutsUpTo(ts, k - 1) \union {ts[k].out} /\ OutsUpTo(ts, 0) = {}
<1>1. 1 .. k = 1 .. (k - 1) \union {k} /\ 1 .. 0 = {}
  OBVIOUS
<1>. QED BY <1>1 DEF OutsUpTo

(* Target by target, nothing is left over.                                 *)
LEMMA EmittingPending ==
  ASSUME NEW c, NEW ts, IsTargets(c, ts), WiresTyped(c), c.nets \subseteq Nat,
         NEW C, C = ConeLits(ts), NEW done, Emitting(c, C, ts, done)
  PROVE  Pending(done[Len(ts)], {}, OutsUpTo(ts, Len(ts)))
<1>. DEFINE n == Len(ts)
            T == {k \in 0 .. n : Pending(done[k], {}, OutsUpTo(ts, k))}
<1>1. n \in Nat /\ DOMAIN ts = 1 .. n /\ \A k \in 1 .. n : ts[k].out \in Int
  BY TargetIs
<1>2. Emittable(C) /\ \A k \in 1 .. n : ts[k].lit \in C
  BY <1>1, ConeLitsEmittable
<1>3. /\ \A k \in 0 .. n : done[k] \in Emissions(C)
      /\ done[0] = NoneYet(C)
      /\ \A k \in 1 .. n : done[k] = Finish(ts[k], NameOf(c, C, ts[k].lit, done[k - 1]))
  BY DEF Emitting
<1>4. 0 \in T
  <2>1. PICK s : s = NoneYet(C)
    OBVIOUS
  <2>2. /\ s \in Emissions(C) /\ s.used = {} /\ s.gates = <<>>
        /\ \A l \in C : s.names[l] = IF l = Zero THEN 0 ELSE IF l = One THEN 1 ELSE NoNet
    BY ONLY <1>2, <2>1, EmissionStarts
  <2>3. DOMAIN s.names = C
    BY <2>2, EmissionFields
  <2>4. OutsOf(s.gates) = {} /\ Read(s.gates) = {}
    BY <2>2 DEF OutsOf, Read
  <2>5. OutsUpTo(ts, 0) = {}
    BY DEF OutsUpTo
  <2>6. Pending(s, {}, {})
    <3>1. \A l \in DOMAIN s.names : s.names[l] # NoNet => s.names[l] \in {0, 1}
      BY <2>2, <2>3
    <3>. QED BY <2>2, <2>4, <3>1 DEF Pending, Sources
  <2>7. s = done[0]
    BY <1>3, <2>1
  <2>8. Pending(done[0], {}, OutsUpTo(ts, 0))
    BY ONLY <2>5, <2>6, <2>7
  <2>. QED BY <1>1, <2>8
<1>5. ASSUME NEW k \in 1 .. n, k - 1 \in T PROVE k \in T
  <2>1. PICK s, l, st, t, u : /\ s = done[k - 1] /\ l = ts[k].lit /\ st = NameOf(c, C, l, s) /\ t = ts[k]
                              /\ u = done[k]
    OBVIOUS
  <2>2. /\ s \in Emissions(C) /\ l \in C /\ t.out \in Int /\ t.lit = l /\ u = Finish(t, st)
        /\ Pending(s, {}, OutsUpTo(ts, k - 1))
    BY <1>1, <1>2, <1>3, <1>5, <2>1
  <2>3. st \in Emissions(C) /\ <<s, l, st>> \in NamesPending(C)
    BY ONLY WiresTyped(c), <1>2, <2>1, <2>2, NameOfKeeps, NamesPendingKept
  <2>4. st.names[l] # NoNet /\ Pending(st, {} \union {st.names[l]}, OutsUpTo(ts, k - 1))
    BY <2>2, <2>3, NamesPendingIs
  <2>5. PICK m, O : m = st.names[l] /\ O = OutsUpTo(ts, k - 1)
    OBVIOUS
  <2>6. Pending(st, {m}, O) /\ m # NoNet /\ m = st.names[t.lit] /\ t.lit \in C
    BY <2>2, <2>4, <2>5
  <2>7. Pending(u, {}, O \union {t.out})
    BY ONLY <2>2, <2>3, <2>6, FinishPending
  <2>8. OutsUpTo(ts, k) = O \union {t.out}
    BY <1>1, <2>1, <2>5, OutsGrow
  <2>9. Pending(done[k], {}, OutsUpTo(ts, k))
    BY ONLY <2>1, <2>7, <2>8
  <2>. QED BY <1>1, <2>9
<1>6. 0 .. n \subseteq T
  <2>. HIDE DEF T, n
  <2>. QED BY <1>1, <1>4, <1>5, UpTo
<1>. QED BY <1>1, <1>6

(* A patch as it is emitted.                                               *)
LEMMA EmittedTidy ==
  ASSUME NEW c, NEW ts, IsTargets(c, ts), WiresTyped(c), c.nets \subseteq Nat
  PROVE  /\ IsPatch(c, AigToPatch(c, ts)) /\ Tidy(AigToPatch(c, ts))
         /\ Outs(AigToPatch(c, ts)) = TargetNets(ts)
<1>1. PICK C : C = ConeLits(ts)
  OBVIOUS
<1>2. PICK done : /\ Emitting(c, C, ts, done)
                  /\ AigToPatch(c, ts) =
                       [inputs |-> done[Len(ts)].used, gates |-> done[Len(ts)].gates,
                        outputs |-> [k \in DOMAIN ts |-> ts[k].out]]
  BY <1>1, AigToPatchIs
<1>3. PICK n, s, p : n = Len(ts) /\ s = done[n] /\ p = AigToPatch(c, ts)
  OBVIOUS
<1>4. n \in Nat /\ DOMAIN ts = 1 .. n /\ \A k \in 1 .. n : ts[k].out \in c.nets
  BY <1>3, TargetIs
<1>5. s \in Emissions(C)
  BY <1>2, <1>3, <1>4 DEF Emitting
<1>6. s.used \subseteq Int /\ s.gates \in Seq(GateRecs)
  BY <1>5, EmissionFields
<1>7. p.inputs = s.used /\ p.gates = s.gates /\ p.outputs = [k \in 1 .. n |-> ts[k].out]
  BY <1>2, <1>3, <1>4
<1>8. Pending(s, {}, OutsUpTo(ts, n))
  BY <1>1, <1>2, <1>3, EmittingPending
<1>9. Outs(p) = OutsUpTo(ts, n) /\ Outs(p) = TargetNets(ts)
  BY <1>4, <1>7 DEF Outs, Range, OutsUpTo, TargetNets
<1>10. GateOuts(p) = OutsOf(s.gates)
  BY <1>7 DEF GateOuts, OutsOf
<1>11. Tidy(p)
  BY <1>7, <1>8, <1>9, <1>10 DEF Tidy, Pending, Sources
<1>12. p.outputs \in Seq(c.nets)
  BY <1>4, <1>7
<1>13. IsFiniteSet(DOMAIN p.gates) /\ DOMAIN p.gates \subseteq Nat
  <2>1. DOMAIN p.gates = 1 .. Len(s.gates) /\ Len(s.gates) \in Nat
    BY <1>6, <1>7
  <2>2. 1 \in Int /\ Len(s.gates) \in Int
    BY <2>1
  <2>3. IsFiniteSet(1 .. Len(s.gates))
    BY ONLY <2>2, FS_Interval
  <2>. QED BY <2>1, <2>3
<1>14. \A i \in DOMAIN p.gates : /\ p.gates[i].type \in GateTypes
                                 /\ p.gates[i].out \in Int /\ p.gates[i].ins \in Seq(Int)
  <2>1. \A i \in DOMAIN p.gates : p.gates[i] \in GateRecs
    BY <1>6, <1>7
  <2>. QED BY <2>1 DEF GateRecs
<1>15. IsPatch(c, p)
  BY <1>6, <1>7, <1>12, <1>13, <1>14 DEF IsPatch
<1>. QED BY <1>3, <1>9, <1>11, <1>15

(* q is p with other names.                                                *)
Renaming(p, q, r) ==
  /\ r \in [Int -> Int] /\ \A n \in PatchPorts(p) : r[n] = n
  /\ q.inputs = p.inputs /\ q.outputs = p.outputs /\ DOMAIN q.gates = DOMAIN p.gates
  /\ \A i \in DOMAIN p.gates :
       /\ q.gates[i].type = p.gates[i].type /\ q.gates[i].out = r[p.gates[i].out]
       /\ DOMAIN q.gates[i].ins = DOMAIN p.gates[i].ins
       /\ q.gates[i].ins = [j \in DOMAIN p.gates[i].ins |-> r[p.gates[i].ins[j]]]

LEMMA PatchNames ==
  ASSUME NEW c, NEW p, IsPatch(c, p), c.nets \subseteq Nat
  PROVE  /\ IsFiniteSet(GateOuts(p)) /\ IsFiniteSet(Read(p.gates))
         /\ GateOuts(p) \subseteq Int /\ Read(p.gates) \subseteq Int /\ PatchPorts(p) \subseteq Int
         /\ Outs(p) \subseteq c.nets
<1>1. /\ IsFiniteSet(DOMAIN p.gates) /\ p.inputs \subseteq Int /\ p.outputs \in Seq(c.nets)
      /\ \A i \in DOMAIN p.gates : p.gates[i].out \in Int /\ p.gates[i].ins \in Seq(Int)
  BY DEF IsPatch
<1>2. IsFiniteSet(GateOuts(p))
  <2>1. PICK f : f = [i \in DOMAIN p.gates |-> p.gates[i].out]
    OBVIOUS
  <2>2. DOMAIN f = DOMAIN p.gates /\ GateOuts(p) = {f[x] : x \in DOMAIN p.gates}
    BY <2>1 DEF GateOuts
  <2>. QED BY <1>1, <2>2, FiniteImage
<1>3. \A i \in DOMAIN p.gates : IsFiniteSet(Range(p.gates[i].ins))
  <2>1. ASSUME NEW i \in DOMAIN p.gates PROVE IsFiniteSet(Range(p.gates[i].ins))
    <3>1. PICK f : f = p.gates[i].ins
      OBVIOUS
    <3>2. f \in Seq(Int) /\ Range(f) = {f[x] : x \in DOMAIN f}
      BY <1>1, <3>1 DEF Range
    <3>3. DOMAIN f = 1 .. Len(f) /\ 1 \in Int /\ Len(f) \in Int
      BY <3>2
    <3>4. IsFiniteSet(1 .. Len(f))
      BY ONLY <3>3, FS_Interval
    <3>5. IsFiniteSet({f[x] : x \in DOMAIN f})
      BY <3>3, <3>4, FiniteImage
    <3>. QED BY <3>1, <3>2, <3>5
  <2>. QED BY <2>1
<1>4. IsFiniteSet(Read(p.gates))
  <2>1. PICK f : f = [i \in DOMAIN p.gates |-> Range(p.gates[i].ins)]
    OBVIOUS
  <2>2. PICK S : S = {f[x] : x \in DOMAIN p.gates}
    OBVIOUS
  <2>3. IsFiniteSet(S)
    BY <1>1, <2>1, <2>2, FiniteImage
  <2>4. Read(p.gates) = UNION S
    BY <2>1, <2>2 DEF Read
  <2>5. \A T \in S : IsFiniteSet(T)
    BY <1>3, <2>1, <2>2
  <2>. QED BY <2>3, <2>4, <2>5, FS_UNION
<1>5. Outs(p) \subseteq c.nets
  BY <1>1 DEF Outs, Range
<1>6. GateOuts(p) \subseteq Int
  BY <1>1 DEF GateOuts
<1>7. Read(p.gates) \subseteq Int
  <2>1. ASSUME NEW i \in DOMAIN p.gates PROVE Range(p.gates[i].ins) \subseteq Int
    <3>1. PICK f : f = p.gates[i].ins
      OBVIOUS
    <3>2. f \in Seq(Int)
      BY <1>1, <3>1
    <3>. QED BY <3>1, <3>2 DEF Range
  <2>. QED BY <2>1 DEF Read
<1>. QED BY <1>1, <1>2, <1>4, <1>5, <1>6, <1>7 DEF PatchPorts

LEMMA NewNameIs ==
  ASSUME NEW c, NEW p, IsPatch(c, p), c.nets \subseteq Nat, WiresTyped(c), NEW n \in Int
  PROVE  NewName(c, p, n) \in Int /\ (n \in PatchPorts(p) => NewName(c, p, n) = n)
<1>1. IsFiniteSet(GateOuts(p)) /\ IsFiniteSet(Read(p.gates))
  BY PatchNames
<1>2. PICK U : U = GateOuts(p) \union Read(p.gates)
  OBVIOUS
<1>3. IsFiniteSet(U)
  BY <1>1, <1>2, FS_Union
<1>4. PICK S : S = {m \in Internal(p) : FirstAt(p, m) < FirstAt(p, n)}
  OBVIOUS
<1>5. S \in SUBSET U
  BY <1>2, <1>4 DEF Internal
<1>6. IsFiniteSet(S)
  BY <1>3, <1>5, FS_Subset
<1>7. PICK k : k = Cardinality(S)
  OBVIOUS
<1>8. k \in Nat
  BY <1>6, <1>7, FS_CardinalityType
<1>9. EcoWire(c, k) \in Int
  BY <1>8 DEF EcoWire, WiresTyped
<1>10. NewName(c, p, n) = IF n \in PatchPorts(p) THEN n ELSE EcoWire(c, k)
  BY <1>4, <1>7 DEF NewName
<1>. QED BY <1>9, <1>10

LEMMA NormalizedIs ==
  ASSUME NEW c, NEW p, IsPatch(c, p), c.nets \subseteq Nat, WiresTyped(c),
         p = [inputs |-> p.inputs, outputs |-> p.outputs, gates |-> p.gates],
         NEW r, r = [n \in Int |-> NewName(c, p, n)]
  PROVE  Renaming(p, Normalized(c, p), r)
<1>1. r \in [Int -> Int] /\ \A n \in PatchPorts(p) : r[n] = n
  <2>1. PatchPorts(p) \subseteq Int
    BY PatchNames
  <2>. QED BY <2>1, NewNameIs
<1>2. PICK gates : gates = [i \in DOMAIN p.gates |->
                             Gate(p.gates[i].type, NewName(c, p, p.gates[i].out),
                               [j \in DOMAIN p.gates[i].ins |-> NewName(c, p, p.gates[i].ins[j])])]
  OBVIOUS
<1>3. PICK q : q = Normalized(c, p)
  OBVIOUS
<1>4. q.inputs = p.inputs /\ q.outputs = p.outputs /\ q.gates = gates
  BY <1>2, <1>3 DEF Normalized
<1>5. \A i \in DOMAIN p.gates : p.gates[i].out \in Int /\ p.gates[i].ins \in Seq(Int)
  BY DEF IsPatch
<1>6. ASSUME NEW i \in DOMAIN p.gates
      PROVE  /\ gates[i].type = p.gates[i].type /\ gates[i].out = r[p.gates[i].out]
             /\ DOMAIN gates[i].ins = DOMAIN p.gates[i].ins
             /\ gates[i].ins = [j \in DOMAIN p.gates[i].ins |-> r[p.gates[i].ins[j]]]
  <2>1. PICK ins : ins = p.gates[i].ins
    OBVIOUS
  <2>2. ins \in Seq(Int)
    BY <1>5, <2>1
  <2>3. \A j \in DOMAIN ins : ins[j] \in Int
    BY <2>2
  <2>4. gates[i] = Gate(p.gates[i].type, NewName(c, p, p.gates[i].out),
                        [j \in DOMAIN ins |-> NewName(c, p, ins[j])])
    BY <1>2, <2>1
  <2>5. \A j \in DOMAIN ins : NewName(c, p, ins[j]) = r[ins[j]]
    BY <2>3
  <2>6. [j \in DOMAIN ins |-> NewName(c, p, ins[j])] = [j \in DOMAIN ins |-> r[ins[j]]]
    BY <2>5
  <2>7. r[p.gates[i].out] = NewName(c, p, p.gates[i].out)
    BY <1>5
  <2>. QED BY <2>1, <2>4, <2>6, <2>7 DEF Gate
<1>7. DOMAIN gates = DOMAIN p.gates
  BY <1>2
<1>. QED BY <1>1, <1>3, <1>4, <1>6, <1>7 DEF Renaming

LEMMA RenamedNames ==
  ASSUME NEW c, NEW p, IsPatch(c, p), c.nets \subseteq Nat, NEW q, NEW r, Renaming(p, q, r)
  PROVE  /\ GateOuts(q) = {r[n] : n \in GateOuts(p)} /\ Read(q.gates) = {r[n] : n \in Read(p.gates)}
         /\ Outs(q) = Outs(p)
<1>1. /\ q.outputs = p.outputs /\ DOMAIN q.gates = DOMAIN p.gates
      /\ \A i \in DOMAIN p.gates : q.gates[i].out = r[p.gates[i].out]
      /\ \A i \in DOMAIN p.gates : DOMAIN q.gates[i].ins = DOMAIN p.gates[i].ins
      /\ \A i \in DOMAIN p.gates : q.gates[i].ins = [j \in DOMAIN p.gates[i].ins |-> r[p.gates[i].ins[j]]]
  BY DEF Renaming
<1>2. \A i \in DOMAIN p.gates : Range(q.gates[i].ins) = {r[n] : n \in Range(p.gates[i].ins)}
  <2>1. ASSUME NEW i \in DOMAIN p.gates PROVE Range(q.gates[i].ins) = {r[n] : n \in Range(p.gates[i].ins)}
    <3>1. PICK f, g : f = p.gates[i].ins /\ g = q.gates[i].ins
      OBVIOUS
    <3>2. DOMAIN g = DOMAIN f /\ \A j \in DOMAIN f : g[j] = r[f[j]]
      BY <1>1, <3>1
    <3>3. Range(g) = {r[n] : n \in Range(f)}
      BY <3>2 DEF Range
    <3>. QED BY <3>1, <3>3
  <2>. QED BY <2>1
<1>3. GateOuts(q) = {r[n] : n \in GateOuts(p)}
  BY <1>1 DEF GateOuts
<1>4. Read(q.gates) = {r[n] : n \in Read(p.gates)}
  <2>1. \A x : x \in Read(q.gates) <=> \E i \in DOMAIN p.gates : x \in Range(q.gates[i].ins)
    BY <1>1 DEF Read
  <2>2. \A x : x \in Read(p.gates) <=> \E i \in DOMAIN p.gates : x \in Range(p.gates[i].ins)
    BY DEF Read
  <2>3. ASSUME NEW x \in Read(q.gates) PROVE x \in {r[n] : n \in Read(p.gates)}
    BY <1>2, <2>1, <2>2, <2>3
  <2>4. ASSUME NEW n \in Read(p.gates) PROVE r[n] \in Read(q.gates)
    BY <1>2, <2>1, <2>2, <2>4
  <2>. QED BY <2>3, <2>4
<1>. QED BY <1>1, <1>3, <1>4 DEF Outs

LEMMA RenamedTidy ==
  ASSUME NEW c, NEW p, IsPatch(c, p), c.nets \subseteq Nat, NEW q, NEW r, Renaming(p, q, r), Tidy(p)
  PROVE  IsPatch(c, q) /\ Tidy(q) /\ Outs(q) = Outs(p)
<1>1. /\ r \in [Int -> Int] /\ \A n \in PatchPorts(p) : r[n] = n
      /\ q.inputs = p.inputs /\ q.outputs = p.outputs /\ DOMAIN q.gates = DOMAIN p.gates
      /\ \A i \in DOMAIN p.gates :
           /\ q.gates[i].type = p.gates[i].type /\ q.gates[i].out = r[p.gates[i].out]
           /\ DOMAIN q.gates[i].ins = DOMAIN p.gates[i].ins
           /\ q.gates[i].ins = [j \in DOMAIN p.gates[i].ins |-> r[p.gates[i].ins[j]]]
  BY DEF Renaming
<1>2. /\ GateOuts(q) = {r[n] : n \in GateOuts(p)} /\ Read(q.gates) = {r[n] : n \in Read(p.gates)}
      /\ Outs(q) = Outs(p)
  BY RenamedNames
<1>3. \A i \in DOMAIN p.gates : /\ p.gates[i].type \in GateTypes
                                /\ p.gates[i].out \in Int /\ p.gates[i].ins \in Seq(Int)
  BY DEF IsPatch
<1>4. ASSUME NEW i \in DOMAIN p.gates PROVE q.gates[i].ins \in Seq(Int)
  <2>1. PICK f, g : f = p.gates[i].ins /\ g = q.gates[i].ins
    OBVIOUS
  <2>2. f \in Seq(Int) /\ g = [j \in DOMAIN f |-> r[f[j]]]
    BY <1>1, <1>3, <2>1
  <2>3. DOMAIN f = 1 .. Len(f) /\ Len(f) \in Nat /\ \A j \in DOMAIN f : r[f[j]] \in Int
    BY <1>1, <2>2
  <2>4. g \in [1 .. Len(f) -> Int]
    BY <2>2, <2>3
  <2>5. g \in Seq(Int)
    BY ONLY <2>3, <2>4
  <2>. QED BY <2>1, <2>5
<1>5. IsPatch(c, q)
  BY <1>1, <1>3, <1>4 DEF IsPatch
<1>6. /\ Outs(p) \subseteq GateOuts(p) /\ GateOuts(p) \subseteq Outs(p) \union Read(p.gates)
      /\ p.inputs \subseteq Read(p.gates)
      /\ Read(p.gates) \subseteq p.inputs \union GateOuts(p) \union {0, 1}
  BY DEF Tidy
<1>7. \A n \in Outs(p) \union p.inputs \union {0, 1} : r[n] = n
  BY <1>1 DEF PatchPorts
<1>8. /\ \A n \in Outs(p) : n \in GateOuts(q)
      /\ \A n \in GateOuts(q) : n \in Outs(q) \union Read(q.gates)
      /\ \A n \in p.inputs : n \in Read(q.gates)
      /\ \A n \in Read(q.gates) : n \in p.inputs \union GateOuts(q) \union {0, 1}
  BY <1>2, <1>6, <1>7
<1>9. Tidy(q)
  BY <1>1, <1>2, <1>8 DEF Tidy
<1>. QED BY <1>2, <1>5, <1>9

(* A candidate has no leftovers.                                           *)
LEMMA CandidateTidy ==
  ASSUME NEW c, NEW ts, IsTargets(c, ts), WiresTyped(c), c.nets \subseteq Nat
  PROVE  /\ IsPatch(c, CandidatePatch(c, ts)) /\ Tidy(CandidatePatch(c, ts))
         /\ Outs(CandidatePatch(c, ts)) = TargetNets(ts)
<1>1. PICK p : p = AigToPatch(c, ts)
  OBVIOUS
<1>2. IsPatch(c, p) /\ Tidy(p) /\ Outs(p) = TargetNets(ts)
  BY <1>1, EmittedTidy
<1>3. p = [inputs |-> p.inputs, outputs |-> p.outputs, gates |-> p.gates]
  BY <1>1 DEF AigToPatch
<1>4. PICK r, q : r = [n \in Int |-> NewName(c, p, n)] /\ q = Normalized(c, p)
  OBVIOUS
<1>5. Renaming(p, q, r)
  BY ONLY <1>2, <1>3, <1>4, c.nets \subseteq Nat, WiresTyped(c), NormalizedIs
<1>6. IsPatch(c, q) /\ Tidy(q) /\ Outs(q) = Outs(p)
  BY ONLY <1>2, <1>5, c.nets \subseteq Nat, RenamedTidy
<1>. QED BY <1>1, <1>2, <1>4, <1>6 DEF CandidatePatch

-----------------------------------------------------------------------------
(* The targets of the baselines and of the hybrid candidate are over ports *)
(* of the circuit.                                                         *)

(* A circuit as it comes to a trajectory.                                  *)
Subject(c) ==
  /\ Gated(c) /\ HasR2(c) /\ WiresTyped(c)
  /\ c.pos \subseteq c.nets /\ \A o \in c.pos : c.spec[o] \subseteq Patterns(c)
  /\ \A n \in c.nets : Evaluate(c, Unpatched)[n] # Unset

LEMMA SubjectFacts ==
  ASSUME NEW c, Subject(c)
  PROVE  /\ IsCircuit(c) /\ c.nets \subseteq Nat /\ IsFiniteSet(c.nets) /\ 0 \notin c.nets /\ 1 \notin c.nets
         /\ \A o \in c.pos : c.r2[o] \in Lits /\ o \in c.nets
         /\ FailingPos(c) \subseteq c.pos /\ Preserved(c, FailingPos(c)) \subseteq c.nets
         /\ Driven(c) \subseteq c.nets
<1>1. \A o \in c.pos : c.r2[o] \in Lits
  BY LiteralIn DEF Subject, HasR2
<1>. QED BY <1>1 DEF Subject, Gated, IsCircuit, FailingPos, Preserved, Consumers

LEMMA OldLits ==
  ASSUME NEW c, Subject(c), NEW lits, lits = CurLits(c, Unpatched)
  PROVE  /\ DOMAIN lits = NetsOf(c)
         /\ \A n \in DOMAIN lits : lits[n] \in Lits /\ Carries(c, lits[n], Evaluate(c, Unpatched)[n])
<1>1. Gated(c) /\ IsCircuit(c)
  BY DEF Subject, Gated
<1>2. PatchesOK(c, Unpatched) /\ FinitePatches(Unpatched)
  BY DEF PatchesOK, FinitePatches, Unpatched
<1>3. PICK cur : cur = Evaluate(c, Unpatched)
  OBVIOUS
<1>4. /\ DOMAIN lits = {n \in NetsOf(c) : cur[n] # Unset}
      /\ \A n \in DOMAIN lits : lits[n] \in Lits /\ Carries(c, lits[n], cur[n])
  BY ONLY <1>1, <1>2, <1>3, lits = CurLits(c, Unpatched), CurLitsAre
<1>5. \A n \in NetsOf(c) : cur[n] # Unset
  <2>1. \A n \in c.nets : cur[n] # Unset
    BY <1>3 DEF Subject
  <2>2. IsEvaluated(c, Unpatched, cur)
    BY <1>1, <1>2, <1>3, EvaluateEvaluates
  <2>3. cur[0] # Unset /\ cur[1] # Unset
    <3>1. cur[0] = Const(c, 0) /\ cur[1] = Const(c, 1)
      BY <2>2 DEF IsEvaluated, NetsOf
    <3>2. Const(c, 0) \subseteq Patterns(c) /\ Const(c, 1) \subseteq Patterns(c)
      BY DEF Const
    <3>. QED BY <1>1, <3>1, <3>2, IsValue
  <2>. QED BY <2>1, <2>3 DEF NetsOf
<1>. QED BY <1>3, <1>4, <1>5

(* The contexts of the two baselines.                                      *)
BaselineCtx(c, merged) ==
  LET F == FailingPos(c)
  IN  [outs |-> F \union Preserved(c, F), changed |-> F,
       nets |-> CurLits(c, Unpatched), merged |-> merged, lazy |-> NoLazy]

BaselineBCtx(c, merged) ==
  LET F == FailingPos(c)
  IN  [outs |-> F, changed |-> ChangedB(c, F),
       nets |-> CurLits(c, Unpatched), merged |-> merged, lazy |-> NoLazy]

(* The targets of a candidate with the literals they were given.           *)
BuiltFor(c, ctx, spec, ts) ==
  /\ IsTargets(c, ts) /\ Distinct(ts)
  /\ ts # <<>> => TargetNets(ts) = DOMAIN spec
  /\ \A i \in DOMAIN ts : /\ ts[i].lit = Build(c, ctx, spec[ts[i].out])
                          /\ ts[i].lit # NoLit

LEMMA BaselineBuilt ==
  ASSUME NEW c, Subject(c), NEW merged
  PROVE  BuiltFor(c, BaselineCtx(c, merged), BaselineSpec(c, FailingPos(c)), Baseline(c, merged))
<1>1. PICK F, lits, ctx, spec, ts :
        /\ F = FailingPos(c) /\ lits = CurLits(c, Unpatched) /\ ctx = BaselineCtx(c, merged)
        /\ spec = BaselineSpec(c, F) /\ ts = Baseline(c, merged)
  OBVIOUS
<1>2. ts = Expressed(c, ctx, spec)
  BY <1>1 DEF Baseline, BaselineCtx
<1>3. DOMAIN lits = NetsOf(c) /\ \A n \in DOMAIN lits : lits[n] \in Lits
  BY <1>1, OldLits
<1>4. CanExpress(c, ctx, spec)
  <2>1. Choosing(c, ctx)
    BY <1>1, SubjectFacts DEF Choosing, BaselineCtx, NoLazy
  <2>2. /\ DOMAIN spec = F \union Preserved(c, F)
        /\ \A n \in DOMAIN spec : spec[n] = IF n \in F THEN c.r2[n] ELSE lits[n]
    BY <1>1 DEF BaselineSpec
  <2>3. DOMAIN spec \subseteq c.nets /\ \A n \in DOMAIN spec : spec[n] \in Lits
    BY <1>1, <1>3, <2>2, SubjectFacts DEF NetsOf
  <2>. QED BY <2>1, <2>3, SubjectFacts DEF CanExpress
<1>. QED BY <1>1, <1>2, <1>4, ExpressedIs DEF BuiltFor

LEMMA NoTargets ==
  ASSUME NEW c, NEW ctx, NEW spec
  PROVE  BuiltFor(c, ctx, spec, <<>>)
BY DEF BuiltFor, IsTargets, Distinct

LEMMA BaselineBBuilt ==
  ASSUME NEW c, Subject(c), NEW merged
  PROVE  /\ BuiltFor(c, BaselineBCtx(c, merged), [n \in FailingPos(c) |-> c.r2[n]], BaselineB(c, merged))
         /\ BaselineB(c, merged) # <<>> => NoPreservation(c, FailingPos(c))
<1>1. PICK F, ctx, spec, ts :
        /\ F = FailingPos(c) /\ ctx = BaselineBCtx(c, merged)
        /\ spec = [n \in F |-> c.r2[n]] /\ ts = BaselineB(c, merged)
  OBVIOUS
<1>2. ts = <<>> \/ (ts = Expressed(c, ctx, spec) /\ NoPreservation(c, F))
  BY <1>1 DEF BaselineB, BaselineBCtx
<1>3. CanExpress(c, ctx, spec)
  <2>1. Choosing(c, ctx)
    BY <1>1, SubjectFacts DEF Choosing, BaselineBCtx, NoLazy
  <2>2. DOMAIN spec \subseteq c.nets /\ \A n \in DOMAIN spec : spec[n] \in Lits
    BY <1>1, SubjectFacts
  <2>. QED BY <2>1, <2>2, SubjectFacts DEF CanExpress
<1>4. BuiltFor(c, ctx, spec, ts)
  <2>1. ts = <<>> => BuiltFor(c, ctx, spec, ts)
    BY NoTargets
  <2>2. ts = Expressed(c, ctx, spec) => BuiltFor(c, ctx, spec, ts)
    BY <1>3, ExpressedIs DEF BuiltFor
  <2>. QED BY <1>2, <2>1, <2>2
<1>. QED BY <1>1, <1>2, <1>4

(* What the hybrid candidate expresses, and over which nets.               *)
HybridKept(c, drv, cur, fixes, F) ==
  IF NoPresCheck(c, drv, cur, F) THEN {} ELSE Readers(c, fixes, F)
HybridCtx(c, drv, cur, fixes, F, merged) ==
  LET noPres == NoPresCheck(c, drv, cur, F)
      tfoRem == UNION {Tfo(c, drv, o) : o \in F}
      outs == Fixed(fixes) \union F \union HybridKept(c, drv, cur, fixes, F)
  IN  [outs |-> outs, merged |-> merged,
       changed |-> Banned(c, drv, Fixed(fixes)) \union F \union (IF noPres THEN tfoRem ELSE {}),
       nets |-> CurLits(c, Unpatched),
       lazy |-> [n \in {k \in c.nets \ outs : cur[k] # Unset /\ (noPres => k \notin tfoRem)} |-> cur[n]]]
HybridSpec(c, drv, cur, fixes, F) ==
  [n \in F \union HybridKept(c, drv, cur, fixes, F) |->
     IF n \in F THEN c.r2[n] ELSE CurLits(c, drv)[n]]

(* The Rectifier's circuit, and the outputs that fail in it.               *)
Rectified(c, drv, cur, fixes, F) ==
  /\ PatchesOK(c, drv) /\ FinitePatches(drv) /\ cur = Evaluate(c, drv)
  /\ FixesTyped(c, fixes) /\ F \subseteq c.pos
  /\ \A n \in HybridKept(c, drv, cur, fixes, F) : cur[n] # Unset

LEMMA HybridBuilt ==
  ASSUME NEW c, Subject(c), NEW drv, NEW cur, NEW fixes, NEW F, Rectified(c, drv, cur, fixes, F),
         NEW merged, NEW rest,
         rest = Expressed(c, HybridCtx(c, drv, cur, fixes, F, merged), HybridSpec(c, drv, cur, fixes, F))
  PROVE  /\ BuiltFor(c, HybridCtx(c, drv, cur, fixes, F, merged), HybridSpec(c, drv, cur, fixes, F), rest)
         /\ Hybrid(c, drv, cur, fixes, F, merged) =
              IF F # {} /\ rest = <<>> THEN <<>> ELSE FixTargets(fixes) \o rest
<1>1. PICK ctx, spec : ctx = HybridCtx(c, drv, cur, fixes, F, merged) /\ spec = HybridSpec(c, drv, cur, fixes, F)
  OBVIOUS
<1>2. CanExpress(c, ctx, spec)
  <2>1. Choosing(c, ctx)
    <3>1. DOMAIN ctx.lazy \subseteq c.nets
      BY <1>1 DEF HybridCtx
    <3>. QED BY <3>1, SubjectFacts DEF Choosing
  <2>2. PICK lits, kept : lits = CurLits(c, drv) /\ kept = HybridKept(c, drv, cur, fixes, F)
    OBVIOUS
  <2>3. /\ DOMAIN spec = F \union kept
        /\ \A n \in DOMAIN spec : spec[n] = IF n \in F THEN c.r2[n] ELSE lits[n]
    BY <1>1, <2>2 DEF HybridSpec
  <2>4. kept \subseteq c.nets
    BY <2>2, SubjectFacts DEF HybridKept, Readers, Consumers
  <2>5. Gated(c) /\ PatchesOK(c, drv) /\ FinitePatches(drv) /\ cur = Evaluate(c, drv)
    BY DEF Subject, Rectified
  <2>6. DOMAIN lits = {n \in NetsOf(c) : cur[n] # Unset} /\ \A n \in DOMAIN lits : lits[n] \in Lits
    BY ONLY <2>2, <2>5, CurLitsAre
  <2>7. \A n \in kept : n \in DOMAIN lits
    BY <2>2, <2>4, <2>6 DEF Rectified, NetsOf
  <2>8. DOMAIN spec \subseteq c.nets /\ \A n \in DOMAIN spec : spec[n] \in Lits
    BY <2>3, <2>4, <2>6, <2>7, SubjectFacts DEF Rectified
  <2>. QED BY <2>1, <2>8, SubjectFacts DEF CanExpress
<1>3. BuiltFor(c, ctx, spec, rest)
  BY <1>1, <1>2, ExpressedIs DEF BuiltFor
<1>4. Hybrid(c, drv, cur, fixes, F, merged) =
        IF F # {} /\ rest = <<>> THEN <<>> ELSE FixTargets(fixes) \o rest
  BY DEF Hybrid, HybridCtx, HybridSpec, HybridKept
<1>. QED BY <1>1, <1>3, <1>4

LEMMA TargetsJoined ==
  ASSUME NEW c, NEW ts, IsTargets(c, ts), NEW us, IsTargets(c, us)
  PROVE  IsTargets(c, ts \o us)
<1>1. PICK V : V = [out : c.nets, lit : Plain]
  OBVIOUS
<1>2. ts \in Seq(V) /\ us \in Seq(V)
  BY <1>1 DEF IsTargets
<1>3. ts \o us \in Seq(V)
  BY ONLY <1>2
<1>. QED BY <1>1, <1>3 DEF IsTargets

LEMMA HybridTargets ==
  ASSUME NEW c, Subject(c), NEW drv, NEW cur, NEW fixes, NEW F, Rectified(c, drv, cur, fixes, F),
         NEW merged
  PROVE  IsTargets(c, Hybrid(c, drv, cur, fixes, F, merged))
<1>1. PICK rest :
        rest = Expressed(c, HybridCtx(c, drv, cur, fixes, F, merged), HybridSpec(c, drv, cur, fixes, F))
  OBVIOUS
<1>2. IsTargets(c, rest) /\ Hybrid(c, drv, cur, fixes, F, merged) =
              IF F # {} /\ rest = <<>> THEN <<>> ELSE FixTargets(fixes) \o rest
  BY <1>1, HybridBuilt DEF BuiltFor
<1>3. IsTargets(c, FixTargets(fixes))
  BY FixTargetsAre DEF Rectified
<1>4. IsTargets(c, <<>>)
  BY DEF IsTargets
<1>. QED BY <1>2, <1>3, <1>4, TargetsJoined

-----------------------------------------------------------------------------
(* What the emission computes, when no net has the name of a wire: each    *)
(* name is given by a gate or is a port, and has the value of its literal. *)

(* No net has the name of a wire.                                          *)
Fresh(c) ==
  /\ DOMAIN c.ecow = {} /\ WireBase \in Nat
  /\ c.nets \subseteq Nat \ {0, 1} /\ \A n \in c.nets : n < WireBase

LEMMA FreshTyped ==
  ASSUME NEW c, Fresh(c)
  PROVE  WiresTyped(c) /\ c.nets \subseteq Nat /\ \A k : EcoWire(c, k) = WireBase + k
BY DEF Fresh, WiresTyped, EcoWire

(* What is emitted stays, and only gates are added, no buffers.            *)
Extended(gates, more) ==
  /\ Len(gates) <= Len(more) /\ \A i \in DOMAIN gates : more[i] = gates[i]
  /\ \A i \in DOMAIN more \ DOMAIN gates : more[i].type # "buf"

IsGate(g) ==
  \/ g.type = "and" /\ DOMAIN g.ins = {1, 2}
  \/ g.type = "not" /\ DOMAIN g.ins = {1}

(* Every gate has a wire of its own.                                       *)
Numbered(wid, gates) ==
  /\ \A i \in DOMAIN gates : gates[i].type # "buf" =>
       /\ IsGate(gates[i]) /\ gates[i].out >= WireBase /\ gates[i].out < WireBase + wid
  /\ \A i, j \in DOMAIN gates :
       gates[i].type # "buf" /\ gates[j].type # "buf" /\ gates[i].out = gates[j].out => i = j

PortsIn(C) == {l.node.port : l \in {m \in C : m.node.op = "port"}}

Grows(C, s, t) ==
  /\ Extended(s.gates, t.gates)
  /\ Numbered(s.wid, s.gates) => Numbered(t.wid, t.gates)
  /\ s.used \subseteq PortsIn(C) => t.used \subseteq PortsIn(C)

LEMMA AppendIs ==
  ASSUME NEW gates \in Seq(GateRecs), NEW g \in GateRecs, NEW more, more = Append(gates, g)
  PROVE  /\ more \in Seq(GateRecs) /\ Len(gates) \in Nat /\ Len(more) = Len(gates) + 1
         /\ DOMAIN gates = 1 .. Len(gates) /\ DOMAIN more = DOMAIN gates \union {Len(gates) + 1}
         /\ \A i \in DOMAIN gates : more[i] = gates[i]
         /\ more[Len(gates) + 1] = g
  OBVIOUS

LEMMA ExtendedTrans ==
  ASSUME NEW f \in Seq(GateRecs), NEW g \in Seq(GateRecs), NEW h \in Seq(GateRecs),
         Extended(f, g), Extended(g, h)
  PROVE  Extended(f, h)
<1>1. Len(f) \in Nat /\ Len(g) \in Nat /\ Len(h) \in Nat
  OBVIOUS
<1>2. DOMAIN f = 1 .. Len(f) /\ DOMAIN g = 1 .. Len(g) /\ DOMAIN h = 1 .. Len(h)
  OBVIOUS
<1>3. Len(f) <= Len(g) /\ Len(g) <= Len(h)
  BY DEF Extended
<1>4. DOMAIN f \subseteq DOMAIN g /\ DOMAIN g \subseteq DOMAIN h /\ Len(f) <= Len(h)
  BY <1>1, <1>2, <1>3
<1>. QED BY <1>4 DEF Extended

LEMMA GrowsReflexive ==
  ASSUME NEW C, NEW s \in Emissions(C)
  PROVE  Grows(C, s, s)
<1>1. s.gates \in Seq(GateRecs)
  BY EmissionFields
<1>2. Len(s.gates) \in Nat
  BY <1>1
<1>. QED BY <1>2 DEF Grows, Extended

LEMMA GrowsTrans ==
  ASSUME NEW C, NEW s \in Emissions(C), NEW t \in Emissions(C), NEW u \in Emissions(C),
         Grows(C, s, t), Grows(C, t, u)
  PROVE  Grows(C, s, u)
<1>1. s.gates \in Seq(GateRecs) /\ t.gates \in Seq(GateRecs) /\ u.gates \in Seq(GateRecs)
  BY EmissionFields
<1>2. Extended(s.gates, u.gates)
  BY <1>1, ExtendedTrans DEF Grows
<1>. QED BY <1>2 DEF Grows

LEMMA AddGateGrows ==
  ASSUME NEW c, Fresh(c), NEW C, NEW s \in Emissions(C), NEW type \in {"and", "not"},
         NEW ins \in Seq(Int), DOMAIN ins = IF type = "and" THEN {1, 2} ELSE {1}, NEW l \in C,
         NEW t, t = AddGate(c, s, type, ins, l)
  PROVE  /\ t \in Emissions(C) /\ Grows(C, s, t) /\ Len(s.gates) + 1 \in DOMAIN t.gates
         /\ t.gates[Len(s.gates) + 1] = Gate(type, t.names[l], ins)
         /\ t.names[l] # NoNet /\ \A k \in C : k # l => t.names[k] = s.names[k]
<1>1. PICK w, g : w = EcoWire(c, s.wid) /\ g = Gate(type, w, ins)
  OBVIOUS
<1>2. WiresTyped(c) /\ type \in GateTypes /\ w = WireBase + s.wid
  BY <1>1, FreshTyped DEF GateTypes
<1>3. /\ t \in Emissions(C) /\ t.wid = s.wid + 1 /\ t.used = s.used
      /\ t.gates = Append(s.gates, g) /\ w \in Nat
      /\ t.names[l] = w /\ \A k \in C : k # l => t.names[k] = s.names[k]
  <2>1. w = EcoWire(c, s.wid)
    BY <1>1
  <2>2. /\ t \in Emissions(C) /\ t.wid = s.wid + 1 /\ t.used = s.used
        /\ t.gates = Append(s.gates, Gate(type, w, ins)) /\ w \in Nat
        /\ t.names[l] = w /\ \A k \in C : k # l => t.names[k] = s.names[k]
    BY ONLY s \in Emissions(C), ins \in Seq(Int), l \in C,
       t = AddGate(c, s, type, ins, l), <1>2, <2>1, AddGateIs
  <2>. QED BY <1>1, <2>2
<1>4. /\ g \in GateRecs /\ g.type = type /\ g.out = w /\ g.ins = ins
  BY <1>1, <1>2, <1>3 DEF Gate, GateRecs
<1>5. s.gates \in Seq(GateRecs) /\ s.wid \in Nat /\ WireBase \in Nat
  BY EmissionFields DEF Fresh
<1>6. PICK f, h, n : f = s.gates /\ h = t.gates /\ n = Len(s.gates)
  OBVIOUS
<1>7. /\ n \in Nat /\ Len(h) = n + 1 /\ DOMAIN f = 1 .. n /\ DOMAIN h = DOMAIN f \union {n + 1}
      /\ \A i \in DOMAIN f : h[i] = f[i]
      /\ h[n + 1] = g
  BY <1>3, <1>4, <1>5, <1>6, AppendIs
<1>8. Extended(f, h)
  BY <1>4, <1>6, <1>7 DEF Extended
<1>9. ASSUME Numbered(s.wid, f) PROVE Numbered(t.wid, h)
  <2>1. \A i \in DOMAIN f : f[i].out \in Int
    <3>1. \A i \in DOMAIN f : f[i] \in GateRecs
      BY <1>5, <1>6
    <3>. QED BY <3>1 DEF GateRecs
  <2>2. IsGate(g)
    BY <1>4 DEF IsGate
  <2>3. ASSUME NEW i \in DOMAIN h, h[i].type # "buf"
        PROVE  IsGate(h[i]) /\ h[i].out >= WireBase /\ h[i].out < WireBase + t.wid
    <3>1. CASE i = n + 1
      <4>1. w >= WireBase /\ w < WireBase + t.wid
        BY <1>2, <1>3, <1>5
      <4>. QED BY <1>4, <1>7, <2>2, <3>1, <4>1
    <3>2. CASE i \in DOMAIN f
      <4>1. IsGate(f[i]) /\ f[i].out >= WireBase /\ f[i].out < WireBase + s.wid
        BY <1>7, <1>9, <2>3, <3>2 DEF Numbered
      <4>2. f[i].out < WireBase + t.wid
        BY <1>3, <1>5, <2>1, <3>2, <4>1
      <4>. QED BY <1>7, <3>2, <4>1, <4>2
    <3>. QED BY <1>7, <3>1, <3>2
  <2>4. \A i \in DOMAIN f : f[i].type # "buf" => f[i].out # w
    <3>1. \A i \in DOMAIN f : f[i].type # "buf" => f[i].out < w
      BY <1>2, <1>9 DEF Numbered
    <3>. QED BY <1>3, <2>1, <3>1
  <2>5. ASSUME NEW i \in DOMAIN h, NEW j \in DOMAIN h, h[i].type # "buf", h[j].type # "buf",
               h[i].out = h[j].out
        PROVE  i = j
    <3>1. CASE i \in DOMAIN f /\ j \in DOMAIN f
      BY <1>7, <1>9, <2>5, <3>1 DEF Numbered
    <3>2. CASE i = n + 1 \/ j = n + 1
      <4>1. i \in DOMAIN f => j # n + 1
        BY <1>4, <1>7, <2>4, <2>5
      <4>2. j \in DOMAIN f => i # n + 1
        BY <1>4, <1>7, <2>4, <2>5
      <4>. QED BY <1>7, <3>2, <4>1, <4>2
    <3>. QED BY <1>7, <3>1, <3>2
  <2>. QED BY <2>3, <2>5 DEF Numbered
<1>10. Grows(C, s, t)
  BY <1>3, <1>6, <1>8, <1>9 DEF Grows
<1>. QED BY <1>1, <1>3, <1>6, <1>7, <1>10 DEF NoNet

Inverted(C, s, m, t) ==
  /\ t.names[m] # NoNet /\ Grows(C, s, t)
  /\ m.ph = 0 => t = s /\ Positive(m) = m
  /\ m.ph = 1 => /\ Len(s.gates) + 1 \in DOMAIN t.gates
                 /\ t.gates[Len(s.gates) + 1] = Gate("not", t.names[m], <<s.names[Positive(m)]>>)
                 /\ \A k \in C : k # m => t.names[k] = s.names[k]

LEMMA WithInverterGrows ==
  ASSUME NEW c, Fresh(c), NEW C, Emittable(C), NEW s \in Emissions(C), NEW m \in C,
         NEW t, t = WithInverter(c, s, m), s.names[Positive(m)] # NoNet
  PROVE  t \in Emissions(C) /\ Inverted(C, s, m, t)
<1>1. m = Lit(m.node, m.ph) /\ m.ph \in {0, 1} /\ Positive(m) \in C /\ Positive(m).ph = 0
  BY EmittableIs
<1>2. CASE m.ph = 0
  <2>1. t = s /\ Positive(m) = m
    BY <1>1, <1>2 DEF WithInverter, Positive
  <2>2. Grows(C, s, s)
    BY GrowsReflexive
  <2>. QED BY <1>2, <2>1, <2>2 DEF Inverted
<1>3. CASE m.ph = 1
  <2>1. PICK n, ins : n = s.names[Positive(m)] /\ ins = <<n>>
    OBVIOUS
  <2>2. n \in Int /\ ins \in Seq(Int) /\ DOMAIN ins = {1}
    <3>1. n \in Int
      BY <1>1, <2>1, EmissionFields
    <3>. QED BY <2>1, <3>1
  <2>3. PICK type : type = "not"
    OBVIOUS
  <2>4. /\ t = AddGate(c, s, type, ins, m) /\ type \in {"and", "not"}
        /\ DOMAIN ins = IF type = "and" THEN {1, 2} ELSE {1}
    BY <1>3, <2>1, <2>2, <2>3 DEF WithInverter
  <2>5. /\ t \in Emissions(C) /\ Grows(C, s, t) /\ Len(s.gates) + 1 \in DOMAIN t.gates
        /\ t.gates[Len(s.gates) + 1] = Gate(type, t.names[m], ins)
        /\ t.names[m] # NoNet /\ \A k \in C : k # m => t.names[k] = s.names[k]
    BY ONLY Fresh(c), s \in Emissions(C), m \in C, <2>2, <2>4, AddGateGrows
  <2>. QED BY <1>3, <2>1, <2>3, <2>5 DEF Inverted
<1>. QED BY <1>1, <1>2, <1>3

(* A port gets its own name.                                               *)
PortRead(s, m) ==
  Named([s EXCEPT !.used = @ \union {m.node.port}], Positive(m), m.node.port)

PortGiven(C, s, m, v) ==
  /\ v.gates = s.gates /\ v.wid = s.wid /\ Grows(C, s, v)
  /\ v.names[Positive(m)] = m.node.port /\ m.node.port # NoNet
  /\ \A k \in C : k # Positive(m) => v.names[k] = s.names[k]

LEMMA PortReadIs ==
  ASSUME NEW c, NEW C, Emittable(C), NEW m \in C, NEW s \in Emissions(C), m.node.op = "port",
         NEW v, v = PortRead(s, m)
  PROVE  v \in Emissions(C) /\ PortGiven(C, s, m, v) /\ PortNamed(c, s, m) = WithInverter(c, v, m)
<1>1. m.node.port \in Int /\ m.node.port # NoNet /\ Positive(m) \in C
  BY EmittableIs
<1>2. PICK p : p = m.node.port
  OBVIOUS
<1>3. PICK u : u = [s EXCEPT !.used = @ \union {p}]
  OBVIOUS
<1>4. /\ u \in Emissions(C) /\ u.wid = s.wid /\ u.used = s.used \union {p} /\ u.gates = s.gates
      /\ u.names = s.names
  BY <1>1, <1>2, <1>3, UsedIs
<1>5. v = Named(u, Positive(m), p)
  BY <1>2, <1>3 DEF PortRead
<1>6. /\ v \in Emissions(C) /\ v.used = s.used \union {p} /\ v.gates = s.gates /\ v.wid = s.wid
      /\ v.names[Positive(m)] = p /\ \A k \in C : k # Positive(m) => v.names[k] = s.names[k]
  BY <1>1, <1>2, <1>4, <1>5, NamedIs
<1>7. Grows(C, s, v)
  <2>1. Extended(s.gates, s.gates)
    <3>1. s.gates \in Seq(GateRecs)
      BY EmissionFields
    <3>2. Len(s.gates) \in Nat
      BY <3>1
    <3>. QED BY <3>2 DEF Extended
  <2>2. p \in PortsIn(C)
    BY <1>2 DEF PortsIn
  <2>. QED BY <1>6, <2>1, <2>2 DEF Grows
<1>8. PortNamed(c, s, m) = WithInverter(c, v, m)
  BY DEF PortNamed, PortRead
<1>. QED BY <1>1, <1>2, <1>6, <1>7, <1>8 DEF PortGiven

LEMMA PortNamedGrows ==
  ASSUME NEW c, Fresh(c), NEW C, Emittable(C), NEW m \in C, NEW s \in Emissions(C),
         m.node.op = "port", NEW t, t = PortNamed(c, s, m)
  PROVE  t \in Emissions(C) /\ t.names[m] # NoNet /\ Grows(C, s, t)
<1>1. PICK v : v = PortRead(s, m)
  OBVIOUS
<1>2. v \in Emissions(C) /\ PortGiven(C, s, m, v) /\ t = WithInverter(c, v, m)
  BY <1>1, PortReadIs
<1>3. Grows(C, s, v) /\ v.names[Positive(m)] # NoNet
  BY <1>2 DEF PortGiven
<1>4. t \in Emissions(C) /\ Inverted(C, v, m, t)
  BY ONLY Fresh(c), Emittable(C), m \in C, <1>2, <1>3, WithInverterGrows
<1>. QED BY <1>2, <1>3, <1>4, GrowsTrans DEF Inverted

(* An AND gets a gate that reads the names of its operands.                *)
AndMade(c, m, n0, n1, s1) == AddGate(c, s1, "and", <<n0, n1>>, Positive(m))

AndGiven(C, m, n0, n1, s1, u) ==
  /\ Grows(C, s1, u) /\ Len(s1.gates) + 1 \in DOMAIN u.gates
  /\ u.gates[Len(s1.gates) + 1] = Gate("and", u.names[Positive(m)], <<n0, n1>>)
  /\ u.names[Positive(m)] # NoNet
  /\ \A k \in C : k # Positive(m) => u.names[k] = s1.names[k]

LEMMA AndMadeIs ==
  ASSUME NEW c, Fresh(c), NEW C, Emittable(C), NEW m \in C, NEW s1 \in Emissions(C),
         NEW n0 \in Int, NEW n1 \in Int, NEW u, u = AndMade(c, m, n0, n1, s1)
  PROVE  u \in Emissions(C) /\ AndGiven(C, m, n0, n1, s1, u)
<1>1. PICK ins, type, l : ins = <<n0, n1>> /\ type = "and" /\ l = Positive(m)
  OBVIOUS
<1>2. /\ ins \in Seq(Int) /\ type \in {"and", "not"} /\ l \in C
      /\ DOMAIN ins = IF type = "and" THEN {1, 2} ELSE {1}
  BY <1>1, EmittableIs
<1>3. u = AddGate(c, s1, type, ins, l)
  BY <1>1 DEF AndMade
<1>4. /\ u \in Emissions(C) /\ Grows(C, s1, u) /\ Len(s1.gates) + 1 \in DOMAIN u.gates
      /\ u.gates[Len(s1.gates) + 1] = Gate(type, u.names[l], ins)
      /\ u.names[l] # NoNet /\ \A k \in C : k # l => u.names[k] = s1.names[k]
  BY ONLY Fresh(c), s1 \in Emissions(C), <1>2, <1>3, AddGateGrows
<1>. QED BY <1>1, <1>4 DEF AndGiven

LEMMA AndNamedGrows ==
  ASSUME NEW c, Fresh(c), NEW C, Emittable(C), NEW m \in C, NEW a \in C, NEW b \in C,
         NEW s0 \in Emissions(C), NEW s1 \in Emissions(C),
         NEW t, t = AndNamed(c, m, a, b, s0, s1)
  PROVE  t \in Emissions(C) /\ t.names[m] # NoNet /\ Grows(C, s1, t)
<1>1. PICK n0, n1 : n0 = s0.names[a] /\ n1 = s1.names[b]
  OBVIOUS
<1>2. n0 \in Int /\ n1 \in Int
  BY <1>1, EmissionFields
<1>3. PICK u : u = AndMade(c, m, n0, n1, s1)
  OBVIOUS
<1>4. u \in Emissions(C) /\ AndGiven(C, m, n0, n1, s1, u)
  BY ONLY Fresh(c), Emittable(C), m \in C, s1 \in Emissions(C), <1>2, <1>3, AndMadeIs
<1>5. t = WithInverter(c, u, m)
  BY <1>1, <1>3 DEF AndNamed, AndMade
<1>6. Grows(C, s1, u) /\ u.names[Positive(m)] # NoNet
  BY <1>4 DEF AndGiven
<1>7. t \in Emissions(C) /\ Inverted(C, u, m, t)
  BY ONLY Fresh(c), Emittable(C), m \in C, <1>4, <1>5, <1>6, WithInverterGrows
<1>. QED BY <1>4, <1>6, <1>7, GrowsTrans DEF Inverted

NamesGrow(C) ==
  {r \in Emissions(C) \X C \X Emissions(C) : r[3].names[r[2]] # NoNet /\ Grows(C, r[1], r[3])}

LEMMA NamesGrowIs ==
  ASSUME NEW C, NEW s \in Emissions(C), NEW m \in C, NEW t \in Emissions(C)
  PROVE  <<s, m, t>> \in NamesGrow(C) <=> t.names[m] # NoNet /\ Grows(C, s, t)
BY DEF NamesGrow

(* Naming a literal only adds gates, each with a wire of its own, and      *)
(* reads ports of the literals.                                            *)
LEMMA NamesGrowKept ==
  ASSUME NEW c, Fresh(c), NEW C, Emittable(C)
  PROVE  NameRel(c, C, NamesGrow(C))
<1>1. ASSUME NEW m \in C, NEW s \in Emissions(C), s.names[m] # NoNet
      PROVE  <<s, m, s>> \in NamesGrow(C)
  BY <1>1, GrowsReflexive, NamesGrowIs
<1>2. ASSUME NEW m \in C, NEW s \in Emissions(C), m.node.op = "port"
      PROVE  <<s, m, PortNamed(c, s, m)>> \in NamesGrow(C)
  BY <1>2, PortNamedGrows, NamesGrowIs
<1>3. ASSUME NEW m \in C, NEW a \in C, NEW b \in C, NEW s \in Emissions(C),
             NEW s0 \in Emissions(C), NEW s1 \in Emissions(C),
             <<s, a, s0>> \in NamesGrow(C), <<s0, b, s1>> \in NamesGrow(C)
      PROVE  <<s, m, AndNamed(c, m, a, b, s0, s1)>> \in NamesGrow(C)
  <2>1. PICK t : t = AndNamed(c, m, a, b, s0, s1)
    OBVIOUS
  <2>2. t \in Emissions(C) /\ t.names[m] # NoNet /\ Grows(C, s1, t)
    BY <2>1, AndNamedGrows
  <2>3. Grows(C, s, s0) /\ Grows(C, s0, s1)
    BY <1>3, NamesGrowIs
  <2>4. Grows(C, s, s1)
    BY <2>3, GrowsTrans
  <2>5. Grows(C, s, t)
    BY <2>2, <2>4, GrowsTrans
  <2>. QED BY <2>1, <2>2, <2>5, NamesGrowIs
<1>. QED BY <1>1, <1>2, <1>3 DEF NameRel

(* A reading M gives some names values, on the patterns M.pats, and a      *)
(* rank, the constants among them.                                         *)
Reading(M) ==
  /\ M.val \in [DOMAIN M.val -> SUBSET M.pats] /\ M.rank \in [DOMAIN M.val -> Nat]
  /\ {0, 1} \subseteq DOMAIN M.val /\ M.val[0] = {} /\ M.val[1] = M.pats

(* It follows the gates: a wire has a value when its inputs do.            *)
GateObeyed(M, g) ==
  /\ g.out \in DOMAIN M.val <=> \A j \in DOMAIN g.ins : g.ins[j] \in DOMAIN M.val
  /\ g.out \in DOMAIN M.val =>
       /\ \A j \in DOMAIN g.ins : M.rank[g.ins[j]] < M.rank[g.out]
       /\ M.val[g.out] = IF g.type = "and" THEN M.val[g.ins[1]] \intersect M.val[g.ins[2]]
                         ELSE M.pats \ M.val[g.ins[1]]

Obeyed(M, gates) == \A i \in DOMAIN gates : gates[i].type # "buf" => GateObeyed(M, gates[i])

(* Name n stands for literal l.                                            *)
NamedRight(M, l, n) ==
  /\ n \in DOMAIN M.val <=> PortsOf(l) \subseteq DOMAIN M.val
  /\ n \in DOMAIN M.val =>
       /\ M.val[n] = TermValue(M.pats, M.val, l)
       /\ \A p \in PortsOf(l) : M.rank[p] <= M.rank[n]

NamesRight(M, C, st) == \A l \in C : st.names[l] # NoNet => NamedRight(M, l, st.names[l])

LEMMA ReadingSuited ==
  ASSUME NEW M, Reading(M), NEW l, PortsOf(l) \subseteq DOMAIN M.val
  PROVE  Suited(M.pats, M.val, l)
BY DEF Reading, Suited

LEMMA LeafRight ==
  ASSUME NEW M, Reading(M)
  PROVE  NamedRight(M, Zero, 0) /\ NamedRight(M, One, 1)
<1>1. PortsOf(Zero) = {} /\ PortsOf(One) = {}
  BY PortsAre
<1>2. TermValue(M.pats, M.val, Zero) = {} /\ TermValue(M.pats, M.val, One) = M.pats
  BY TermLeaf
<1>. QED BY <1>1, <1>2 DEF Reading, NamedRight

LEMMA PortRight ==
  ASSUME NEW M, Reading(M), NEW p \in Int
  PROVE  NamedRight(M, Port(p), p)
<1>1. PortsOf(Port(p)) = {p}
  BY PortsAre
<1>2. ASSUME p \in DOMAIN M.val PROVE TermValue(M.pats, M.val, Port(p)) = M.val[p] /\ M.rank[p] <= M.rank[p]
  <2>1. M.val[p] \subseteq M.pats /\ M.rank[p] \in Nat
    BY <1>2 DEF Reading
  <2>. QED BY <2>1, TermPort
<1>. QED BY <1>1, <1>2 DEF NamedRight

LEMMA NotRight ==
  ASSUME NEW M, Reading(M), NEW l \in Lits, NEW n, NamedRight(M, l, n),
         NEW w, GateObeyed(M, Gate("not", w, <<n>>))
  PROVE  NamedRight(M, Not(l), w)
<1>1. PortsOf(Not(l)) = PortsOf(l)
  BY PortsAre
<1>2. PICK g : g = Gate("not", w, <<n>>)
  OBVIOUS
<1>3. g.out = w /\ g.type = "not" /\ DOMAIN g.ins = {1} /\ g.ins[1] = n
  BY <1>2 DEF Gate
<1>4. w \in DOMAIN M.val <=> n \in DOMAIN M.val
  BY <1>2, <1>3 DEF GateObeyed
<1>5. ASSUME w \in DOMAIN M.val
      PROVE  /\ M.val[w] = TermValue(M.pats, M.val, Not(l))
             /\ \A p \in PortsOf(l) : M.rank[p] <= M.rank[w]
  <2>1. M.val[w] = M.pats \ M.val[n] /\ M.rank[n] < M.rank[w]
    BY <1>2, <1>3, <1>5 DEF GateObeyed
  <2>2. M.val[n] = TermValue(M.pats, M.val, l) /\ PortsOf(l) \subseteq DOMAIN M.val
    BY <1>4, <1>5 DEF NamedRight
  <2>3. TermValue(M.pats, M.val, Not(l)) = M.pats \ TermValue(M.pats, M.val, l)
    BY <2>2, ReadingSuited, TermNot
  <2>4. ASSUME NEW p \in PortsOf(l) PROVE M.rank[p] <= M.rank[w]
    <3>1. M.rank[p] <= M.rank[n]
      BY <1>4, <1>5 DEF NamedRight
    <3>2. M.rank[p] \in Nat /\ M.rank[n] \in Nat /\ M.rank[w] \in Nat
      BY <1>4, <1>5, <2>2 DEF Reading
    <3>. QED BY <2>1, <3>1, <3>2
  <2>. QED BY <2>1, <2>2, <2>3, <2>4
<1>. QED BY <1>1, <1>4, <1>5 DEF NamedRight

LEMMA AndRight ==
  ASSUME NEW M, Reading(M), NEW x, NEW a, NEW b, AndOver(x, a, b),
         NEW n0, NamedRight(M, a, n0), NEW n1, NamedRight(M, b, n1),
         NEW w, GateObeyed(M, Gate("and", w, <<n0, n1>>))
  PROVE  NamedRight(M, Lit(x, 0), w)
<1>1. PortsOf(Lit(x, 0)) = PortsOf(a) \union PortsOf(b)
  BY PortsAre
<1>2. PICK g : g = Gate("and", w, <<n0, n1>>)
  OBVIOUS
<1>3. g.out = w /\ g.type = "and" /\ DOMAIN g.ins = {1, 2} /\ g.ins[1] = n0 /\ g.ins[2] = n1
  BY <1>2 DEF Gate
<1>4. w \in DOMAIN M.val <=> n0 \in DOMAIN M.val /\ n1 \in DOMAIN M.val
  BY <1>2, <1>3 DEF GateObeyed
<1>5. ASSUME w \in DOMAIN M.val
      PROVE  /\ M.val[w] = TermValue(M.pats, M.val, Lit(x, 0))
             /\ \A p \in PortsOf(a) \union PortsOf(b) : M.rank[p] <= M.rank[w]
  <2>1. M.val[w] = M.val[n0] \intersect M.val[n1] /\ M.rank[n0] < M.rank[w] /\ M.rank[n1] < M.rank[w]
    BY <1>2, <1>3, <1>5 DEF GateObeyed
  <2>2. /\ M.val[n0] = TermValue(M.pats, M.val, a) /\ PortsOf(a) \subseteq DOMAIN M.val
        /\ M.val[n1] = TermValue(M.pats, M.val, b) /\ PortsOf(b) \subseteq DOMAIN M.val
    BY <1>4, <1>5 DEF NamedRight
  <2>3. Suited(M.pats, M.val, a) /\ Suited(M.pats, M.val, b)
    BY <2>2, ReadingSuited
  <2>4. TermValue(M.pats, M.val, Lit(x, 0)) = TermValue(M.pats, M.val, a) \intersect TermValue(M.pats, M.val, b)
    BY <2>3, TermAndNode
  <2>5. M.rank[n0] \in Nat /\ M.rank[n1] \in Nat /\ M.rank[w] \in Nat
    BY <1>4, <1>5 DEF Reading
  <2>6. \A p \in PortsOf(a) : M.rank[p] <= M.rank[n0] /\ M.rank[p] \in Nat
    BY <1>4, <1>5, <2>2 DEF NamedRight, Reading
  <2>7. \A p \in PortsOf(b) : M.rank[p] <= M.rank[n1] /\ M.rank[p] \in Nat
    BY <1>4, <1>5, <2>2 DEF NamedRight, Reading
  <2>. QED BY <2>1, <2>2, <2>4, <2>5, <2>6, <2>7
<1>. QED BY <1>1, <1>4, <1>5 DEF NamedRight

LEMMA ObeyedBefore ==
  ASSUME NEW M, NEW C, NEW s \in Emissions(C), NEW t \in Emissions(C), Grows(C, s, t),
         Obeyed(M, t.gates)
  PROVE  Obeyed(M, s.gates)
<1>1. s.gates \in Seq(GateRecs) /\ t.gates \in Seq(GateRecs)
  BY EmissionFields
<1>2. DOMAIN s.gates = 1 .. Len(s.gates) /\ DOMAIN t.gates = 1 .. Len(t.gates)
      /\ Len(s.gates) \in Nat /\ Len(t.gates) \in Nat
  BY <1>1
<1>3. Len(s.gates) <= Len(t.gates) /\ \A i \in DOMAIN s.gates : t.gates[i] = s.gates[i]
  BY DEF Grows, Extended
<1>4. DOMAIN s.gates \subseteq DOMAIN t.gates
  BY <1>2, <1>3
<1>. QED BY <1>3, <1>4 DEF Obeyed

Interprets(M, C, s, t) == Obeyed(M, t.gates) /\ NamesRight(M, C, s) => NamesRight(M, C, t)

LEMMA InverterInterprets ==
  ASSUME NEW M, Reading(M), NEW C, Emittable(C), NEW s \in Emissions(C), NEW t \in Emissions(C),
         NEW m \in C, Inverted(C, s, m, t), s.names[Positive(m)] # NoNet
  PROVE  Interprets(M, C, s, t)
<1>1. m = Lit(m.node, m.ph) /\ m.ph \in {0, 1} /\ Positive(m) \in C /\ m \in Lits /\ Positive(m) \in Lits
  BY EmittableIs
<1>2. CASE m.ph = 0
  BY <1>2 DEF Inverted, Interprets
<1>3. CASE m.ph = 1
  <2>. SUFFICES ASSUME Obeyed(M, t.gates), NamesRight(M, C, s) PROVE NamesRight(M, C, t)
    BY DEF Interprets
  <2>1. PICK n, w, g : n = s.names[Positive(m)] /\ w = t.names[m] /\ g = Gate("not", w, <<n>>)
    OBVIOUS
  <2>2. /\ Len(s.gates) + 1 \in DOMAIN t.gates /\ t.gates[Len(s.gates) + 1] = g
        /\ \A k \in C : k # m => t.names[k] = s.names[k]
    BY <1>3, <2>1 DEF Inverted
  <2>3. g.type # "buf"
    BY <2>1 DEF Gate
  <2>4. GateObeyed(M, Gate("not", w, <<n>>))
    BY <2>1, <2>2, <2>3 DEF Obeyed
  <2>5. NamedRight(M, Positive(m), n)
    BY <1>1, <2>1 DEF NamesRight
  <2>6. NamedRight(M, Not(Positive(m)), w)
    BY ONLY Reading(M), <1>1, <2>4, <2>5, NotRight
  <2>7. Not(Positive(m)) = m
    BY <1>1, <1>3 DEF Not, Positive, Lit
  <2>8. NamedRight(M, m, t.names[m])
    BY <2>1, <2>6, <2>7
  <2>. QED BY <2>2, <2>8 DEF NamesRight
<1>. QED BY <1>1, <1>2, <1>3

LEMMA PortInterprets ==
  ASSUME NEW M, Reading(M), NEW C, Emittable(C), NEW s \in Emissions(C), NEW v \in Emissions(C),
         NEW m \in C, m.node.op = "port", PortGiven(C, s, m, v)
  PROVE  Interprets(M, C, s, v)
<1>. SUFFICES ASSUME NamesRight(M, C, s) PROVE NamesRight(M, C, v)
  BY DEF Interprets
<1>1. m.node.port \in Int /\ m.node = Port(m.node.port).node /\ Positive(m) \in C
  BY EmittableIs
<1>2. PICK p : p = m.node.port
  OBVIOUS
<1>3. Positive(m) = Port(p)
  BY <1>1, <1>2 DEF Positive, Port, Lit
<1>4. NamedRight(M, Port(p), p)
  BY <1>1, <1>2, PortRight
<1>5. v.names[Positive(m)] = p /\ \A k \in C : k # Positive(m) => v.names[k] = s.names[k]
  BY <1>2 DEF PortGiven
<1>. QED BY <1>3, <1>4, <1>5 DEF NamesRight

LEMMA AndInterprets ==
  ASSUME NEW M, Reading(M), NEW C, Emittable(C), NEW m \in C, NEW a, NEW b, Pair(m, a, b),
         NEW s \in Emissions(C), NEW u \in Emissions(C),
         NEW n0, NamedRight(M, a, n0), NEW n1, NamedRight(M, b, n1),
         AndGiven(C, m, n0, n1, s, u)
  PROVE  Interprets(M, C, s, u)
<1>. SUFFICES ASSUME Obeyed(M, u.gates), NamesRight(M, C, s) PROVE NamesRight(M, C, u)
  BY DEF Interprets
<1>1. PICK w, g : w = u.names[Positive(m)] /\ g = Gate("and", w, <<n0, n1>>)
  OBVIOUS
<1>2. /\ Len(s.gates) + 1 \in DOMAIN u.gates /\ u.gates[Len(s.gates) + 1] = g
      /\ \A k \in C : k # Positive(m) => u.names[k] = s.names[k]
  BY <1>1 DEF AndGiven
<1>3. g.type # "buf"
  BY <1>1 DEF Gate
<1>4. GateObeyed(M, Gate("and", w, <<n0, n1>>))
  BY <1>1, <1>2, <1>3 DEF Obeyed
<1>5. PICK x : x = m.node
  OBVIOUS
<1>6. PICK y, z : AndOver(x, y, z) /\ x.ins = {y, z} /\ y # z
  BY <1>5, EmittableIs DEF Pair
<1>7. {y, z} = {a, b} /\ a # b
  BY <1>5, <1>6 DEF Pair
<1>8. CASE y = a /\ z = b
  <2>1. AndOver(x, a, b)
    BY <1>6, <1>8
  <2>2. NamedRight(M, Lit(x, 0), w)
    BY ONLY Reading(M), <2>1, NamedRight(M, a, n0), NamedRight(M, b, n1), <1>4, AndRight
  <2>. QED BY <1>1, <1>2, <1>5, <2>2 DEF NamesRight, Positive
<1>9. CASE y = b /\ z = a
  <2>1. AndOver(x, b, a)
    BY <1>6, <1>9
  <2>2. GateObeyed(M, Gate("and", w, <<n1, n0>>))
    <3>1. PICK h : h = Gate("and", w, <<n1, n0>>)
      OBVIOUS
    <3>2. /\ g.out = w /\ g.type = "and" /\ DOMAIN g.ins = {1, 2} /\ g.ins[1] = n0 /\ g.ins[2] = n1
          /\ h.out = w /\ h.type = "and" /\ DOMAIN h.ins = {1, 2} /\ h.ins[1] = n1 /\ h.ins[2] = n0
      BY <1>1, <3>1 DEF Gate
    <3>3. GateObeyed(M, g)
      BY <1>1, <1>4
    <3>4. w \in DOMAIN M.val <=> n0 \in DOMAIN M.val /\ n1 \in DOMAIN M.val
      BY <3>2, <3>3 DEF GateObeyed
    <3>5. w \in DOMAIN M.val => /\ M.rank[n0] < M.rank[w] /\ M.rank[n1] < M.rank[w]
                                /\ M.val[w] = M.val[n0] \intersect M.val[n1]
      BY <3>2, <3>3 DEF GateObeyed
    <3>6. GateObeyed(M, h)
      BY <3>2, <3>4, <3>5 DEF GateObeyed
    <3>. QED BY <3>1, <3>6
  <2>3. NamedRight(M, Lit(x, 0), w)
    BY ONLY Reading(M), <2>1, NamedRight(M, a, n0), NamedRight(M, b, n1), <2>2, AndRight
  <2>. QED BY <1>1, <1>2, <1>5, <2>3 DEF NamesRight, Positive
<1>. QED BY <1>7, <1>8, <1>9

NamesMean(M, C) ==
  {r \in Emissions(C) \X C \X Emissions(C) :
     r[3].names[r[2]] # NoNet /\ Grows(C, r[1], r[3]) /\ Interprets(M, C, r[1], r[3])}

LEMMA NamesMeanIs ==
  ASSUME NEW M, NEW C, NEW s \in Emissions(C), NEW m \in C, NEW t \in Emissions(C)
  PROVE  <<s, m, t>> \in NamesMean(M, C) <=>
           t.names[m] # NoNet /\ Grows(C, s, t) /\ Interprets(M, C, s, t)
BY DEF NamesMean

(* Names keep standing for their literals.                                 *)
LEMMA NamesMeanKept ==
  ASSUME NEW M, Reading(M), NEW c, Fresh(c), NEW C, Emittable(C)
  PROVE  NameRel(c, C, NamesMean(M, C))
<1>1. ASSUME NEW m \in C, NEW s \in Emissions(C), s.names[m] # NoNet
      PROVE  <<s, m, s>> \in NamesMean(M, C)
  <2>1. Interprets(M, C, s, s)
    BY DEF Interprets
  <2>. QED BY <1>1, <2>1, GrowsReflexive, NamesMeanIs
<1>2. ASSUME NEW m \in C, NEW s \in Emissions(C), m.node.op = "port"
      PROVE  <<s, m, PortNamed(c, s, m)>> \in NamesMean(M, C)
  <2>1. PICK v, t : v = PortRead(s, m) /\ t = PortNamed(c, s, m)
    OBVIOUS
  <2>2. v \in Emissions(C) /\ PortGiven(C, s, m, v) /\ t = WithInverter(c, v, m)
    BY <1>2, <2>1, PortReadIs
  <2>3. Grows(C, s, v) /\ v.names[Positive(m)] # NoNet
    BY <2>2 DEF PortGiven
  <2>4. t \in Emissions(C) /\ Inverted(C, v, m, t)
    BY ONLY Fresh(c), Emittable(C), m \in C, <2>2, <2>3, WithInverterGrows
  <2>5. t.names[m] # NoNet /\ Grows(C, v, t)
    BY <2>4 DEF Inverted
  <2>6. Interprets(M, C, s, v) /\ Interprets(M, C, v, t)
    BY <1>2, <2>2, <2>3, <2>4, PortInterprets, InverterInterprets
  <2>7. Grows(C, s, t)
    BY <2>2, <2>3, <2>4, <2>5, GrowsTrans
  <2>8. Interprets(M, C, s, t)
    BY <2>2, <2>4, <2>5, <2>6, ObeyedBefore DEF Interprets
  <2>. QED BY <2>1, <2>4, <2>5, <2>7, <2>8, NamesMeanIs
<1>3. ASSUME NEW m \in C, NEW a \in C, NEW b \in C, NEW s \in Emissions(C),
             NEW s0 \in Emissions(C), NEW s1 \in Emissions(C), Pair(m, a, b),
             <<s, a, s0>> \in NamesMean(M, C), <<s0, b, s1>> \in NamesMean(M, C)
      PROVE  <<s, m, AndNamed(c, m, a, b, s0, s1)>> \in NamesMean(M, C)
  <2>1. PICK n0, n1, t : n0 = s0.names[a] /\ n1 = s1.names[b] /\ t = AndNamed(c, m, a, b, s0, s1)
    OBVIOUS
  <2>2. /\ n0 # NoNet /\ Grows(C, s, s0) /\ Interprets(M, C, s, s0)
        /\ n1 # NoNet /\ Grows(C, s0, s1) /\ Interprets(M, C, s0, s1)
    BY <1>3, <2>1, NamesMeanIs
  <2>3. n0 \in Int /\ n1 \in Int
    BY <2>1, EmissionFields
  <2>4. PICK u : u = AndMade(c, m, n0, n1, s1)
    OBVIOUS
  <2>5. u \in Emissions(C) /\ AndGiven(C, m, n0, n1, s1, u)
    BY ONLY Fresh(c), Emittable(C), m \in C, s1 \in Emissions(C), <2>3, <2>4, AndMadeIs
  <2>6. Grows(C, s1, u) /\ u.names[Positive(m)] # NoNet
    BY <2>5 DEF AndGiven
  <2>7. t = WithInverter(c, u, m)
    BY <2>1, <2>4 DEF AndNamed, AndMade
  <2>8. t \in Emissions(C) /\ Inverted(C, u, m, t)
    BY ONLY Fresh(c), Emittable(C), m \in C, <2>5, <2>6, <2>7, WithInverterGrows
  <2>9. t.names[m] # NoNet /\ Grows(C, u, t)
    BY <2>8 DEF Inverted
  <2>10. Grows(C, s, s1) /\ Grows(C, s1, t)
    BY <2>2, <2>5, <2>6, <2>8, <2>9, GrowsTrans
  <2>11. Grows(C, s, t)
    BY <2>8, <2>10, GrowsTrans
  <2>12. Interprets(M, C, u, t)
    BY <2>5, <2>6, <2>8, InverterInterprets
  <2>13. ASSUME Obeyed(M, t.gates), NamesRight(M, C, s) PROVE NamesRight(M, C, t)
    <3>1. Obeyed(M, u.gates) /\ Obeyed(M, s1.gates)
      BY <2>5, <2>8, <2>9, <2>10, <2>13, ObeyedBefore
    <3>2. Obeyed(M, s0.gates)
      BY <2>2, <3>1, ObeyedBefore
    <3>3. NamesRight(M, C, s0) /\ NamesRight(M, C, s1)
      BY <2>2, <2>13, <3>1, <3>2 DEF Interprets
    <3>4. NamedRight(M, a, n0) /\ NamedRight(M, b, n1)
      BY <2>1, <2>2, <3>3 DEF NamesRight
    <3>5. Interprets(M, C, s1, u)
      BY ONLY Reading(M), Emittable(C), m \in C, <1>3, s1 \in Emissions(C), <2>5, <3>4, AndInterprets
    <3>. QED BY <2>12, <2>13, <3>1, <3>3, <3>5 DEF Interprets
  <2>14. Interprets(M, C, s, t)
    BY <2>13 DEF Interprets
  <2>. QED BY <2>1, <2>8, <2>9, <2>11, <2>14, NamesMeanIs
<1>. QED BY <1>1, <1>2, <1>3 DEF NameRel

(* The buffers of the first k targets, at positions at, and no others.     *)
Laid(ts, k, at, gates) ==
  /\ \A i \in 1 .. k : /\ at[i] \in DOMAIN gates /\ gates[at[i]].type = "buf"
                       /\ gates[at[i]].out = ts[i].out /\ DOMAIN gates[at[i]].ins = {1}
  /\ \A i, j \in 1 .. k : i < j => at[i] < at[j]
  /\ \A x \in DOMAIN gates : gates[x].type = "buf" => \E i \in 1 .. k : x = at[i]

(* They read names that stand for their literals.                          *)
Standing(M, ts, k, at, gates) == \A i \in 1 .. k : NamedRight(M, ts[i].lit, gates[at[i]].ins[1])

(* The gates of u are those of st and one buffer.                          *)
Buffered(st, u, out, n) ==
  /\ Len(u.gates) = Len(st.gates) + 1 /\ DOMAIN u.gates = DOMAIN st.gates \union {Len(st.gates) + 1}
  /\ \A i \in DOMAIN st.gates : u.gates[i] = st.gates[i]
  /\ u.gates[Len(st.gates) + 1] = Gate("buf", out, <<n>>)

LEMMA FinishBuffers ==
  ASSUME NEW C, NEW s \in Emissions(C), NEW t, t.out \in Int, t.lit \in C,
         NEW u, u = Finish(t, s), NEW n, n = s.names[t.lit]
  PROVE  /\ u \in Emissions(C) /\ Buffered(s, u, t.out, n)
         /\ u.wid = s.wid /\ u.used = s.used /\ u.names = s.names
         /\ DOMAIN s.gates = 1 .. Len(s.gates) /\ Len(s.gates) \in Nat
<1>1. /\ u \in Emissions(C) /\ u.wid = s.wid /\ u.used = s.used /\ u.names = s.names
      /\ u.gates = Append(s.gates, Gate("buf", t.out, <<n>>))
      /\ Gate("buf", t.out, <<n>>) \in GateRecs /\ n \in Int
  BY ONLY s \in Emissions(C), t.out \in Int, t.lit \in C, u = Finish(t, s), n = s.names[t.lit], FinishIs
<1>2. PICK g, f, h : g = Gate("buf", t.out, <<n>>) /\ f = s.gates /\ h = u.gates
  OBVIOUS
<1>3. g \in GateRecs /\ h = Append(f, g) /\ f \in Seq(GateRecs)
  BY <1>1, <1>2, EmissionFields
<1>4. /\ Len(f) \in Nat /\ Len(h) = Len(f) + 1
      /\ DOMAIN f = 1 .. Len(f) /\ DOMAIN h = DOMAIN f \union {Len(f) + 1}
      /\ \A i \in DOMAIN f : h[i] = f[i]
      /\ h[Len(f) + 1] = g
  BY ONLY <1>3, AppendIs
<1>. QED BY <1>1, <1>2, <1>4 DEF Buffered

LEMMA BufferedNumbered ==
  ASSUME NEW st, NEW u, NEW out, NEW n, Buffered(st, u, out, n), u.wid = st.wid,
         Numbered(st.wid, st.gates)
  PROVE  Numbered(u.wid, u.gates)
<1>1. PICK g : g = Gate("buf", out, <<n>>)
  OBVIOUS
<1>2. g.type = "buf"
  BY <1>1 DEF Gate
<1>3. \A i \in DOMAIN u.gates : u.gates[i].type # "buf" => i \in DOMAIN st.gates /\ u.gates[i] = st.gates[i]
  BY <1>1, <1>2 DEF Buffered
<1>4. \A i \in DOMAIN u.gates : u.gates[i].type # "buf" =>
        IsGate(u.gates[i]) /\ u.gates[i].out >= WireBase /\ u.gates[i].out < WireBase + u.wid
  BY <1>3 DEF Numbered
<1>5. \A i, j \in DOMAIN u.gates :
        u.gates[i].type # "buf" /\ u.gates[j].type # "buf" /\ u.gates[i].out = u.gates[j].out => i = j
  BY <1>3 DEF Numbered
<1>. QED BY <1>4, <1>5 DEF Numbered

LEMMA TargetLaid ==
  ASSUME NEW C, NEW s \in Emissions(C), NEW st \in Emissions(C), Grows(C, s, st),
         NEW u \in Emissions(C), NEW ts, NEW k \in Nat, k > 0,
         NEW n, Buffered(st, u, ts[k].out, n),
         NEW at, at[k] = Len(u.gates), Laid(ts, k - 1, at, s.gates)
  PROVE  Laid(ts, k, at, u.gates) /\ at[k] = Len(st.gates) + 1
<1>1. /\ s.gates \in Seq(GateRecs) /\ st.gates \in Seq(GateRecs)
      /\ Len(s.gates) \in Nat /\ Len(st.gates) \in Nat
      /\ DOMAIN s.gates = 1 .. Len(s.gates) /\ DOMAIN st.gates = 1 .. Len(st.gates)
  <2>1. s.gates \in Seq(GateRecs) /\ st.gates \in Seq(GateRecs)
    BY EmissionFields
  <2>. QED BY <2>1
<1>2. /\ Len(s.gates) <= Len(st.gates) /\ \A i \in DOMAIN s.gates : st.gates[i] = s.gates[i]
      /\ \A i \in DOMAIN st.gates \ DOMAIN s.gates : st.gates[i].type # "buf"
  BY DEF Grows, Extended
<1>3. PICK g, x : g = Gate("buf", ts[k].out, <<n>>) /\ x = Len(st.gates) + 1
  OBVIOUS
<1>4. /\ at[k] = x /\ x \in DOMAIN u.gates /\ DOMAIN u.gates = DOMAIN st.gates \union {x} /\ u.gates[x] = g
      /\ \A i \in DOMAIN st.gates : u.gates[i] = st.gates[i]
  BY <1>3 DEF Buffered
<1>5. g.type = "buf" /\ g.out = ts[k].out /\ DOMAIN g.ins = {1}
  BY <1>3 DEF Gate
<1>6. \A i \in DOMAIN s.gates : i \in DOMAIN st.gates /\ u.gates[i] = s.gates[i] /\ i \in Int /\ i < x
  BY <1>1, <1>2, <1>3, <1>4
<1>7. \A i \in 1 .. k : i = k \/ i \in 1 .. (k - 1)
  OBVIOUS
<1>8. \A i \in 1 .. k : /\ at[i] \in DOMAIN u.gates /\ u.gates[at[i]].type = "buf"
                        /\ u.gates[at[i]].out = ts[i].out /\ DOMAIN u.gates[at[i]].ins = {1}
  BY <1>4, <1>5, <1>6, <1>7 DEF Laid
<1>9. ASSUME NEW i \in 1 .. k, NEW j \in 1 .. k, i < j PROVE at[i] < at[j]
  <2>1. i \in 1 .. (k - 1)
    BY <1>9
  <2>2. at[i] \in DOMAIN s.gates
    BY <2>1 DEF Laid
  <2>3. CASE j = k
    BY <1>4, <1>6, <2>2, <2>3
  <2>4. CASE j \in 1 .. (k - 1)
    BY <1>9, <2>1, <2>4 DEF Laid
  <2>. QED BY <1>7, <2>3, <2>4
<1>10. ASSUME NEW y \in DOMAIN u.gates, u.gates[y].type = "buf" PROVE \E i \in 1 .. k : y = at[i]
  <2>1. CASE y = x
    <3>1. k \in 1 .. k
      OBVIOUS
    <3>. QED BY <1>4, <2>1, <3>1
  <2>2. CASE y \in DOMAIN st.gates
    <3>1. y \in DOMAIN s.gates /\ s.gates[y].type = "buf"
      BY <1>2, <1>4, <1>6, <1>10, <2>2
    <3>2. PICK i \in 1 .. (k - 1) : y = at[i]
      BY <3>1 DEF Laid
    <3>3. i \in 1 .. k
      OBVIOUS
    <3>. QED BY <3>2, <3>3
  <2>. QED BY <1>4, <2>1, <2>2
<1>. QED BY <1>3, <1>4, <1>8, <1>9, <1>10 DEF Laid

LEMMA TargetStanding ==
  ASSUME NEW M, NEW C, NEW s \in Emissions(C), NEW st \in Emissions(C), Grows(C, s, st),
         NEW u, NEW ts, NEW k \in Nat, k > 0,
         NEW n, Buffered(st, u, ts[k].out, n), NamedRight(M, ts[k].lit, n),
         NEW at, Laid(ts, k - 1, at, s.gates), at[k] = Len(st.gates) + 1,
         Standing(M, ts, k - 1, at, s.gates)
  PROVE  Standing(M, ts, k, at, u.gates)
<1>1. /\ Len(s.gates) \in Nat /\ Len(st.gates) \in Nat
      /\ DOMAIN s.gates = 1 .. Len(s.gates) /\ DOMAIN st.gates = 1 .. Len(st.gates)
  <2>1. s.gates \in Seq(GateRecs) /\ st.gates \in Seq(GateRecs)
    BY EmissionFields
  <2>. QED BY <2>1
<1>2. Len(s.gates) <= Len(st.gates) /\ \A i \in DOMAIN s.gates : st.gates[i] = s.gates[i]
  BY DEF Grows, Extended
<1>3. \A i \in DOMAIN s.gates : u.gates[i] = s.gates[i]
  BY <1>1, <1>2 DEF Buffered
<1>4. PICK g : g = Gate("buf", ts[k].out, <<n>>)
  OBVIOUS
<1>5. u.gates[at[k]] = g /\ g.ins[1] = n
  BY <1>4 DEF Buffered, Gate
<1>6. \A i \in 1 .. k : i = k \/ i \in 1 .. (k - 1)
  OBVIOUS
<1>7. \A i \in 1 .. (k - 1) : at[i] \in DOMAIN s.gates
  BY DEF Laid
<1>. QED BY <1>3, <1>5, <1>6, <1>7 DEF Standing

(* Where the buffers of the targets are.                                   *)
Places(ts, done) == [k \in 1 .. Len(ts) |-> Len(done[k].gates)]

LaidOut(C, ts, k, at, s) ==
  Laid(ts, k, at, s.gates) /\ Numbered(s.wid, s.gates) /\ s.used \subseteq PortsIn(C)

(* One target is emitted.                                                  *)
Step1(c, C, ts, k, s, st, u) ==
  /\ s \in Emissions(C) /\ st = NameOf(c, C, ts[k].lit, s) /\ u = Finish(ts[k], st)
  /\ ts[k].lit \in C /\ ts[k].out \in Int

LEMMA EmittingSteps ==
  ASSUME NEW c, NEW ts, IsTargets(c, ts), Fresh(c),
         NEW C, C = ConeLits(ts), NEW done, Emitting(c, C, ts, done)
  PROVE  /\ Len(ts) \in Nat /\ Emittable(C)
         /\ \A k \in 0 .. Len(ts) : done[k] \in Emissions(C)
         /\ done[0] = NoneYet(C)
         /\ \A k \in 1 .. Len(ts) : \E st : Step1(c, C, ts, k, done[k - 1], st, done[k])
<1>1. WiresTyped(c) /\ c.nets \subseteq Nat
  BY FreshTyped
<1>2. /\ Len(ts) \in Nat /\ DOMAIN ts = 1 .. Len(ts) /\ \A k \in 1 .. Len(ts) : ts[k].out \in Int
  BY <1>1, TargetIs
<1>3. Emittable(C) /\ \A k \in 1 .. Len(ts) : ts[k].lit \in C
  BY <1>2, ConeLitsEmittable
<1>4. /\ \A k \in 0 .. Len(ts) : done[k] \in Emissions(C)
      /\ done[0] = NoneYet(C)
      /\ \A k \in 1 .. Len(ts) : done[k] = Finish(ts[k], NameOf(c, C, ts[k].lit, done[k - 1]))
  BY DEF Emitting
<1>5. ASSUME NEW k \in 1 .. Len(ts) PROVE \E st : Step1(c, C, ts, k, done[k - 1], st, done[k])
  <2>1. k - 1 \in 0 .. Len(ts)
    BY <1>2
  <2>2. PICK s, st, u : s = done[k - 1] /\ st = NameOf(c, C, ts[k].lit, s) /\ u = done[k]
    OBVIOUS
  <2>3. Step1(c, C, ts, k, s, st, u)
    BY <1>2, <1>3, <1>4, <2>1, <2>2 DEF Step1
  <2>. QED BY <2>2, <2>3
<1>. QED BY <1>2, <1>3, <1>4, <1>5

LEMMA StepBuffers ==
  ASSUME NEW c, Fresh(c), NEW C, Emittable(C), NEW ts, NEW k, NEW s, NEW st, NEW u,
         Step1(c, C, ts, k, s, st, u)
  PROVE  /\ s \in Emissions(C) /\ st \in Emissions(C) /\ u \in Emissions(C)
         /\ Grows(C, s, st) /\ Buffered(st, u, ts[k].out, st.names[ts[k].lit])
         /\ u.wid = st.wid /\ u.used = st.used /\ u.names = st.names
         /\ st.names[ts[k].lit] # NoNet
         /\ \A M : Reading(M) => Interprets(M, C, s, st)
<1>1. PICK t, l, n : t = ts[k] /\ l = ts[k].lit /\ n = st.names[l]
  OBVIOUS
<1>2. /\ s \in Emissions(C) /\ l \in C /\ t.out \in Int /\ t.lit \in C /\ t.lit = l /\ u = Finish(t, st)
      /\ st = NameOf(c, C, l, s)
  BY <1>1 DEF Step1
<1>3. WiresTyped(c)
  BY FreshTyped
<1>4. NameRel(c, C, NamesGrow(C))
  BY NamesGrowKept
<1>5. st \in Emissions(C) /\ <<s, l, st>> \in NamesGrow(C)
  BY ONLY Emittable(C), <1>2, <1>3, <1>4, NameOfKeeps
<1>6. Grows(C, s, st) /\ n # NoNet
  BY <1>1, <1>2, <1>5, NamesGrowIs
<1>7. n = st.names[t.lit]
  BY <1>1, <1>2
<1>8. u \in Emissions(C) /\ Buffered(st, u, t.out, n) /\ u.wid = st.wid /\ u.used = st.used /\ u.names = st.names
  BY ONLY <1>2, <1>5, <1>7, FinishBuffers
<1>9. ASSUME NEW M, Reading(M) PROVE Interprets(M, C, s, st)
  <2>1. NameRel(c, C, NamesMean(M, C))
    BY <1>9, NamesMeanKept
  <2>2. <<s, l, st>> \in NamesMean(M, C)
    BY ONLY Emittable(C), <1>2, <1>3, <2>1, NameOfKeeps
  <2>. QED BY <1>2, <1>5, <2>2, NamesMeanIs
<1>. QED BY <1>1, <1>2, <1>5, <1>6, <1>8, <1>9

LEMMA EmittingLaid ==
  ASSUME NEW c, NEW ts, IsTargets(c, ts), Fresh(c),
         NEW C, C = ConeLits(ts), NEW done, Emitting(c, C, ts, done), NEW at, at = Places(ts, done)
  PROVE  \A k \in 0 .. Len(ts) : LaidOut(C, ts, k, at, done[k])
<1>. DEFINE n == Len(ts)
            T == {k \in 0 .. n : LaidOut(C, ts, k, at, done[k])}
<1>1. /\ n \in Nat /\ Emittable(C)
      /\ \A k \in 0 .. n : done[k] \in Emissions(C)
      /\ done[0] = NoneYet(C)
      /\ \A k \in 1 .. n : \E st : Step1(c, C, ts, k, done[k - 1], st, done[k])
  BY EmittingSteps
<1>2. 0 \in T
  <2>1. PICK s : s = done[0]
    OBVIOUS
  <2>2. s = NoneYet(C)
    BY <1>1, <2>1
  <2>3. s.gates = <<>> /\ s.used = {}
    BY <1>1, <2>2, EmissionStarts
  <2>4. LaidOut(C, ts, 0, at, s)
    BY <2>3 DEF LaidOut, Laid, Numbered
  <2>5. LaidOut(C, ts, 0, at, done[0])
    BY <2>1, <2>4
  <2>. QED BY <1>1, <2>5
<1>3. ASSUME NEW k \in 1 .. n, k - 1 \in T PROVE k \in T
  <2>1. PICK s, u : s = done[k - 1] /\ u = done[k]
    OBVIOUS
  <2>2. PICK st : Step1(c, C, ts, k, s, st, u)
    BY <1>1, <2>1
  <2>3. /\ s \in Emissions(C) /\ st \in Emissions(C) /\ u \in Emissions(C)
        /\ Grows(C, s, st) /\ Buffered(st, u, ts[k].out, st.names[ts[k].lit])
        /\ u.wid = st.wid /\ u.used = st.used
    BY ONLY Fresh(c), <1>1, <2>2, StepBuffers
  <2>4. PICK m : m = st.names[ts[k].lit]
    OBVIOUS
  <2>5. Buffered(st, u, ts[k].out, m)
    BY <2>3, <2>4
  <2>6. LaidOut(C, ts, k - 1, at, s)
    BY <1>3, <2>1
  <2>7. k \in Nat /\ k > 0 /\ at[k] = Len(u.gates) /\ Laid(ts, k - 1, at, s.gates)
    BY <1>1, <2>1, <2>6 DEF Places, LaidOut
  <2>8. Laid(ts, k, at, u.gates)
    BY ONLY <2>3, <2>5, <2>7, TargetLaid
  <2>9. Numbered(st.wid, st.gates) /\ st.used \subseteq PortsIn(C)
    BY <2>3, <2>6 DEF LaidOut, Grows
  <2>10. Numbered(u.wid, u.gates)
    BY ONLY <2>3, <2>5, <2>9, BufferedNumbered
  <2>11. LaidOut(C, ts, k, at, u)
    BY <2>3, <2>8, <2>9, <2>10 DEF LaidOut
  <2>12. LaidOut(C, ts, k, at, done[k])
    BY <2>1, <2>11
  <2>. QED BY <1>1, <2>12
<1>4. 0 .. n \subseteq T
  <2>. HIDE DEF T, n
  <2>. QED BY <1>1, <1>2, <1>3, UpTo
<1>. QED BY <1>4

Stands(M, C, ts, k, at, s) ==
  Obeyed(M, s.gates) => NamesRight(M, C, s) /\ Standing(M, ts, k, at, s.gates)

LEMMA EmittingStands ==
  ASSUME NEW M, Reading(M), NEW c, NEW ts, IsTargets(c, ts), Fresh(c),
         NEW C, C = ConeLits(ts), NEW done, Emitting(c, C, ts, done), NEW at, at = Places(ts, done)
  PROVE  \A k \in 0 .. Len(ts) : Stands(M, C, ts, k, at, done[k])
<1>. DEFINE n == Len(ts)
            T == {k \in 0 .. n : Stands(M, C, ts, k, at, done[k])}
<1>1. /\ n \in Nat /\ Emittable(C)
      /\ \A k \in 0 .. n : done[k] \in Emissions(C)
      /\ done[0] = NoneYet(C)
      /\ \A k \in 1 .. n : \E st : Step1(c, C, ts, k, done[k - 1], st, done[k])
  BY EmittingSteps
<1>2. 0 \in T
  <2>1. PICK s : s = done[0]
    OBVIOUS
  <2>2. s = NoneYet(C)
    BY <1>1, <2>1
  <2>3. s.gates = <<>> /\ \A l \in C : s.names[l] = IF l = Zero THEN 0 ELSE IF l = One THEN 1 ELSE NoNet
    BY <1>1, <2>2, EmissionStarts
  <2>4. NamesRight(M, C, s)
    BY <2>3, LeafRight DEF NamesRight
  <2>5. Stands(M, C, ts, 0, at, s)
    BY <2>4 DEF Stands, Standing
  <2>6. Stands(M, C, ts, 0, at, done[0])
    BY <2>1, <2>5
  <2>. QED BY <1>1, <2>6
<1>3. ASSUME NEW k \in 1 .. n, k - 1 \in T PROVE k \in T
  <2>1. PICK s, u : s = done[k - 1] /\ u = done[k]
    OBVIOUS
  <2>2. PICK st : Step1(c, C, ts, k, s, st, u)
    BY <1>1, <2>1
  <2>3. /\ s \in Emissions(C) /\ st \in Emissions(C) /\ u \in Emissions(C)
        /\ Grows(C, s, st) /\ Buffered(st, u, ts[k].out, st.names[ts[k].lit])
        /\ u.wid = st.wid /\ u.names = st.names /\ st.names[ts[k].lit] # NoNet
        /\ Interprets(M, C, s, st)
    BY ONLY Fresh(c), Reading(M), <1>1, <2>2, StepBuffers
  <2>4. PICK m : m = st.names[ts[k].lit]
    OBVIOUS
  <2>5. Buffered(st, u, ts[k].out, m)
    BY <2>3, <2>4
  <2>6. Stands(M, C, ts, k - 1, at, s)
    BY <1>3, <2>1
  <2>7. Laid(ts, k - 1, at, s.gates)
    <3>1. k - 1 \in 0 .. n
      BY <1>1
    <3>. QED BY <2>1, <3>1, EmittingLaid DEF LaidOut
  <2>8. k \in Nat /\ k > 0 /\ at[k] = Len(u.gates)
    BY <1>1, <2>1 DEF Places
  <2>9. at[k] = Len(st.gates) + 1
    BY <2>5, <2>8 DEF Buffered
  <2>10. ASSUME Obeyed(M, u.gates) PROVE NamesRight(M, C, u) /\ Standing(M, ts, k, at, u.gates)
    <3>1. Obeyed(M, st.gates)
      BY <2>5, <2>10 DEF Obeyed, Buffered
    <3>2. Obeyed(M, s.gates)
      BY <2>3, <3>1, ObeyedBefore
    <3>3. NamesRight(M, C, s) /\ Standing(M, ts, k - 1, at, s.gates)
      BY <2>6, <3>2 DEF Stands
    <3>4. NamesRight(M, C, st)
      BY <2>3, <3>1, <3>3 DEF Interprets
    <3>5. NamedRight(M, ts[k].lit, m)
      <4>1. ts[k].lit \in C
        BY <2>2 DEF Step1
      <4>. QED BY <2>3, <2>4, <3>4, <4>1 DEF NamesRight
    <3>6. Standing(M, ts, k, at, u.gates)
      BY ONLY <2>3, <2>5, <2>7, <2>8, <2>9, <3>3, <3>5, TargetStanding
    <3>. QED BY <2>3, <3>4, <3>6 DEF NamesRight
  <2>11. Stands(M, C, ts, k, at, u)
    BY <2>10 DEF Stands
  <2>12. Stands(M, C, ts, k, at, done[k])
    BY <2>1, <2>11
  <2>. QED BY <1>1, <2>12
<1>4. 0 .. n \subseteq T
  <2>. HIDE DEF T, n
  <2>. QED BY <1>1, <1>2, <1>3, UpTo
<1>. QED BY <1>4

(* Gates with an output and at most two inputs.                            *)
Narrow(p) == \A i \in DOMAIN p.gates : DOMAIN p.gates[i].ins \subseteq {1, 2}

LEMMA FirstAtIs ==
  ASSUME NEW c, NEW p, IsPatch(c, p), Narrow(p), NEW n \in GateOuts(p) \union Read(p.gates)
  PROVE  /\ FirstAt(p, n) \in Nat
         /\ \E i \in DOMAIN p.gates, j \in 0 .. 2 :
              FirstAt(p, n) = 3 * i + j /\ HasName(p.gates[i], j, n)
<1>1. PICK Q : Q = UNION {{3 * i + j : j \in {x \in 0 .. 2 : HasName(p.gates[i], x, n)}} : i \in DOMAIN p.gates}
  OBVIOUS
<1>2. \A k \in Q : \E i \in DOMAIN p.gates, j \in 0 .. 2 : k = 3 * i + j /\ HasName(p.gates[i], j, n)
  BY <1>1
<1>3. Q \subseteq Nat
  <2>1. ASSUME NEW k \in Q PROVE k \in Nat
    <3>1. PICK i \in DOMAIN p.gates, j \in 0 .. 2 : k = 3 * i + j
      BY <1>2
    <3>2. i \in Nat
      BY DEF IsPatch
    <3>. QED BY <3>1, <3>2
  <2>. QED BY <2>1
<1>4. Q # {}
  <2>1. PICK i \in DOMAIN p.gates, j \in 0 .. 2 : HasName(p.gates[i], j, n)
    <3>1. CASE n \in GateOuts(p)
      <4>1. PICK i \in DOMAIN p.gates : p.gates[i].out = n
        BY <3>1 DEF GateOuts
      <4>2. HasName(p.gates[i], 0, n) /\ 0 \in 0 .. 2
        BY <4>1 DEF HasName
      <4>. QED BY <4>2
    <3>2. CASE n \in Read(p.gates)
      <4>1. PICK i \in DOMAIN p.gates : n \in Range(p.gates[i].ins)
        BY <3>2 DEF Read
      <4>2. PICK j \in DOMAIN p.gates[i].ins : p.gates[i].ins[j] = n
        BY <4>1 DEF Range
      <4>3. j \in {1, 2}
        BY <4>2 DEF Narrow
      <4>4. HasName(p.gates[i], j, n) /\ j \in 0 .. 2
        BY <4>2, <4>3 DEF HasName
      <4>. QED BY <4>4
    <3>. QED BY <3>1, <3>2
  <2>2. 3 * i + j \in Q
    BY <1>1, <2>1
  <2>. QED BY <2>2
<1>5. PICK k \in Q : \A m \in Q : k <= m
  BY <1>3, <1>4, Smallest
<1>6. FirstAt(p, n) = CHOOSE x \in Q : \A m \in Q : x <= m
  BY <1>1 DEF FirstAt
<1>7. FirstAt(p, n) \in Q
  BY <1>5, <1>6
<1>. QED BY <1>2, <1>3, <1>7

LEMMA FirstAtDiffers ==
  ASSUME NEW c, NEW p, IsPatch(c, p), Narrow(p), NEW n \in GateOuts(p) \union Read(p.gates),
         NEW m \in GateOuts(p) \union Read(p.gates), FirstAt(p, n) = FirstAt(p, m)
  PROVE  n = m
<1>1. PICK i \in DOMAIN p.gates, j \in 0 .. 2 : FirstAt(p, n) = 3 * i + j /\ HasName(p.gates[i], j, n)
  BY FirstAtIs
<1>2. PICK k \in DOMAIN p.gates, l \in 0 .. 2 : FirstAt(p, m) = 3 * k + l /\ HasName(p.gates[k], l, m)
  BY FirstAtIs
<1>3. i \in Nat /\ k \in Nat
  BY DEF IsPatch
<1>4. 3 * i + j = 3 * k + l
  BY <1>1, <1>2
<1>5. i = k /\ j = l
  <2>1. i <= k
    BY <1>3, <1>4
  <2>2. k <= i
    BY <1>3, <1>4
  <2>. QED BY <1>3, <1>4, <2>1, <2>2
<1>. QED BY <1>1, <1>2, <1>5 DEF HasName

(* How many internal names come before n.                                  *)
Before(p, n) == {m \in Internal(p) : FirstAt(p, m) < FirstAt(p, n)}

LEMMA BeforeDiffers ==
  ASSUME NEW c, NEW p, IsPatch(c, p), Narrow(p), c.nets \subseteq Nat, NEW n \in Internal(p),
         NEW m \in Internal(p), n # m
  PROVE  /\ Cardinality(Before(p, n)) \in Nat /\ Cardinality(Before(p, m)) \in Nat
         /\ Cardinality(Before(p, n)) # Cardinality(Before(p, m))
<1>1. Internal(p) \subseteq GateOuts(p) \union Read(p.gates) /\ IsFiniteSet(Internal(p))
  <2>1. IsFiniteSet(GateOuts(p)) /\ IsFiniteSet(Read(p.gates))
    BY PatchNames
  <2>2. IsFiniteSet(GateOuts(p) \union Read(p.gates))
    BY <2>1, FS_Union
  <2>. QED BY <2>2, FS_Subset DEF Internal
<1>2. \A x \in Internal(p) : FirstAt(p, x) \in Nat
  BY <1>1, FirstAtIs
<1>3. \A x, y \in Internal(p) : FirstAt(p, x) = FirstAt(p, y) => x = y
  BY <1>1, FirstAtDiffers
<1>4. ASSUME NEW x \in Internal(p), NEW y \in Internal(p), FirstAt(p, x) < FirstAt(p, y)
      PROVE  /\ Cardinality(Before(p, x)) \in Nat /\ Cardinality(Before(p, y)) \in Nat
             /\ Cardinality(Before(p, x)) # Cardinality(Before(p, y))
  <2>1. PICK A, B : A = Before(p, x) /\ B = Before(p, y)
    OBVIOUS
  <2>2. A \subseteq B
    <3>1. \A z \in Internal(p) : FirstAt(p, z) < FirstAt(p, x) => FirstAt(p, z) < FirstAt(p, y)
      BY <1>2, <1>4
    <3>. QED BY <2>1, <3>1 DEF Before
  <2>3. x \in B /\ x \notin A
    BY <1>2, <1>4, <2>1 DEF Before
  <2>4. IsFiniteSet(B)
    BY <1>1, <2>1, FS_Subset DEF Before
  <2>5. Cardinality(A) \in Nat /\ Cardinality(B) \in Nat
    <3>1. IsFiniteSet(A)
      BY <2>2, <2>4, FS_Subset
    <3>. QED BY <2>4, <3>1, FS_CardinalityType
  <2>6. Cardinality(A) # Cardinality(B)
    BY <2>2, <2>3, <2>4, FS_Subset
  <2>. QED BY <2>1, <2>5, <2>6
<1>5. FirstAt(p, n) < FirstAt(p, m) \/ FirstAt(p, m) < FirstAt(p, n)
  BY <1>2, <1>3
<1>. QED BY <1>4, <1>5

LEMMA NewNamesDiffer ==
  ASSUME NEW c, NEW p, IsPatch(c, p), Narrow(p), Fresh(c), NEW n \in Internal(p)
  PROVE  /\ NewName(c, p, n) \in Nat /\ NewName(c, p, n) >= WireBase
         /\ \A m \in Internal(p) : NewName(c, p, m) = NewName(c, p, n) => m = n
<1>1. c.nets \subseteq Nat /\ WireBase \in Nat /\ \A k : EcoWire(c, k) = WireBase + k
  BY FreshTyped DEF Fresh
<1>2. \A m \in Internal(p) : NewName(c, p, m) = WireBase + Cardinality(Before(p, m))
  BY <1>1 DEF NewName, Internal, Before
<1>3. Cardinality(Before(p, n)) \in Nat
  <2>1. IsFiniteSet(GateOuts(p)) /\ IsFiniteSet(Read(p.gates))
    BY <1>1, PatchNames
  <2>2. IsFiniteSet(GateOuts(p) \union Read(p.gates))
    BY <2>1, FS_Union
  <2>3. IsFiniteSet(Before(p, n))
    BY <2>2, FS_Subset DEF Internal, Before
  <2>. QED BY <2>3, FS_CardinalityType
<1>4. \A m \in Internal(p) : m # n => /\ Cardinality(Before(p, m)) \in Nat
                                      /\ Cardinality(Before(p, m)) # Cardinality(Before(p, n))
  BY <1>1, BeforeDiffers
<1>. QED BY <1>1, <1>2, <1>3, <1>4

(* The gates that are no buffers drive wires of their own.                 *)
WiresOwn(gates) ==
  /\ \A i \in DOMAIN gates : gates[i].type # "buf" => IsGate(gates[i]) /\ gates[i].out >= WireBase
  /\ \A i, j \in DOMAIN gates :
       gates[i].type # "buf" /\ gates[j].type # "buf" /\ gates[i].out = gates[j].out => i = j

Shaped(ts, at, gates) == Laid(ts, Len(ts), at, gates) /\ WiresOwn(gates)

(* Whoever reads the gates finds the literals of the targets.              *)
Followed(M, ts, at, gates) ==
  Reading(M) /\ Obeyed(M, gates) => Standing(M, ts, Len(ts), at, gates)

LEMMA EmittedShaped ==
  ASSUME NEW c, NEW ts, IsTargets(c, ts), Fresh(c), NEW p, p = AigToPatch(c, ts)
  PROVE  /\ p.inputs \subseteq PortsIn(ConeLits(ts))
         /\ \E at : Shaped(ts, at, p.gates) /\ \A M : Followed(M, ts, at, p.gates)
<1>1. PICK C : C = ConeLits(ts)
  OBVIOUS
<1>2. WiresTyped(c) /\ c.nets \subseteq Nat
  BY FreshTyped
<1>3. PICK done : /\ Emitting(c, C, ts, done)
                  /\ AigToPatch(c, ts) =
                       [inputs |-> done[Len(ts)].used, gates |-> done[Len(ts)].gates,
                        outputs |-> [k \in DOMAIN ts |-> ts[k].out]]
  BY ONLY IsTargets(c, ts), <1>1, <1>2, AigToPatchIs
<1>4. PICK s, at : s = done[Len(ts)] /\ at = Places(ts, done)
  OBVIOUS
<1>5. p.inputs = s.used /\ p.gates = s.gates
  BY <1>3, <1>4
<1>6. Len(ts) \in 0 .. Len(ts)
  <2>1. Len(ts) \in Nat
    BY <1>2, TargetIs
  <2>. QED BY <2>1
<1>7. LaidOut(C, ts, Len(ts), at, s)
  <2>1. \A k \in 0 .. Len(ts) : LaidOut(C, ts, k, at, done[k])
    BY ONLY IsTargets(c, ts), Fresh(c), <1>1, <1>3, <1>4, EmittingLaid
  <2>. QED BY <1>4, <1>6, <2>1
<1>8. Shaped(ts, at, p.gates) /\ p.inputs \subseteq PortsIn(C)
  BY <1>5, <1>7 DEF Shaped, LaidOut, WiresOwn, Numbered
<1>9. ASSUME NEW M PROVE Followed(M, ts, at, p.gates)
  <2>1. SUFFICES ASSUME Reading(M), Obeyed(M, p.gates) PROVE Standing(M, ts, Len(ts), at, p.gates)
    BY DEF Followed
  <2>2. \A k \in 0 .. Len(ts) : Stands(M, C, ts, k, at, done[k])
    BY ONLY IsTargets(c, ts), Fresh(c), <1>1, <1>3, <1>4, <2>1, EmittingStands
  <2>3. Stands(M, C, ts, Len(ts), at, s)
    BY <1>4, <1>6, <2>2
  <2>. QED BY <1>5, <2>1, <2>3 DEF Stands
<1>. QED BY <1>1, <1>8, <1>9

(* Literals over names below those of the wires.                           *)
LowPorts(ts) == \A i \in DOMAIN ts : \A p \in PortsOf(ts[i].lit) : p < WireBase

LEMMA PortsInLow ==
  ASSUME NEW c, NEW ts, IsTargets(c, ts), LowPorts(ts)
  PROVE  \A p \in PortsIn(ConeLits(ts)) : p \in Int /\ p < WireBase
<1>1. SUFFICES ASSUME NEW l \in ConeLits(ts), l.node.op = "port"
               PROVE  l.node.port \in Int /\ l.node.port < WireBase
  BY DEF PortsIn
<1>2. PICK i \in DOMAIN ts : \E x \in Cone(ts[i].lit), ph \in {0, 1} : l = Lit(x, ph)
  BY DEF ConeLits
<1>3. PICK x \in Cone(ts[i].lit), ph \in {0, 1} : l = Lit(x, ph)
  BY <1>2
<1>4. l.node = x
  BY <1>3 DEF Lit
<1>5. x.port \in PortsOf(ts[i].lit)
  BY <1>1, <1>4 DEF PortsOf
<1>6. ts[i].lit \in Lits
  BY TargetsFields, PlainIs
<1>7. x.port \in Int
  BY <1>5, <1>6, PortsAre
<1>. QED BY <1>4, <1>5, <1>7 DEF LowPorts

(* Internal names are those of the wires.                                  *)
LEMMA InternalWires ==
  ASSUME NEW c, NEW ts, IsTargets(c, ts), Fresh(c), LowPorts(ts), ts # <<>>,
         NEW p, p = AigToPatch(c, ts), NEW at, Shaped(ts, at, p.gates)
  PROVE  /\ IsPatch(c, p) /\ Narrow(p) /\ WireBase > 1
         /\ GateOuts(p) \union Read(p.gates) \subseteq PatchPorts(p) \union Internal(p)
         /\ \A n \in Internal(p) : n >= WireBase
         /\ \A i \in DOMAIN p.gates : p.gates[i].type # "buf" => p.gates[i].out \in Internal(p)
<1>1. WiresTyped(c) /\ c.nets \subseteq Nat
  BY FreshTyped
<1>2. IsPatch(c, p) /\ Tidy(p) /\ Outs(p) = TargetNets(ts)
  BY <1>1, EmittedTidy
<1>3. \A n \in p.inputs : n \in Int /\ n < WireBase
  BY EmittedShaped, PortsInLow
<1>4. \A i \in DOMAIN ts : ts[i].out \in c.nets
  BY TargetsFields
<1>5. WireBase \in Nat /\ WireBase > 1
  <2>1. PICK i : i \in DOMAIN ts
    <3>1. Len(ts) \in Nat /\ DOMAIN ts = 1 .. Len(ts)
      BY <1>1, TargetIs
    <3>2. Len(ts) # 0
      BY DEF IsTargets
    <3>. QED BY <3>1, <3>2
  <2>2. PICK n : n \in c.nets
    BY <1>4, <2>1
  <2>3. n \in Nat /\ n # 0 /\ n # 1 /\ n < WireBase /\ WireBase \in Nat
    BY <2>2 DEF Fresh
  <2>. QED BY <2>3
<1>6. \A n \in PatchPorts(p) : n < WireBase
  <2>1. \A n \in Outs(p) : n < WireBase
    BY <1>2, <1>4 DEF TargetNets, Fresh
  <2>. QED BY <1>3, <1>5, <2>1 DEF PatchPorts
<1>7. \A i \in DOMAIN p.gates : p.gates[i].type = "buf" => p.gates[i].out \in Outs(p)
  <2>1. ASSUME NEW i \in DOMAIN p.gates, p.gates[i].type = "buf" PROVE p.gates[i].out \in Outs(p)
    <3>1. PICK k \in 1 .. Len(ts) : i = at[k] /\ p.gates[at[k]].out = ts[k].out
      BY <2>1 DEF Shaped, Laid
    <3>2. DOMAIN ts = 1 .. Len(ts)
      BY <1>1, TargetIs
    <3>. QED BY <1>2, <3>1, <3>2 DEF TargetNets
  <2>. QED BY <2>1
<1>8. \A i \in DOMAIN p.gates : p.gates[i].type # "buf" => p.gates[i].out \in Int /\ p.gates[i].out >= WireBase
  BY <1>2 DEF Shaped, WiresOwn, IsPatch
<1>9. \A i \in DOMAIN p.gates : p.gates[i].type # "buf" => p.gates[i].out \in Internal(p)
  <2>1. ASSUME NEW i \in DOMAIN p.gates, p.gates[i].type # "buf" PROVE p.gates[i].out \in Internal(p)
    <3>1. p.gates[i].out \in GateOuts(p)
      BY DEF GateOuts
    <3>2. p.gates[i].out \notin PatchPorts(p)
      BY <1>5, <1>6, <1>8, <2>1
    <3>. QED BY <3>1, <3>2 DEF Internal
  <2>. QED BY <2>1
<1>10. \A n \in Internal(p) : n >= WireBase
  <2>1. ASSUME NEW n \in Internal(p) PROVE n >= WireBase
    <3>1. n \notin PatchPorts(p) /\ n \in GateOuts(p) \union Read(p.gates)
      BY DEF Internal
    <3>2. n \in GateOuts(p)
      BY <1>2, <3>1 DEF Tidy, PatchPorts
    <3>3. PICK i \in DOMAIN p.gates : n = p.gates[i].out
      BY <3>2 DEF GateOuts
    <3>4. n \notin Outs(p)
      BY <3>1 DEF PatchPorts
    <3>. QED BY <1>7, <1>8, <3>3, <3>4
  <2>. QED BY <2>1
<1>11. Narrow(p)
  <2>1. ASSUME NEW i \in DOMAIN p.gates PROVE DOMAIN p.gates[i].ins \subseteq {1, 2}
    <3>1. CASE p.gates[i].type # "buf"
      BY <3>1 DEF Shaped, WiresOwn, IsGate
    <3>2. CASE p.gates[i].type = "buf"
      BY <3>2 DEF Shaped, Laid
    <3>. QED BY <3>1, <3>2
  <2>. QED BY <2>1 DEF Narrow
<1>. QED BY <1>2, <1>5, <1>9, <1>10, <1>11 DEF Internal

(* What M reads in the renamed patch is read in the patch under the names  *)
(* of before.                                                              *)
Renamed(p, r, n) == IF n \in Internal(p) THEN r[n] ELSE n

PulledNames(M, p, r) == {n \in Int : Renamed(p, r, n) \in DOMAIN M.val}

Pulled(M, p, r) ==
  [pats |-> M.pats,
   val |-> [n \in PulledNames(M, p, r) |-> M.val[Renamed(p, r, n)]],
   rank |-> [n \in PulledNames(M, p, r) |-> M.rank[Renamed(p, r, n)]]]

PulledFrom(M, p, r, L) ==
  /\ L.pats = M.pats
  /\ \A n \in Int : n \in DOMAIN L.val <=> Renamed(p, r, n) \in DOMAIN M.val
  /\ \A n \in DOMAIN L.val : /\ n \in Int
                             /\ L.val[n] = M.val[Renamed(p, r, n)]
                             /\ L.rank[n] = M.rank[Renamed(p, r, n)]
  /\ DOMAIN L.rank = DOMAIN L.val
  /\ L.val = [n \in DOMAIN L.val |-> L.val[n]] /\ L.rank = [n \in DOMAIN L.rank |-> L.rank[n]]

LEMMA PulledIs ==
  ASSUME NEW M, NEW p, NEW r, NEW L, L = Pulled(M, p, r)
  PROVE  PulledFrom(M, p, r, L)
BY DEF Pulled, PulledNames, PulledFrom

LEMMA PulledReading ==
  ASSUME NEW M, Reading(M), NEW p, NEW r, NEW L, L = Pulled(M, p, r)
  PROVE  Reading(L)
<1>1. 0 \notin Internal(p) /\ 1 \notin Internal(p)
  BY DEF Internal, PatchPorts
<1>2. Renamed(p, r, 0) = 0 /\ Renamed(p, r, 1) = 1
  BY <1>1 DEF Renamed
<1>3. /\ L.pats = M.pats
      /\ \A n \in Int : n \in DOMAIN L.val <=> Renamed(p, r, n) \in DOMAIN M.val
      /\ \A n \in DOMAIN L.val : /\ n \in Int
                                 /\ L.val[n] = M.val[Renamed(p, r, n)]
                                 /\ L.rank[n] = M.rank[Renamed(p, r, n)]
      /\ DOMAIN L.rank = DOMAIN L.val
      /\ L.val = [n \in DOMAIN L.val |-> L.val[n]] /\ L.rank = [n \in DOMAIN L.rank |-> L.rank[n]]
  <2>1. PulledFrom(M, p, r, L)
    BY ONLY L = Pulled(M, p, r), PulledIs
  <2>. QED BY <2>1 DEF PulledFrom
<1>4. /\ M.val \in [DOMAIN M.val -> SUBSET M.pats] /\ M.rank \in [DOMAIN M.val -> Nat]
      /\ {0, 1} \subseteq DOMAIN M.val /\ M.val[0] = {} /\ M.val[1] = M.pats
  BY DEF Reading
<1>5. 0 \in Int /\ 1 \in Int
  OBVIOUS
<1>6. {0, 1} \subseteq DOMAIN L.val
  BY <1>2, <1>3, <1>4, <1>5
<1>7. \A n \in DOMAIN L.val : L.val[n] \in SUBSET M.pats /\ L.rank[n] \in Nat
  BY <1>3, <1>4
<1>8. L.val[0] = {} /\ L.val[1] = L.pats
  BY <1>2, <1>3, <1>4, <1>6
<1>9. L.val \in [DOMAIN L.val -> SUBSET L.pats]
  BY <1>3, <1>7
<1>10. L.rank \in [DOMAIN L.val -> Nat]
  BY <1>3, <1>7
<1>. QED BY <1>6, <1>8, <1>9, <1>10 DEF Reading

(* Names that the patch has are renamed by r.                              *)
LEMMA RenamedIs ==
  ASSUME NEW c, NEW p, IsPatch(c, p), c.nets \subseteq Nat, NEW q, NEW r, Renaming(p, q, r),
         NEW n \in PatchPorts(p) \union Internal(p)
  PROVE  n \in Int /\ Renamed(p, r, n) = r[n]
<1>1. n \in Int
  BY PatchNames DEF Internal
<1>2. n \notin Internal(p) => n \in PatchPorts(p) /\ r[n] = n
  BY DEF Renaming
<1>. QED BY <1>1, <1>2 DEF Renamed

LEMMA PulledObeyed ==
  ASSUME NEW c, NEW p, IsPatch(c, p), c.nets \subseteq Nat, NEW q, NEW r, Renaming(p, q, r),
         GateOuts(p) \union Read(p.gates) \subseteq PatchPorts(p) \union Internal(p),
         NEW i \in DOMAIN p.gates, IsGate(p.gates[i]), NEW M, GateObeyed(M, q.gates[i]),
         NEW L, L = Pulled(M, p, r)
  PROVE  GateObeyed(L, p.gates[i])
<1>1. PICK g, h : g = p.gates[i] /\ h = q.gates[i]
  OBVIOUS
<1>2. /\ h.type = g.type /\ h.out = r[g.out] /\ DOMAIN h.ins = DOMAIN g.ins
      /\ h.ins = [j \in DOMAIN g.ins |-> r[g.ins[j]]]
  BY <1>1 DEF Renaming
<1>3. \A j \in DOMAIN g.ins : h.ins[j] = r[g.ins[j]]
  BY <1>2
<1>4. g.out \in GateOuts(p) /\ \A j \in DOMAIN g.ins : g.ins[j] \in Read(p.gates)
  BY <1>1 DEF GateOuts, Read, Range
<1>5. g.out \in Int /\ Renamed(p, r, g.out) = r[g.out]
  BY <1>4, RenamedIs
<1>6. \A j \in DOMAIN g.ins : g.ins[j] \in Int /\ Renamed(p, r, g.ins[j]) = r[g.ins[j]]
  BY <1>4, RenamedIs
<1>7. /\ L.pats = M.pats
      /\ \A n \in Int : n \in DOMAIN L.val <=> Renamed(p, r, n) \in DOMAIN M.val
      /\ \A n \in DOMAIN L.val : /\ n \in Int
                                 /\ L.val[n] = M.val[Renamed(p, r, n)]
                                 /\ L.rank[n] = M.rank[Renamed(p, r, n)]
  <2>1. PulledFrom(M, p, r, L)
    BY ONLY L = Pulled(M, p, r), PulledIs
  <2>. QED BY <2>1 DEF PulledFrom
<1>8. g.out \in DOMAIN L.val <=> h.out \in DOMAIN M.val
  BY <1>2, <1>5, <1>7
<1>9. \A j \in DOMAIN g.ins : g.ins[j] \in DOMAIN L.val <=> h.ins[j] \in DOMAIN M.val
  BY <1>3, <1>6, <1>7
<1>10. /\ h.out \in DOMAIN M.val <=> \A j \in DOMAIN h.ins : h.ins[j] \in DOMAIN M.val
       /\ h.out \in DOMAIN M.val =>
            /\ \A j \in DOMAIN h.ins : M.rank[h.ins[j]] < M.rank[h.out]
            /\ M.val[h.out] = IF h.type = "and" THEN M.val[h.ins[1]] \intersect M.val[h.ins[2]]
                              ELSE M.pats \ M.val[h.ins[1]]
  BY <1>1 DEF GateObeyed
<1>11. g.out \in DOMAIN L.val <=> \A j \in DOMAIN g.ins : g.ins[j] \in DOMAIN L.val
  BY <1>2, <1>8, <1>9, <1>10
<1>12. ASSUME g.out \in DOMAIN L.val
       PROVE  /\ \A j \in DOMAIN g.ins : L.rank[g.ins[j]] < L.rank[g.out]
              /\ L.val[g.out] = IF g.type = "and" THEN L.val[g.ins[1]] \intersect L.val[g.ins[2]]
                                ELSE L.pats \ L.val[g.ins[1]]
  <2>1. h.out \in DOMAIN M.val /\ \A j \in DOMAIN g.ins : g.ins[j] \in DOMAIN L.val
    BY <1>8, <1>11, <1>12
  <2>2. \A j \in DOMAIN g.ins : /\ L.rank[g.ins[j]] = M.rank[h.ins[j]]
                                /\ L.val[g.ins[j]] = M.val[h.ins[j]]
    BY <1>3, <1>6, <1>7, <2>1
  <2>3. L.rank[g.out] = M.rank[h.out] /\ L.val[g.out] = M.val[h.out]
    BY <1>2, <1>5, <1>7, <1>12
  <2>4. \A j \in DOMAIN g.ins : L.rank[g.ins[j]] < L.rank[g.out]
    BY <1>2, <1>10, <2>1, <2>2, <2>3
  <2>5. M.val[h.out] = IF h.type = "and" THEN M.val[h.ins[1]] \intersect M.val[h.ins[2]]
                       ELSE M.pats \ M.val[h.ins[1]]
    BY <1>10, <2>1
  <2>6. \/ g.type = "and" /\ DOMAIN g.ins = {1, 2}
        \/ g.type = "not" /\ DOMAIN g.ins = {1}
    BY <1>1 DEF IsGate
  <2>7. CASE g.type = "and" /\ DOMAIN g.ins = {1, 2}
    <3>1. L.val[g.ins[1]] = M.val[h.ins[1]] /\ L.val[g.ins[2]] = M.val[h.ins[2]]
      BY <2>2, <2>7
    <3>. QED BY <1>2, <2>3, <2>4, <2>5, <2>7, <3>1
  <2>8. CASE g.type = "not" /\ DOMAIN g.ins = {1}
    <3>1. L.val[g.ins[1]] = M.val[h.ins[1]] /\ g.type # "and"
      BY <2>2, <2>8
    <3>. QED BY <1>2, <1>7, <2>3, <2>4, <2>5, <3>1
  <2>. QED BY <2>6, <2>7, <2>8
<1>. QED BY <1>1, <1>11, <1>12 DEF GateObeyed

LEMMA PulledNamed ==
  ASSUME NEW M, Reading(M), NEW p, NEW r, NEW L, L = Pulled(M, p, r),
         NEW l \in Lits, PortsOf(l) \intersect Internal(p) = {},
         NEW n \in Int, NamedRight(L, l, n)
  PROVE  NamedRight(M, l, Renamed(p, r, n))
<1>1. /\ L.pats = M.pats
      /\ \A k \in Int : k \in DOMAIN L.val <=> Renamed(p, r, k) \in DOMAIN M.val
      /\ \A k \in DOMAIN L.val : /\ k \in Int
                                 /\ L.val[k] = M.val[Renamed(p, r, k)]
                                 /\ L.rank[k] = M.rank[Renamed(p, r, k)]
  <2>1. PulledFrom(M, p, r, L)
    BY ONLY L = Pulled(M, p, r), PulledIs
  <2>. QED BY <2>1 DEF PulledFrom
<1>2. \A k \in PortsOf(l) : k \in Int /\ Renamed(p, r, k) = k
  BY PortsAre DEF Renamed
<1>3. PortsOf(l) \subseteq DOMAIN L.val <=> PortsOf(l) \subseteq DOMAIN M.val
  BY <1>1, <1>2
<1>4. PICK m : m = Renamed(p, r, n)
  OBVIOUS
<1>5. /\ n \in DOMAIN L.val <=> PortsOf(l) \subseteq DOMAIN L.val
      /\ n \in DOMAIN L.val =>
           /\ L.val[n] = TermValue(L.pats, L.val, l)
           /\ \A k \in PortsOf(l) : L.rank[k] <= L.rank[n]
  BY DEF NamedRight
<1>6. n \in DOMAIN L.val <=> m \in DOMAIN M.val
  BY <1>1, <1>4
<1>7. ASSUME m \in DOMAIN M.val
      PROVE  M.val[m] = TermValue(M.pats, M.val, l) /\ \A k \in PortsOf(l) : M.rank[k] <= M.rank[m]
  <2>1. n \in DOMAIN L.val /\ PortsOf(l) \subseteq DOMAIN L.val /\ PortsOf(l) \subseteq DOMAIN M.val
    BY <1>3, <1>5, <1>6, <1>7
  <2>2. \A k \in PortsOf(l) : M.val[k] = L.val[k] /\ M.rank[k] = L.rank[k]
    BY <1>1, <1>2, <2>1
  <2>3. Suited(M.pats, M.val, l)
    BY <2>1, ReadingSuited
  <2>4. TermValue(M.pats, M.val, l) = TermValue(M.pats, L.val, l)
    BY <2>2, <2>3, TermSame
  <2>. QED BY <1>1, <1>4, <1>5, <2>1, <2>2, <2>4
<1>. QED BY <1>3, <1>4, <1>5, <1>6, <1>7 DEF NamedRight

(* The renamed patch has its buffers and its wires where they were.        *)
LEMMA RenamedShaped ==
  ASSUME NEW c, NEW ts, Fresh(c), NEW p, IsPatch(c, p), Narrow(p), Outs(p) = TargetNets(ts),
         DOMAIN ts = 1 .. Len(ts),
         \A i \in DOMAIN p.gates : p.gates[i].type # "buf" => p.gates[i].out \in Internal(p),
         NEW at, Shaped(ts, at, p.gates),
         NEW r, r = [n \in Int |-> NewName(c, p, n)], NEW q, Renaming(p, q, r)
  PROVE  Shaped(ts, at, q.gates)
<1>1. /\ \A n \in PatchPorts(p) : r[n] = n
      /\ DOMAIN q.gates = DOMAIN p.gates
      /\ \A i \in DOMAIN p.gates :
           /\ q.gates[i].type = p.gates[i].type /\ q.gates[i].out = r[p.gates[i].out]
           /\ DOMAIN q.gates[i].ins = DOMAIN p.gates[i].ins
  BY DEF Renaming
<1>2. Laid(ts, Len(ts), at, p.gates) /\ WiresOwn(p.gates)
  BY DEF Shaped
<1>3. \A i \in 1 .. Len(ts) : ts[i].out \in PatchPorts(p)
  BY DEF TargetNets, PatchPorts
<1>4. Laid(ts, Len(ts), at, q.gates)
  <2>1. /\ \A i \in 1 .. Len(ts) : /\ at[i] \in DOMAIN p.gates /\ p.gates[at[i]].type = "buf"
                                   /\ p.gates[at[i]].out = ts[i].out /\ DOMAIN p.gates[at[i]].ins = {1}
        /\ \A i, j \in 1 .. Len(ts) : i < j => at[i] < at[j]
        /\ \A x \in DOMAIN p.gates : p.gates[x].type = "buf" => \E i \in 1 .. Len(ts) : x = at[i]
    BY <1>2 DEF Laid
  <2>2. ASSUME NEW i \in 1 .. Len(ts)
        PROVE  /\ at[i] \in DOMAIN q.gates /\ q.gates[at[i]].type = "buf"
               /\ q.gates[at[i]].out = ts[i].out /\ DOMAIN q.gates[at[i]].ins = {1}
    <3>1. PICK x : x = at[i]
      OBVIOUS
    <3>2. x \in DOMAIN p.gates /\ p.gates[x].type = "buf" /\ p.gates[x].out = ts[i].out /\ DOMAIN p.gates[x].ins = {1}
      BY <2>1, <3>1
    <3>3. q.gates[x].type = "buf" /\ q.gates[x].out = r[ts[i].out] /\ DOMAIN q.gates[x].ins = {1} /\ x \in DOMAIN q.gates
      BY <1>1, <3>2
    <3>4. r[ts[i].out] = ts[i].out
      BY <1>1, <1>3
    <3>. QED BY <3>1, <3>3, <3>4
  <2>3. ASSUME NEW x \in DOMAIN q.gates, q.gates[x].type = "buf" PROVE \E i \in 1 .. Len(ts) : x = at[i]
    <3>1. x \in DOMAIN p.gates /\ p.gates[x].type = "buf"
      BY <1>1, <2>3
    <3>. QED BY <2>1, <3>1
  <2>. QED BY <2>1, <2>2, <2>3 DEF Laid
<1>5. \A n \in Internal(p) : /\ n \in Int /\ r[n] >= WireBase
                             /\ \A m \in Internal(p) : r[m] = r[n] => m = n
  <2>1. ASSUME NEW n \in Internal(p)
        PROVE  n \in Int /\ NewName(c, p, n) >= WireBase /\ \A m \in Internal(p) : NewName(c, p, m) = NewName(c, p, n) => m = n
    <3>1. n \in Int
      BY PatchNames DEF Internal, Fresh
    <3>. QED BY <3>1, NewNamesDiffer
  <2>2. Internal(p) \subseteq Int
    BY <2>1
  <2>. QED BY <2>1, <2>2
<1>6. ASSUME NEW i \in DOMAIN q.gates, q.gates[i].type # "buf"
      PROVE  IsGate(q.gates[i]) /\ q.gates[i].out >= WireBase /\ p.gates[i].out \in Internal(p)
  <2>1. IsGate(p.gates[i]) /\ p.gates[i].out \in Internal(p)
    BY <1>1, <1>2, <1>6 DEF WiresOwn
  <2>2. IsGate(q.gates[i])
    BY <1>1, <1>6, <2>1 DEF IsGate
  <2>. QED BY <1>1, <1>5, <1>6, <2>1, <2>2
<1>7. ASSUME NEW i \in DOMAIN q.gates, NEW j \in DOMAIN q.gates,
             q.gates[i].type # "buf", q.gates[j].type # "buf", q.gates[i].out = q.gates[j].out
      PROVE  i = j
  <2>1. p.gates[i].out \in Internal(p) /\ p.gates[j].out \in Internal(p)
    BY <1>6, <1>7
  <2>2. p.gates[i].out = p.gates[j].out
    BY <1>1, <1>5, <1>7, <2>1
  <2>. QED BY <1>1, <1>2, <1>7, <2>2 DEF WiresOwn
<1>8. WiresOwn(q.gates)
  BY <1>6, <1>7 DEF WiresOwn
<1>. QED BY <1>4, <1>8 DEF Shaped

LEMMA RenamedFollowed ==
  ASSUME NEW c, NEW ts, IsTargets(c, ts), c.nets \subseteq Nat, NEW p, IsPatch(c, p),
         GateOuts(p) \union Read(p.gates) \subseteq PatchPorts(p) \union Internal(p),
         LowPorts(ts), \A n \in Internal(p) : n >= WireBase, WireBase \in Nat,
         NEW at, Shaped(ts, at, p.gates), \A M : Followed(M, ts, at, p.gates),
         NEW q, NEW r, Renaming(p, q, r), Shaped(ts, at, q.gates),
         NEW M
  PROVE  Followed(M, ts, at, q.gates)
<1>1. SUFFICES ASSUME Reading(M), Obeyed(M, q.gates) PROVE Standing(M, ts, Len(ts), at, q.gates)
  BY DEF Followed
<1>2. PICK L : L = Pulled(M, p, r)
  OBVIOUS
<1>3. Reading(L)
  BY ONLY <1>1, <1>2, PulledReading
<1>4. /\ DOMAIN q.gates = DOMAIN p.gates
      /\ \A i \in DOMAIN p.gates :
           /\ q.gates[i].type = p.gates[i].type
           /\ q.gates[i].ins = [j \in DOMAIN p.gates[i].ins |-> r[p.gates[i].ins[j]]]
  BY DEF Renaming
<1>5. Obeyed(L, p.gates)
  <2>1. ASSUME NEW i \in DOMAIN p.gates, p.gates[i].type # "buf" PROVE GateObeyed(L, p.gates[i])
    <3>1. IsGate(p.gates[i])
      BY <2>1 DEF Shaped, WiresOwn
    <3>2. GateObeyed(M, q.gates[i])
      BY <1>1, <1>4, <2>1 DEF Obeyed
    <3>. QED BY <1>2, <3>1, <3>2, PulledObeyed
  <2>. QED BY <2>1 DEF Obeyed
<1>6. Standing(L, ts, Len(ts), at, p.gates)
  BY <1>3, <1>5 DEF Followed
<1>7. ASSUME NEW i \in 1 .. Len(ts) PROVE NamedRight(M, ts[i].lit, q.gates[at[i]].ins[1])
  <2>1. at[i] \in DOMAIN p.gates /\ DOMAIN p.gates[at[i]].ins = {1}
    BY DEF Shaped, Laid
  <2>2. PICK n, l : n = p.gates[at[i]].ins[1] /\ l = ts[i].lit
    OBVIOUS
  <2>3. NamedRight(L, l, n)
    BY <1>6, <2>2 DEF Standing
  <2>4. n \in Read(p.gates)
    BY <2>1, <2>2 DEF Read, Range
  <2>5. n \in PatchPorts(p) \union Internal(p)
    BY <2>4
  <2>6. n \in Int /\ Renamed(p, r, n) = r[n]
    BY <2>5, RenamedIs
  <2>7. q.gates[at[i]].ins[1] = r[n]
    <3>1. q.gates[at[i]].ins = [j \in {1} |-> r[p.gates[at[i]].ins[j]]]
      BY ONLY <1>4, <2>1
    <3>. QED BY ONLY <2>2, <3>1
  <2>8. i \in DOMAIN ts /\ l \in Lits
    BY <2>2, TargetIs, PlainIs
  <2>9. PortsOf(l) \intersect Internal(p) = {}
    <3>1. \A k \in PortsOf(l) : k \in Int /\ k < WireBase
      BY <2>2, <2>8, PortsAre DEF LowPorts
    <3>2. \A k \in Internal(p) : k \in Int /\ k >= WireBase
      BY PatchNames DEF Internal
    <3>. QED BY <3>1, <3>2
  <2>10. NamedRight(M, l, Renamed(p, r, n))
    BY ONLY <1>1, <1>2, <2>3, <2>6, <2>8, <2>9, PulledNamed
  <2>. QED BY <2>2, <2>6, <2>7, <2>10
<1>. QED BY <1>7 DEF Standing

LEMMA CandidateShaped ==
  ASSUME NEW c, NEW ts, IsTargets(c, ts), Fresh(c), LowPorts(ts), ts # <<>>,
         NEW q, q = CandidatePatch(c, ts)
  PROVE  /\ WireBase > 1 /\ WireBase \in Nat
         /\ \E at : Shaped(ts, at, q.gates) /\ \A M : Followed(M, ts, at, q.gates)
<1>1. PICK p : p = AigToPatch(c, ts)
  OBVIOUS
<1>2. PICK at : Shaped(ts, at, p.gates) /\ \A M : Followed(M, ts, at, p.gates)
  BY ONLY IsTargets(c, ts), Fresh(c), <1>1, EmittedShaped
<1>3. /\ IsPatch(c, p) /\ Narrow(p) /\ WireBase > 1
      /\ GateOuts(p) \union Read(p.gates) \subseteq PatchPorts(p) \union Internal(p)
      /\ \A n \in Internal(p) : n >= WireBase
      /\ \A i \in DOMAIN p.gates : p.gates[i].type # "buf" => p.gates[i].out \in Internal(p)
  BY ONLY IsTargets(c, ts), Fresh(c), LowPorts(ts), ts # <<>>, <1>1, <1>2, InternalWires
<1>4. WiresTyped(c) /\ c.nets \subseteq Nat /\ WireBase \in Nat
  BY FreshTyped DEF Fresh
<1>5. Outs(p) = TargetNets(ts) /\ DOMAIN ts = 1 .. Len(ts)
  BY <1>1, <1>4, EmittedTidy, TargetIs
<1>6. p = [inputs |-> p.inputs, outputs |-> p.outputs, gates |-> p.gates]
  BY <1>1 DEF AigToPatch
<1>7. PICK r : r = [n \in Int |-> NewName(c, p, n)]
  OBVIOUS
<1>8. q = Normalized(c, p)
  BY <1>1 DEF CandidatePatch
<1>9. Renaming(p, q, r)
  BY ONLY <1>3, <1>4, <1>6, <1>7, <1>8, NormalizedIs
<1>10. Shaped(ts, at, q.gates)
  BY ONLY Fresh(c), <1>2, <1>3, <1>5, <1>7, <1>9, RenamedShaped
<1>11. ASSUME NEW M PROVE Followed(M, ts, at, q.gates)
  BY ONLY IsTargets(c, ts), LowPorts(ts), <1>2, <1>3, <1>4, <1>9, <1>10, RenamedFollowed
<1>. QED BY <1>3, <1>4, <1>10, <1>11

-----------------------------------------------------------------------------
(* Evaluating a patched netlist: it gives values in a ranked order, and    *)
(* from the values of the ports the patch gives each target that of its    *)
(* literal.                                                                *)

(* A run has values for the wires whose inputs have values, and these      *)
(* values are ranked.                                                      *)
RunOf(c, wd, start, v, rank) ==
  /\ v \in [DOMAIN v -> SUBSET Patterns(c)] /\ rank \in [DOMAIN v -> Nat]
  /\ DOMAIN start \subseteq DOMAIN v /\ \A w \in DOMAIN start : v[w] = start[w]
  /\ \A w \in DOMAIN wd \ DOMAIN start : w \in DOMAIN v <=> Range(wd[w].ins) \subseteq DOMAIN v
  /\ \A w \in DOMAIN v \ DOMAIN start :
       /\ w \in DOMAIN wd /\ v[w] = WireValue(c, wd, v, w)
       /\ \A x \in Range(wd[w].ins) : x \in DOMAIN v /\ rank[x] < rank[w]

LEMMA RunRanked ==
  ASSUME NEW c, NEW wd, NEW start, NEW v, IsRun(c, wd, start, v)
  PROVE  \E rank : RunOf(c, wd, start, v, rank)
<1>1. /\ v \in Partial(c, wd, start)
      /\ DOMAIN start \subseteq DOMAIN v /\ \A w \in DOMAIN start : v[w] = start[w]
      /\ ReadyWires(wd, v) = {}
  BY DEF IsRun, Running
<1>2. PICK b \in Nat : \E rank \in [DOMAIN v -> 0 .. b] : WiresRanked(c, wd, start, v, rank)
  BY DEF IsRun, Running
<1>3. PICK rank \in [DOMAIN v -> 0 .. b] : WiresRanked(c, wd, start, v, rank)
  BY <1>2
<1>4. v \in [DOMAIN v -> SUBSET Patterns(c)]
  BY <1>1, PartialIs
<1>5. rank \in [DOMAIN v -> Nat]
  BY <1>2, <1>3
<1>6. \A w \in DOMAIN v \ DOMAIN start :
        /\ w \in DOMAIN wd /\ v[w] = WireValue(c, wd, v, w)
        /\ \A x \in Range(wd[w].ins) : x \in DOMAIN v /\ rank[x] < rank[w]
  BY <1>3 DEF WiresRanked
<1>7. \A w \in DOMAIN wd \ DOMAIN start : w \in DOMAIN v <=> Range(wd[w].ins) \subseteq DOMAIN v
  BY <1>1, <1>6 DEF ReadyWires
<1>. QED BY <1>1, <1>4, <1>5, <1>6, <1>7 DEF RunOf

(* q is a patch for the targets ts, and v what its netlist evaluates to.   *)
Patching(c, ts, q) ==
  /\ IsWhole(c) /\ Fresh(c) /\ IsTargets(c, ts) /\ WireBase > 1
  /\ IsPatch(c, q) /\ Outs(q) = TargetNets(ts)
  /\ \E at : Shaped(ts, at, q.gates) /\ \A M : Followed(M, ts, at, q.gates)

PatchRun(c, q, v, rank) == RunOf(c, PatchedDrivers(c, q), InputValues(c, q), v, rank)

LEMMA PatchRuns ==
  ASSUME NEW c, NEW q, IsWhole(c), IsPatch(c, q), NEW v, v = EvalPatched(c, q)
  PROVE  \E rank : PatchRun(c, q, v, rank)
<1>1. Runnable(c, PatchedDrivers(c, q), InputValues(c, q))
  BY PatchRunnable
<1>2. IsRun(c, PatchedDrivers(c, q), InputValues(c, q), v)
  BY <1>1, SettledRuns DEF EvalPatched
<1>. QED BY <1>2, RunRanked DEF PatchRun

(* The values of the names as the gates of the patch read them.            *)
Seen(c, q, v) == {n \in Int : ReadsAs(c, q, n) \in DOMAIN v}

ReadingOf(c, q, v, rank) ==
  [pats |-> Patterns(c),
   val |-> [n \in Seen(c, q, v) |-> v[ReadsAs(c, q, n)]],
   rank |-> [n \in Seen(c, q, v) |-> rank[ReadsAs(c, q, n)]]]

ReadFrom(c, q, v, rank, M) ==
  /\ M.pats = Patterns(c) /\ DOMAIN M.val = Seen(c, q, v)
  /\ \A n \in DOMAIN M.val : /\ n \in Int /\ M.val[n] = v[ReadsAs(c, q, n)]
                             /\ M.rank[n] = rank[ReadsAs(c, q, n)]
  /\ \A n \in Int : n \in DOMAIN M.val <=> ReadsAs(c, q, n) \in DOMAIN v

LEMMA ReadingOfIs ==
  ASSUME NEW c, NEW q, NEW v, NEW rank, NEW M, M = ReadingOf(c, q, v, rank)
  PROVE  ReadFrom(c, q, v, rank, M)
BY DEF ReadingOf, Seen, ReadFrom

LEMMA ReadingOfReads ==
  ASSUME NEW c, NEW q, IsWhole(c), IsPatch(c, q), c.nets \subseteq Nat \ {0, 1},
         NEW v, NEW rank, PatchRun(c, q, v, rank), NEW M, M = ReadingOf(c, q, v, rank)
  PROVE  Reading(M)
<1>1. ReadFrom(c, q, v, rank, M)
  BY ONLY M = ReadingOf(c, q, v, rank), ReadingOfIs
<1>2. /\ M.pats = Patterns(c) /\ DOMAIN M.val = Seen(c, q, v)
      /\ \A n \in DOMAIN M.val : /\ n \in Int /\ M.val[n] = v[ReadsAs(c, q, n)]
                                 /\ M.rank[n] = rank[ReadsAs(c, q, n)]
      /\ \A n \in Int : n \in DOMAIN M.val <=> ReadsAs(c, q, n) \in DOMAIN v
  BY <1>1 DEF ReadFrom
<1>3. /\ v \in [DOMAIN v -> SUBSET Patterns(c)] /\ rank \in [DOMAIN v -> Nat]
      /\ DOMAIN InputValues(c, q) \subseteq DOMAIN v
      /\ \A w \in DOMAIN InputValues(c, q) : v[w] = InputValues(c, q)[w]
  BY DEF PatchRun, RunOf
<1>4. M.val = [n \in Seen(c, q, v) |-> v[ReadsAs(c, q, n)]] /\ M.rank = [n \in Seen(c, q, v) |-> rank[ReadsAs(c, q, n)]]
  BY DEF ReadingOf
<1>5. M.val \in [DOMAIN M.val -> SUBSET M.pats] /\ M.rank \in [DOMAIN M.val -> Nat]
  BY <1>2, <1>3, <1>4 DEF Seen
<1>6. ReadsAs(c, q, 0) = Net(0) /\ ReadsAs(c, q, 1) = Net(1)
  BY DEF ReadsAs
<1>7. /\ Net(0) \in DOMAIN InputValues(c, q) /\ Net(1) \in DOMAIN InputValues(c, q)
      /\ InputValues(c, q)[Net(0)] = {} /\ InputValues(c, q)[Net(1)] = Patterns(c)
  BY DEF InputValues, Net, Const
<1>8. {0, 1} \subseteq DOMAIN M.val
  BY <1>2, <1>3, <1>6, <1>7
<1>9. M.val[0] = {} /\ M.val[1] = M.pats
  BY <1>2, <1>3, <1>6, <1>7, <1>8
<1>. QED BY <1>5, <1>8, <1>9 DEF Reading

(* A gate on a wire of its own is what drives that wire.                   *)
LEMMA WireDriven ==
  ASSUME NEW c, NEW q, IsWhole(c), Fresh(c), IsPatch(c, q), WireBase > 1, WiresOwn(q.gates),
         NEW i \in DOMAIN q.gates, q.gates[i].type # "buf", \A j \in DOMAIN q.gates :
           q.gates[j].type = "buf" => q.gates[j].out \in c.nets
  PROVE  /\ DriverOf(q, q.gates[i].out) = q.gates[i]
         /\ DrivesAs(q, q.gates[i].out) = Wire(q.gates[i].out)
         /\ ReadsAs(c, q, q.gates[i].out) = Wire(q.gates[i].out)
         /\ Wire(q.gates[i].out) \in DOMAIN PatchedDrivers(c, q)
         /\ Wire(q.gates[i].out) \notin DOMAIN InputValues(c, q)
<1>1. PICK w : w = q.gates[i].out
  OBVIOUS
<1>2. w \in Int /\ w >= WireBase /\ WireBase \in Nat /\ w \in GateOuts(q)
  BY <1>1 DEF IsPatch, WiresOwn, Fresh, GateOuts
<1>3. w \notin c.nets /\ w \notin Outs(q) /\ w \notin {0, 1} /\ ~(w < 0)
  <2>1. Outs(q) \subseteq c.nets
    BY PatchNames DEF Fresh
  <2>2. \A n \in c.nets : n \in Int /\ n < WireBase
    BY DEF Fresh
  <2>. QED BY <1>2, <2>1, <2>2
<1>4. DriverOf(q, w) = q.gates[i]
  <2>1. PICK j \in DOMAIN q.gates : DriverOf(q, w) = q.gates[j] /\ q.gates[j].out = w
    BY <1>2, DriverIs
  <2>2. q.gates[j].type # "buf"
    BY <1>3, <2>1
  <2>3. j = i
    BY <1>1, <2>1, <2>2 DEF WiresOwn
  <2>. QED BY <2>1, <2>3
<1>5. DrivesAs(q, w) = Wire(w) /\ ReadsAs(c, q, w) = Wire(w)
  BY <1>3 DEF DrivesAs, ReadsAs
<1>6. Wire(w) \in DOMAIN PatchedDrivers(c, q) /\ Wire(w) \notin DOMAIN InputValues(c, q)
  BY <1>2, <1>3, WiresThere
<1>. QED BY <1>1, <1>4, <1>5, <1>6

LEMMA SmallGates ==
  ASSUME NEW c, NEW in, \A j \in DOMAIN in : in[j] \subseteq Patterns(c)
  PROVE  /\ DOMAIN in = {1, 2} => GateFn(c, "and", in) = in[1] \intersect in[2]
         /\ DOMAIN in = {1} => GateFn(c, "not", in) = Patterns(c) \ in[1]
         /\ DOMAIN in = {1} => GateFn(c, "buf", in) = in[1]
<1>. DEFINE ones(p) == {i \in DOMAIN in : p \in in[i]}
            and == {p \in Patterns(c) : ones(p) = DOMAIN in}
<1>1. \A p : ones(p) = DOMAIN in <=> \A i \in DOMAIN in : p \in in[i]
  OBVIOUS
<1>2. DOMAIN in = {1, 2} => and = in[1] \intersect in[2]
  BY <1>1
<1>3. DOMAIN in = {1} => and = in[1]
  BY <1>1
<1>4. GateFn(c, "and", in) = and /\ GateFn(c, "buf", in) = and /\ GateFn(c, "not", in) = Patterns(c) \ and
  BY DEF GateFn
<1>. QED BY <1>2, <1>3, <1>4

(* Wire W computes what gate g computes of the names f.                    *)
WireComputes(c, wd, W, v, g, f) ==
  /\ Range(wd[W].ins) \subseteq DOMAIN v <=> \A j \in DOMAIN g.ins : f[j] \in DOMAIN v
  /\ \A j \in DOMAIN g.ins : f[j] \in Range(wd[W].ins)
  /\ WireValue(c, wd, v, W) = GateFn(c, g.type, [j \in DOMAIN g.ins |-> v[f[j]]])

LEMMA WireIns ==
  ASSUME NEW c, NEW wd, NEW W, NEW v, NEW g, NEW f,
         wd[W].type = g.type, DOMAIN wd[W].ins = DOMAIN g.ins,
         \A j \in DOMAIN g.ins : wd[W].ins[j] = f[j]
  PROVE  WireComputes(c, wd, W, v, g, f)
<1>1. PICK d : d = wd[W]
  OBVIOUS
<1>2. d.type = g.type /\ DOMAIN d.ins = DOMAIN g.ins /\ \A j \in DOMAIN g.ins : d.ins[j] = f[j]
  BY <1>1
<1>3. Range(d.ins) = {d.ins[j] : j \in DOMAIN d.ins}
  BY DEF Range
<1>4. Range(d.ins) \subseteq DOMAIN v <=> \A j \in DOMAIN g.ins : f[j] \in DOMAIN v
  BY <1>2, <1>3
<1>5. \A j \in DOMAIN g.ins : f[j] \in Range(d.ins)
  BY <1>2, <1>3
<1>6. [j \in DOMAIN d.ins |-> v[d.ins[j]]] = [j \in DOMAIN g.ins |-> v[f[j]]]
  BY <1>2
<1>7. WireValue(c, wd, v, W) = GateFn(c, d.type, [j \in DOMAIN d.ins |-> v[d.ins[j]]])
  BY <1>1 DEF WireValue
<1>. QED BY <1>1, <1>2, <1>4, <1>5, <1>6, <1>7 DEF WireComputes

(* The values of the wires follow the gates of the patch.                  *)
LEMMA ReadingOfObeys ==
  ASSUME NEW c, NEW q, IsWhole(c), Fresh(c), IsPatch(c, q), WireBase > 1, WiresOwn(q.gates),
         \A j \in DOMAIN q.gates : q.gates[j].type = "buf" => q.gates[j].out \in c.nets,
         NEW v, NEW rank, PatchRun(c, q, v, rank), NEW M, M = ReadingOf(c, q, v, rank)
  PROVE  Obeyed(M, q.gates)
<1>1. SUFFICES ASSUME NEW i \in DOMAIN q.gates, q.gates[i].type # "buf"
               PROVE  GateObeyed(M, q.gates[i])
  BY DEF Obeyed
<1>2. PICK g, w, wd, W : g = q.gates[i] /\ w = g.out /\ wd = PatchedDrivers(c, q) /\ W = Wire(w)
  OBVIOUS
<1>3. /\ DriverOf(q, w) = g /\ DrivesAs(q, w) = W /\ ReadsAs(c, q, w) = W
      /\ W \in DOMAIN wd /\ W \notin DOMAIN InputValues(c, q)
  BY <1>1, <1>2, WireDriven
<1>4. w \in GateOuts(q) /\ w \in Int /\ IsGate(g) /\ \A j \in DOMAIN g.ins : g.ins[j] \in Int
  <2>1. w \in GateOuts(q) /\ IsGate(g)
    BY <1>1, <1>2 DEF GateOuts, WiresOwn
  <2>2. w \in Int /\ g.ins \in Seq(Int)
    BY <1>1, <1>2 DEF IsPatch
  <2>. QED BY <2>1, <2>2
<1>5. /\ wd[W].type = g.type /\ DOMAIN wd[W].ins = DOMAIN g.ins
      /\ \A j \in DOMAIN g.ins : wd[W].ins[j] = ReadsAs(c, q, g.ins[j])
  BY <1>2, <1>3, <1>4, PatchedWires
<1>6. PICK f : f = [j \in DOMAIN g.ins |-> ReadsAs(c, q, g.ins[j])]
  OBVIOUS
<1>7. \A j \in DOMAIN g.ins : wd[W].ins[j] = f[j] /\ f[j] = ReadsAs(c, q, g.ins[j])
  BY <1>5, <1>6
<1>8. /\ Range(wd[W].ins) \subseteq DOMAIN v <=> \A j \in DOMAIN g.ins : f[j] \in DOMAIN v
      /\ \A j \in DOMAIN g.ins : f[j] \in Range(wd[W].ins)
      /\ WireValue(c, wd, v, W) = GateFn(c, g.type, [j \in DOMAIN g.ins |-> v[f[j]]])
  <2>1. wd[W].type = g.type /\ DOMAIN wd[W].ins = DOMAIN g.ins
    BY <1>5
  <2>2. \A j \in DOMAIN g.ins : wd[W].ins[j] = f[j]
    BY <1>7
  <2>3. WireComputes(c, wd, W, v, g, f)
    BY ONLY <2>1, <2>2, WireIns
  <2>. QED BY ONLY <2>3 DEF WireComputes
<1>9. RunOf(c, wd, InputValues(c, q), v, rank)
  BY <1>2 DEF PatchRun
<1>10. /\ W \in DOMAIN v <=> \A j \in DOMAIN g.ins : f[j] \in DOMAIN v
       /\ W \in DOMAIN v => /\ v[W] = GateFn(c, g.type, [j \in DOMAIN g.ins |-> v[f[j]]])
                            /\ \A j \in DOMAIN g.ins : rank[f[j]] < rank[W]
       /\ v \in [DOMAIN v -> SUBSET Patterns(c)]
  BY <1>3, <1>8, <1>9 DEF RunOf
<1>11. ReadFrom(c, q, v, rank, M)
  BY ONLY M = ReadingOf(c, q, v, rank), ReadingOfIs
<1>12. /\ M.pats = Patterns(c)
       /\ \A n \in DOMAIN M.val : /\ M.val[n] = v[ReadsAs(c, q, n)]
                                  /\ M.rank[n] = rank[ReadsAs(c, q, n)]
       /\ \A n \in Int : n \in DOMAIN M.val <=> ReadsAs(c, q, n) \in DOMAIN v
  BY <1>11 DEF ReadFrom
<1>13. w \in DOMAIN M.val <=> W \in DOMAIN v
  BY <1>3, <1>4, <1>12
<1>14. \A j \in DOMAIN g.ins : g.ins[j] \in DOMAIN M.val <=> f[j] \in DOMAIN v
  BY <1>4, <1>7, <1>12
<1>15. w \in DOMAIN M.val <=> \A j \in DOMAIN g.ins : g.ins[j] \in DOMAIN M.val
  BY <1>10, <1>13, <1>14
<1>16. ASSUME w \in DOMAIN M.val
       PROVE  /\ \A j \in DOMAIN g.ins : M.rank[g.ins[j]] < M.rank[w]
              /\ M.val[w] = IF g.type = "and" THEN M.val[g.ins[1]] \intersect M.val[g.ins[2]]
                            ELSE M.pats \ M.val[g.ins[1]]
  <2>1. W \in DOMAIN v /\ \A j \in DOMAIN g.ins : g.ins[j] \in DOMAIN M.val /\ f[j] \in DOMAIN v
    BY <1>10, <1>13, <1>14, <1>16
  <2>2. \A j \in DOMAIN g.ins : M.val[g.ins[j]] = v[f[j]] /\ M.rank[g.ins[j]] = rank[f[j]]
    BY <1>7, <1>12, <2>1
  <2>3. M.val[w] = v[W] /\ M.rank[w] = rank[W]
    BY <1>3, <1>12, <1>16
  <2>4. \A j \in DOMAIN g.ins : M.rank[g.ins[j]] < M.rank[w]
    BY <1>10, <2>1, <2>2, <2>3
  <2>5. PICK in : in = [j \in DOMAIN g.ins |-> v[f[j]]]
    OBVIOUS
  <2>6. \A j \in DOMAIN in : in[j] \subseteq Patterns(c) /\ in[j] = M.val[g.ins[j]]
    BY <1>10, <2>1, <2>2, <2>5
  <2>7. v[W] = GateFn(c, g.type, in) /\ DOMAIN in = DOMAIN g.ins
    BY <1>10, <2>1, <2>5
  <2>8. /\ DOMAIN in = {1, 2} => GateFn(c, "and", in) = in[1] \intersect in[2]
        /\ DOMAIN in = {1} => GateFn(c, "not", in) = Patterns(c) \ in[1]
    BY <2>6, SmallGates
  <2>9. \/ g.type = "and" /\ DOMAIN g.ins = {1, 2}
        \/ g.type = "not" /\ DOMAIN g.ins = {1}
    BY <1>4 DEF IsGate
  <2>10. CASE g.type = "and" /\ DOMAIN g.ins = {1, 2}
    <3>1. v[W] = in[1] \intersect in[2] /\ in[1] = M.val[g.ins[1]] /\ in[2] = M.val[g.ins[2]]
      BY <2>6, <2>7, <2>8, <2>10
    <3>. QED BY <2>3, <2>4, <2>10, <3>1
  <2>11. CASE g.type = "not" /\ DOMAIN g.ins = {1}
    <3>1. v[W] = Patterns(c) \ in[1] /\ in[1] = M.val[g.ins[1]] /\ g.type # "and"
      BY <2>6, <2>7, <2>8, <2>11
    <3>. QED BY <1>12, <2>3, <2>4, <3>1
  <2>. QED BY <2>9, <2>10, <2>11
<1>. QED BY <1>2, <1>15, <1>16 DEF GateObeyed

(* The last target for net o.                                              *)
LastFor(ts, o, k) ==
  k \in DOMAIN ts /\ ts[k].out = o /\ \A i \in DOMAIN ts : ts[i].out = o => i <= k

LEMMA LastExists ==
  ASSUME NEW c, NEW ts, IsTargets(c, ts), c.nets \subseteq Nat, NEW o \in TargetNets(ts)
  PROVE  \E k : LastFor(ts, o, k)
<1>. DEFINE T == {i \in DOMAIN ts : ts[i].out = o}
<1>1. Len(ts) \in Nat /\ DOMAIN ts = 1 .. Len(ts)
  BY TargetIs
<1>2. T # {} /\ T \subseteq 1 .. Len(ts) /\ T \subseteq Nat
  BY <1>1 DEF TargetNets
<1>3. IsFiniteSet(T)
  <2>1. 1 \in Int /\ Len(ts) \in Int
    BY ONLY <1>1
  <2>2. IsFiniteSet(1 .. Len(ts))
    BY ONLY <2>1, FS_Interval
  <2>. HIDE DEF T
  <2>. QED BY <1>2, <2>2, FS_Subset
<1>4. \E x \in T : \A y \in T : y <= x
  <2>. HIDE DEF T
  <2>. QED BY <1>2, <1>3, Largest
<1>. QED BY <1>4 DEF LastFor

LEMMA BuffersDrive ==
  ASSUME NEW c, NEW ts, IsTargets(c, ts), c.nets \subseteq Nat, NEW q, NEW at,
         Shaped(ts, at, q.gates), NEW j \in DOMAIN q.gates, q.gates[j].type = "buf"
  PROVE  q.gates[j].out \in c.nets
<1>1. PICK i \in 1 .. Len(ts) : j = at[i] /\ q.gates[at[i]].out = ts[i].out
  BY DEF Shaped, Laid
<1>. QED BY <1>1, TargetIs

LEMMA OutputDriver ==
  ASSUME NEW c, NEW ts, IsTargets(c, ts), Fresh(c), NEW q, IsPatch(c, q), NEW at,
         Shaped(ts, at, q.gates), NEW o, NEW k, LastFor(ts, o, k)
  PROVE  /\ o \in c.nets /\ o \in GateOuts(q) /\ DriverOf(q, o) = q.gates[at[k]]
         /\ q.gates[at[k]].type = "buf" /\ DOMAIN q.gates[at[k]].ins = {1}
<1>1. c.nets \subseteq Nat /\ (\A n \in c.nets : n < WireBase) /\ WireBase \in Nat
  BY DEF Fresh
<1>2. Len(ts) \in Nat /\ DOMAIN ts = 1 .. Len(ts) /\ \A i \in 1 .. Len(ts) : ts[i].out \in c.nets
  BY <1>1, TargetIs
<1>3. k \in 1 .. Len(ts) /\ ts[k].out = o /\ \A i \in 1 .. Len(ts) : ts[i].out = o => i <= k
  BY <1>2 DEF LastFor
<1>4. /\ \A i \in 1 .. Len(ts) : /\ at[i] \in DOMAIN q.gates /\ q.gates[at[i]].type = "buf"
                                 /\ q.gates[at[i]].out = ts[i].out /\ DOMAIN q.gates[at[i]].ins = {1}
      /\ \A i, j \in 1 .. Len(ts) : i < j => at[i] < at[j]
      /\ \A x \in DOMAIN q.gates : q.gates[x].type = "buf" => \E i \in 1 .. Len(ts) : x = at[i]
  BY DEF Shaped, Laid
<1>5. PICK m : m = at[k]
  OBVIOUS
<1>6. m \in DOMAIN q.gates /\ q.gates[m].out = o /\ q.gates[m].type = "buf" /\ DOMAIN q.gates[m].ins = {1}
  BY <1>3, <1>4, <1>5
<1>7. DOMAIN q.gates \subseteq Nat
  BY DEF IsPatch
<1>8. ASSUME NEW j \in DOMAIN q.gates, q.gates[j].out = o PROVE j <= m
  <2>1. q.gates[j].type = "buf"
    <3>1. SUFFICES ASSUME q.gates[j].type # "buf" PROVE FALSE
      OBVIOUS
    <3>2. o >= WireBase
      BY <1>8, <3>1 DEF Shaped, WiresOwn
    <3>. QED BY <1>1, <1>2, <1>3, <3>2
  <2>2. PICK i \in 1 .. Len(ts) : j = at[i]
    BY <1>4, <2>1
  <2>3. ts[i].out = o
    BY <1>4, <1>8, <2>2
  <2>4. i <= k /\ i \in Nat /\ k \in Nat
    BY <1>2, <1>3, <2>3
  <2>5. CASE i = k
    BY <1>5, <1>6, <1>7, <2>2, <2>5
  <2>6. CASE i < k
    <3>1. at[i] < at[k]
      BY <1>3, <1>4, <2>6
    <3>. QED BY <1>5, <1>6, <1>7, <2>2, <3>1
  <2>. QED BY <2>4, <2>5, <2>6
<1>9. PICK S : S = {i \in DOMAIN q.gates : q.gates[i].out = o}
  OBVIOUS
<1>10. m \in S /\ S \subseteq Nat /\ \A j \in S : j <= m
  BY <1>6, <1>7, <1>8, <1>9
<1>11. \A i \in S : (\A j \in S : j <= i) => i = m
  BY <1>10
<1>12. (CHOOSE i \in S : \A j \in S : j <= i) = m
  BY <1>10, <1>11
<1>13. DriverOf(q, o) = q.gates[m]
  BY <1>9, <1>12 DEF DriverOf
<1>. QED BY <1>2, <1>3, <1>5, <1>6, <1>13 DEF GateOuts

(* What the netlist computes for output o, whose last literal is l.        *)
PortsSeen(c, q, v, l) == [p \in PortsOf(l) |-> v[ReadsAs(c, q, p)]]

OutputRight(c, q, v, rank, o, l) ==
  /\ Net(o) \in DOMAIN v <=> \A p \in PortsOf(l) : ReadsAs(c, q, p) \in DOMAIN v
  /\ Net(o) \in DOMAIN v =>
       /\ v[Net(o)] = TermValue(Patterns(c), PortsSeen(c, q, v, l), l)
       /\ \A p \in PortsOf(l) : rank[ReadsAs(c, q, p)] < rank[Net(o)]

LEMMA OutputComputed ==
  ASSUME NEW c, NEW ts, NEW q, Patching(c, ts, q), NEW v, NEW rank, PatchRun(c, q, v, rank),
         NEW o, NEW k, LastFor(ts, o, k)
  PROVE  OutputRight(c, q, v, rank, o, ts[k].lit)
<1>1. /\ IsWhole(c) /\ Fresh(c) /\ IsTargets(c, ts) /\ WireBase > 1
      /\ IsPatch(c, q) /\ Outs(q) = TargetNets(ts)
  BY DEF Patching
<1>2. PICK at : Shaped(ts, at, q.gates) /\ \A M : Followed(M, ts, at, q.gates)
  BY DEF Patching
<1>3. c.nets \subseteq Nat /\ c.nets \subseteq Nat \ {0, 1}
  BY <1>1 DEF Fresh
<1>4. PICK M : M = ReadingOf(c, q, v, rank)
  OBVIOUS
<1>5. Reading(M)
  BY ONLY <1>1, <1>3, <1>4, PatchRun(c, q, v, rank), ReadingOfReads
<1>6. WiresOwn(q.gates)
  BY <1>2 DEF Shaped
<1>7. \A j \in DOMAIN q.gates : q.gates[j].type = "buf" => q.gates[j].out \in c.nets
  BY <1>1, <1>2, <1>3, BuffersDrive
<1>8. Obeyed(M, q.gates)
  BY ONLY <1>1, <1>4, <1>6, <1>7, PatchRun(c, q, v, rank), ReadingOfObeys
<1>9. Standing(M, ts, Len(ts), at, q.gates)
  BY <1>2, <1>5, <1>8 DEF Followed
<1>10. /\ o \in c.nets /\ o \in GateOuts(q) /\ DriverOf(q, o) = q.gates[at[k]]
       /\ q.gates[at[k]].type = "buf" /\ DOMAIN q.gates[at[k]].ins = {1}
  BY ONLY <1>1, <1>2, LastFor(ts, o, k), OutputDriver
<1>11. PICK g, l, wd, W : g = q.gates[at[k]] /\ l = ts[k].lit /\ wd = PatchedDrivers(c, q) /\ W = Net(o)
  OBVIOUS
<1>12. k \in 1 .. Len(ts) /\ o \in Outs(q) /\ o \in Int /\ l \in Lits
  <2>1. Len(ts) \in Nat /\ DOMAIN ts = 1 .. Len(ts) /\ k \in DOMAIN ts /\ ts[k].out = o
    BY <1>1, <1>3, TargetIs DEF LastFor
  <2>2. ts[k].lit \in Lits
    BY <1>1, <1>3, <2>1, TargetIs, PlainIs
  <2>. QED BY <1>1, <1>3, <1>10, <1>11, <2>1, <2>2 DEF TargetNets
<1>13. PICK n : n = g.ins[1]
  OBVIOUS
<1>14. NamedRight(M, l, n)
  BY <1>9, <1>11, <1>12, <1>13 DEF Standing
<1>15. n \in Int
  <2>1. DriverOf(q, o).ins \in Seq(Int)
    BY <1>1, <1>10, DriverTyped
  <2>. QED BY <1>10, <1>11, <1>13, <2>1
<1>16. /\ wd[W].type = g.type /\ DOMAIN wd[W].ins = DOMAIN g.ins
       /\ \A j \in DOMAIN g.ins : wd[W].ins[j] = ReadsAs(c, q, g.ins[j])
  <2>1. DrivesAs(q, o) = W
    BY <1>11, <1>12 DEF DrivesAs
  <2>. QED BY <1>1, <1>10, <1>11, <2>1, PatchedWires
<1>17. PICK f : f = [j \in DOMAIN g.ins |-> ReadsAs(c, q, g.ins[j])]
  OBVIOUS
<1>18. \A j \in DOMAIN g.ins : wd[W].ins[j] = f[j]
  BY <1>16, <1>17
<1>19. /\ Range(wd[W].ins) \subseteq DOMAIN v <=> \A j \in DOMAIN g.ins : f[j] \in DOMAIN v
       /\ \A j \in DOMAIN g.ins : f[j] \in Range(wd[W].ins)
       /\ WireValue(c, wd, v, W) = GateFn(c, g.type, [j \in DOMAIN g.ins |-> v[f[j]]])
  <2>1. wd[W].type = g.type /\ DOMAIN wd[W].ins = DOMAIN g.ins
    BY <1>16
  <2>2. \A j \in DOMAIN g.ins : wd[W].ins[j] = f[j]
    BY <1>18
  <2>3. WireComputes(c, wd, W, v, g, f)
    BY ONLY <2>1, <2>2, WireIns
  <2>. QED BY ONLY <2>3 DEF WireComputes
<1>20. W \in DOMAIN wd /\ W \notin DOMAIN InputValues(c, q)
  BY <1>1, <1>3, <1>10, <1>11, <1>12, WiresThere
<1>21. PICK R : R = ReadsAs(c, q, n)
  OBVIOUS
<1>22. f[1] = R /\ DOMAIN g.ins = {1} /\ g.type = "buf"
  BY <1>10, <1>11, <1>13, <1>17, <1>21
<1>23. RunOf(c, wd, InputValues(c, q), v, rank)
  BY <1>11 DEF PatchRun
<1>24. /\ W \in DOMAIN v <=> R \in DOMAIN v
       /\ W \in DOMAIN v => v[W] = GateFn(c, "buf", [j \in {1} |-> v[f[j]]]) /\ rank[R] < rank[W]
       /\ v \in [DOMAIN v -> SUBSET Patterns(c)] /\ rank \in [DOMAIN v -> Nat]
  BY <1>19, <1>20, <1>22, <1>23 DEF RunOf
<1>25. W \in DOMAIN v => v[W] = v[R]
  <2>1. SUFFICES ASSUME W \in DOMAIN v PROVE v[W] = v[R]
    OBVIOUS
  <2>2. PICK in : in = [j \in {1} |-> v[f[j]]]
    OBVIOUS
  <2>3. DOMAIN in = {1} /\ in[1] = v[R] /\ v[R] \subseteq Patterns(c)
    BY <1>22, <1>24, <2>1, <2>2
  <2>4. GateFn(c, "buf", in) = in[1]
    BY <2>3, SmallGates
  <2>. QED BY <1>24, <2>1, <2>2, <2>3, <2>4
<1>26. ReadFrom(c, q, v, rank, M)
  BY ONLY <1>4, ReadingOfIs
<1>27. /\ M.pats = Patterns(c)
       /\ \A x \in DOMAIN M.val : /\ M.val[x] = v[ReadsAs(c, q, x)]
                                  /\ M.rank[x] = rank[ReadsAs(c, q, x)]
       /\ \A x \in Int : x \in DOMAIN M.val <=> ReadsAs(c, q, x) \in DOMAIN v
  BY <1>26 DEF ReadFrom
<1>28. PortsOf(l) \subseteq Int
  BY <1>12, PortsAre
<1>29. /\ n \in DOMAIN M.val <=> PortsOf(l) \subseteq DOMAIN M.val
       /\ n \in DOMAIN M.val =>
            /\ M.val[n] = TermValue(M.pats, M.val, l)
            /\ \A p \in PortsOf(l) : M.rank[p] <= M.rank[n]
  BY <1>14 DEF NamedRight
<1>30. W \in DOMAIN v <=> \A p \in PortsOf(l) : ReadsAs(c, q, p) \in DOMAIN v
  BY <1>15, <1>21, <1>24, <1>27, <1>28, <1>29
<1>31. ASSUME W \in DOMAIN v
       PROVE  /\ v[W] = TermValue(Patterns(c), PortsSeen(c, q, v, l), l)
              /\ \A p \in PortsOf(l) : rank[ReadsAs(c, q, p)] < rank[W]
  <2>1. n \in DOMAIN M.val /\ PortsOf(l) \subseteq DOMAIN M.val
    BY <1>15, <1>21, <1>24, <1>27, <1>29, <1>31
  <2>2. M.val[n] = v[R] /\ M.rank[n] = rank[R]
    BY <1>21, <1>27, <2>1
  <2>3. \A p \in PortsOf(l) : M.val[p] = PortsSeen(c, q, v, l)[p]
    BY <1>27, <2>1 DEF PortsSeen
  <2>4. Suited(M.pats, M.val, l)
    BY <1>5, <2>1, ReadingSuited
  <2>5. TermValue(M.pats, M.val, l) = TermValue(M.pats, PortsSeen(c, q, v, l), l)
    BY <1>12, <2>3, <2>4, TermSame
  <2>6. v[W] = TermValue(Patterns(c), PortsSeen(c, q, v, l), l)
    BY <1>25, <1>27, <1>29, <1>31, <2>1, <2>2, <2>5
  <2>7. ASSUME NEW p \in PortsOf(l) PROVE rank[ReadsAs(c, q, p)] < rank[W]
    <3>1. M.rank[p] <= M.rank[n] /\ M.rank[p] = rank[ReadsAs(c, q, p)]
      BY <1>27, <1>29, <2>1
    <3>2. ReadsAs(c, q, p) \in DOMAIN v /\ R \in DOMAIN v
      BY <1>24, <1>30, <1>31
    <3>3. rank[ReadsAs(c, q, p)] \in Nat /\ rank[R] \in Nat /\ rank[W] \in Nat
      BY <1>24, <1>31, <3>2
    <3>. QED BY <1>24, <1>31, <2>2, <3>1, <3>3
  <2>. QED BY <2>6, <2>7
<1>. QED BY <1>11, <1>30, <1>31 DEF OutputRight

WireLike(wd, W, g, f) ==
  /\ wd[W].type = g.type /\ DOMAIN wd[W].ins = DOMAIN g.ins
  /\ \A j \in DOMAIN g.ins : wd[W].ins[j] = f[j]

WireSeen(c, wd, v, W, g, f) ==
  /\ Range(wd[W].ins) \subseteq DOMAIN v <=> \A j \in DOMAIN g.ins : f[j] \in DOMAIN v
  /\ \A j \in DOMAIN g.ins : f[j] \in Range(wd[W].ins)
  /\ WireValue(c, wd, v, W) = GateFn(c, g.type, [j \in DOMAIN g.ins |-> v[f[j]]])

LEMMA WireIs ==
  ASSUME NEW c, NEW wd, NEW W, NEW v, NEW g, NEW f, WireLike(wd, W, g, f)
  PROVE  WireSeen(c, wd, v, W, g, f)
<1>1. PICK d : d = wd[W]
  OBVIOUS
<1>2. d.type = g.type /\ DOMAIN d.ins = DOMAIN g.ins /\ \A j \in DOMAIN g.ins : d.ins[j] = f[j]
  BY <1>1 DEF WireLike
<1>3. Range(d.ins) = {d.ins[j] : j \in DOMAIN d.ins}
  BY DEF Range
<1>4. Range(d.ins) \subseteq DOMAIN v <=> \A j \in DOMAIN g.ins : f[j] \in DOMAIN v
  BY <1>2, <1>3
<1>5. \A j \in DOMAIN g.ins : f[j] \in Range(d.ins)
  BY <1>2, <1>3
<1>6. [j \in DOMAIN d.ins |-> v[d.ins[j]]] = [j \in DOMAIN g.ins |-> v[f[j]]]
  BY <1>2
<1>7. WireValue(c, wd, v, W) = GateFn(c, d.type, [j \in DOMAIN d.ins |-> v[d.ins[j]]])
  BY <1>1 DEF WireValue
<1>. QED BY <1>1, <1>2, <1>4, <1>5, <1>6, <1>7 DEF WireSeen

(* What the patched netlist makes of the original driver of net t.         *)
OldRight(c, q, v, rank, t) ==
  /\ OldAs(q, t) \in DOMAIN v <=> t \in Inputs(c) \/ \A m \in Ins(c, t) : Net(m) \in DOMAIN v
  /\ OldAs(q, t) \in DOMAIN v =>
       /\ t \in Inputs(c) => v[OldAs(q, t)] = c.pis[t]
       /\ t \in Driven(c) =>
            /\ v[OldAs(q, t)] = GateFn(c, c.gate[t].type,
                 [j \in DOMAIN c.gate[t].ins |-> v[Net(c.gate[t].ins[j])]])
            /\ \A m \in Ins(c, t) : Net(m) \in DOMAIN v /\ rank[Net(m)] < rank[OldAs(q, t)]

LEMMA InputWires ==
  ASSUME NEW c, NEW q, IsWhole(c), IsPatch(c, q), NEW t \in Inputs(c)
  PROVE  OldAs(q, t) \in DOMAIN InputValues(c, q) /\ InputValues(c, q)[OldAs(q, t)] = c.pis[t]
<1>1. t \in c.nets /\ t # 0 /\ t # 1
  BY DEF IsWhole, IsCircuit
<1>2. PICK w : w = OldAs(q, t)
  OBVIOUS
<1>3. w \in {OldAs(q, n) : n \in Inputs(c)} \union {Net(0), Net(1)}
  BY <1>2
<1>4. w[2] = t
  BY <1>2 DEF OldAs, Pre, Net
<1>5. InputValues(c, q)[w] = c.pis[t] /\ w \in DOMAIN InputValues(c, q)
  BY <1>1, <1>3, <1>4 DEF InputValues
<1>. QED BY <1>2, <1>5

LEMMA ConstWires ==
  ASSUME NEW c, NEW q, IsWhole(c), IsPatch(c, q), NEW v, NEW rank, PatchRun(c, q, v, rank),
         NEW n \in {0, 1}
  PROVE  Net(n) \in DOMAIN v /\ v[Net(n)] = Const(c, n)
<1>1. Net(n) \in DOMAIN InputValues(c, q) /\ InputValues(c, q)[Net(n)] = Const(c, n)
  BY DEF InputValues, Net
<1>. QED BY <1>1 DEF PatchRun, RunOf

LEMMA OldComputed ==
  ASSUME NEW c, NEW q, IsWhole(c), IsPatch(c, q), NEW v, NEW rank, PatchRun(c, q, v, rank),
         NEW t \in c.nets
  PROVE  OldRight(c, q, v, rank, t)
<1>1. PICK wd, W : wd = PatchedDrivers(c, q) /\ W = OldAs(q, t)
  OBVIOUS
<1>2. RunOf(c, wd, InputValues(c, q), v, rank)
  BY <1>1 DEF PatchRun
<1>3. t \in Inputs(c) \union Driven(c) /\ Inputs(c) \intersect Driven(c) = {} /\ t \in Int /\ t \notin {0, 1}
  BY DEF IsWhole, IsCircuit
<1>4. CASE t \in Inputs(c)
  <2>1. W \in DOMAIN InputValues(c, q) /\ InputValues(c, q)[W] = c.pis[t]
    BY <1>1, <1>4, InputWires
  <2>2. W \in DOMAIN v /\ v[W] = c.pis[t]
    BY <1>2, <2>1 DEF RunOf
  <2>. QED BY <1>1, <1>3, <1>4, <2>2 DEF OldRight
<1>5. CASE t \in Driven(c) /\ t \notin Inputs(c)
  <2>1. PICK g : g = c.gate[t]
    OBVIOUS
  <2>2. /\ wd[W].type = g.type /\ DOMAIN wd[W].ins = DOMAIN g.ins
        /\ \A j \in DOMAIN g.ins : wd[W].ins[j] = Net(g.ins[j])
    BY <1>1, <1>5, <2>1, PatchedWires
  <2>3. PICK f : f = [j \in DOMAIN g.ins |-> Net(g.ins[j])]
    OBVIOUS
  <2>4. \A j \in DOMAIN g.ins : wd[W].ins[j] = f[j]
    BY <2>2, <2>3
  <2>5. /\ Range(wd[W].ins) \subseteq DOMAIN v <=> \A j \in DOMAIN g.ins : f[j] \in DOMAIN v
        /\ \A j \in DOMAIN g.ins : f[j] \in Range(wd[W].ins)
        /\ WireValue(c, wd, v, W) = GateFn(c, g.type, [j \in DOMAIN g.ins |-> v[f[j]]])
    <3>1. WireLike(wd, W, g, f)
      BY ONLY <2>2, <2>4 DEF WireLike
    <3>2. WireSeen(c, wd, v, W, g, f)
      BY ONLY <3>1, WireIs
    <3>. QED BY ONLY <3>2 DEF WireSeen
  <2>6. W \in DOMAIN wd /\ W \notin DOMAIN InputValues(c, q)
    <3>1. CASE t \in Outs(q)
      BY <1>1, <1>5, <3>1, WiresThere DEF OldAs
    <3>2. CASE t \notin Outs(q)
      BY <1>1, <1>3, <1>5, <3>2, WiresThere DEF OldAs
    <3>. QED BY <3>1, <3>2
  <2>7. /\ W \in DOMAIN v <=> \A j \in DOMAIN g.ins : f[j] \in DOMAIN v
        /\ W \in DOMAIN v => /\ v[W] = GateFn(c, g.type, [j \in DOMAIN g.ins |-> v[f[j]]])
                             /\ \A j \in DOMAIN g.ins : f[j] \in DOMAIN v /\ rank[f[j]] < rank[W]
    BY <1>2, <2>5, <2>6 DEF RunOf
  <2>8. Ins(c, t) = {g.ins[j] : j \in DOMAIN g.ins}
    BY <2>1 DEF Ins
  <2>9. (\A j \in DOMAIN g.ins : f[j] \in DOMAIN v) <=> \A m \in Ins(c, t) : Net(m) \in DOMAIN v
    BY <2>3, <2>8
  <2>10. [j \in DOMAIN g.ins |-> v[f[j]]] = [j \in DOMAIN g.ins |-> v[Net(g.ins[j])]]
    BY <2>3
  <2>11. W \in DOMAIN v => \A m \in Ins(c, t) : Net(m) \in DOMAIN v /\ rank[Net(m)] < rank[W]
    BY <2>3, <2>7, <2>8
  <2>. QED BY <1>1, <1>5, <2>1, <2>7, <2>9, <2>10, <2>11 DEF OldRight
<1>. QED BY <1>3, <1>4, <1>5

-----------------------------------------------------------------------------
(* Soundness of a patch: if a claim R of the values is explained gate by   *)
(* gate and literal by literal, the patched netlist has no other values;   *)
(* and when a ranking shows that nothing waits for itself, it has these.   *)

(* R, from nets to functions, says what the patched netlist should make of *)
(* the nets: the original driver of a net without a target, and the last   *)
(* literal of a net with one, compute what R says from what R says.        *)
PortKnown(c, R, p) ==
  IF p > 0 THEN p \in DOMAIN R ELSE -p \in Inputs(c) \/ Ins(c, -p) \subseteq DOMAIN R

LitValue(c, R, l) == TermValue(Patterns(c), [p \in PortsOf(l) |-> PortValue(c, R, p)], l)

PortsFit(c, ts) ==
  \A i \in DOMAIN ts : \A p \in PortsOf(ts[i].lit) : p \in c.nets \/ -p \in TargetNets(ts)

NetExplained(c, R, n) == PortKnown(c, R, -n) => n \in DOMAIN R /\ R[n] = PortValue(c, R, -n)

LitExplained(c, R, o, l) ==
  (\A p \in PortsOf(l) : PortKnown(c, R, p)) => o \in DOMAIN R /\ R[o] = LitValue(c, R, l)

Explains(c, ts, R) ==
  /\ \A n \in {0, 1} : n \in DOMAIN R /\ R[n] = Const(c, n)
  /\ \A n \in c.nets \ TargetNets(ts) : NetExplained(c, R, n)
  /\ \A o, k : LastFor(ts, o, k) => LitExplained(c, R, o, ts[k].lit)

LEMMA OldExplained ==
  ASSUME NEW c, IsWhole(c), NEW q, NEW v, NEW rank, NEW t \in c.nets, OldRight(c, q, v, rank, t),
         OldAs(q, t) \in DOMAIN v, NEW R,
         t \in Driven(c) => \A m \in Ins(c, t) : m \in DOMAIN R /\ v[Net(m)] = R[m]
  PROVE  PortKnown(c, R, -t) /\ v[OldAs(q, t)] = PortValue(c, R, -t)
<1>1. /\ t \in Inputs(c) \union Driven(c) /\ Inputs(c) \intersect Driven(c) = {} /\ t \in Int
      /\ ~(-t > 0) /\ - (-t) = t
  BY DEF IsWhole, IsCircuit
<1>2. CASE t \in Inputs(c)
  BY <1>1, <1>2 DEF OldRight, PortKnown, PortValue
<1>3. CASE t \in Driven(c)
  <2>1. Ins(c, t) \subseteq DOMAIN R /\ t \notin Inputs(c)
    BY <1>1, <1>3
  <2>2. PICK g : g = c.gate[t]
    OBVIOUS
  <2>3. \A j \in DOMAIN g.ins : g.ins[j] \in Ins(c, t) /\ v[Net(g.ins[j])] = R[g.ins[j]]
    BY <1>3, <2>2 DEF Ins
  <2>4. [j \in DOMAIN g.ins |-> v[Net(g.ins[j])]] = [j \in DOMAIN g.ins |-> R[g.ins[j]]]
    BY <2>3
  <2>5. v[OldAs(q, t)] = GateFn(c, g.type, [j \in DOMAIN g.ins |-> v[Net(g.ins[j])]])
    BY <1>3, <2>2 DEF OldRight
  <2>6. PortValue(c, R, -t) = GateFn(c, g.type, [j \in DOMAIN g.ins |-> R[g.ins[j]]])
    BY <1>1, <2>1, <2>2 DEF PortValue
  <2>. QED BY <1>1, <2>1, <2>4, <2>5, <2>6 DEF PortKnown
<1>. QED BY <1>1, <1>2, <1>3

Kept(v, R, n) == Net(n) \in DOMAIN v => n \in DOMAIN R /\ v[Net(n)] = R[n]

(* If the nets with a lower rank are as R says, so is this one.            *)
LEMMA NetKept ==
  ASSUME NEW c, NEW ts, NEW q, Patching(c, ts, q), PortsFit(c, ts),
         NEW v, NEW rank, PatchRun(c, q, v, rank), NEW R, Explains(c, ts, R),
         NEW n \in c.nets, Net(n) \in DOMAIN v,
         \A m \in c.nets : Net(m) \in DOMAIN v /\ rank[Net(m)] < rank[Net(n)] => Kept(v, R, m)
  PROVE  Kept(v, R, n)
<1>1. /\ IsWhole(c) /\ Fresh(c) /\ IsTargets(c, ts) /\ IsPatch(c, q) /\ Outs(q) = TargetNets(ts)
  BY DEF Patching
<1>2. /\ c.nets \subseteq Nat /\ c.nets \subseteq Nat \ {0, 1} /\ 0 \notin c.nets /\ 1 \notin c.nets
      /\ \A m \in Driven(c) : Ins(c, m) \subseteq c.nets \union {0, 1}
      /\ Inputs(c) \subseteq c.nets /\ Driven(c) \subseteq c.nets
  BY <1>1 DEF Fresh, IsWhole, IsCircuit
<1>3. rank \in [DOMAIN v -> Nat]
  BY DEF PatchRun, RunOf
<1>4. \A m \in {0, 1} : Net(m) \in DOMAIN v /\ v[Net(m)] = Const(c, m) /\ m \in DOMAIN R /\ R[m] = Const(c, m)
  BY <1>1, ConstWires DEF Explains
<1>5. \A t \in c.nets : OldRight(c, q, v, rank, t)
  BY <1>1, OldComputed
<1>6. ASSUME NEW t \in c.nets, OldAs(q, t) \in DOMAIN v,
             OldAs(q, t) = Net(n) \/ rank[OldAs(q, t)] < rank[Net(n)]
      PROVE  PortKnown(c, R, -t) /\ v[OldAs(q, t)] = PortValue(c, R, -t)
  <2>1. ASSUME t \in Driven(c), NEW m \in Ins(c, t) PROVE m \in DOMAIN R /\ v[Net(m)] = R[m]
    <3>1. CASE m \in {0, 1}
      BY <1>4, <3>1
    <3>2. CASE m \in c.nets
      <4>1. Net(m) \in DOMAIN v /\ rank[Net(m)] < rank[OldAs(q, t)]
        BY <1>5, <1>6, <2>1 DEF OldRight
      <4>2. rank[Net(m)] \in Nat /\ rank[OldAs(q, t)] \in Nat /\ rank[Net(n)] \in Nat
        BY <1>3, <1>6, <4>1
      <4>3. rank[Net(m)] < rank[Net(n)]
        BY <1>6, <4>1, <4>2
      <4>. QED BY <3>2, <4>1, <4>3 DEF Kept
    <3>. QED BY <1>2, <2>1, <3>1, <3>2
  <2>2. t \in Driven(c) => \A m \in Ins(c, t) : m \in DOMAIN R /\ v[Net(m)] = R[m]
    BY <2>1
  <2>3. OldRight(c, q, v, rank, t) /\ OldAs(q, t) \in DOMAIN v
    BY <1>5, <1>6
  <2>. QED BY <1>1, <2>2, <2>3, OldExplained
<1>7. CASE n \notin TargetNets(ts)
  <2>1. OldAs(q, n) = Net(n)
    BY <1>1, <1>7 DEF OldAs
  <2>2. PortKnown(c, R, -n) /\ v[Net(n)] = PortValue(c, R, -n)
    BY <1>6, <2>1
  <2>3. n \in DOMAIN R /\ R[n] = PortValue(c, R, -n)
    BY <1>7, <2>2 DEF Explains, NetExplained
  <2>. QED BY <2>2, <2>3 DEF Kept
<1>8. CASE n \in TargetNets(ts)
  <2>1. PICK k : LastFor(ts, n, k)
    BY <1>1, <1>2, <1>8, LastExists
  <2>2. PICK l : l = ts[k].lit
    OBVIOUS
  <2>3. OutputRight(c, q, v, rank, n, l)
    <3>1. OutputRight(c, q, v, rank, n, ts[k].lit)
      BY ONLY Patching(c, ts, q), PatchRun(c, q, v, rank), <2>1, OutputComputed
    <3>. QED BY <2>2, <3>1
  <2>4. /\ \A p \in PortsOf(l) : ReadsAs(c, q, p) \in DOMAIN v /\ rank[ReadsAs(c, q, p)] < rank[Net(n)]
        /\ v[Net(n)] = TermValue(Patterns(c), PortsSeen(c, q, v, l), l)
    BY <2>3 DEF OutputRight
  <2>5. \A p \in PortsOf(l) : p \in c.nets \/ -p \in TargetNets(ts)
    BY <2>1, <2>2 DEF PortsFit, LastFor
  <2>6. k \in DOMAIN ts /\ l \in Lits /\ PortsOf(l) \subseteq Int
    <3>1. k \in DOMAIN ts
      BY <2>1 DEF LastFor
    <3>2. l \in Plain
      BY <1>1, <2>2, <3>1, TargetsFields
    <3>3. l \in Lits
      BY <3>2, PlainIs
    <3>. QED BY <3>1, <3>3, PortsAre
  <2>7. ASSUME NEW p \in PortsOf(l)
        PROVE  PortKnown(c, R, p) /\ v[ReadsAs(c, q, p)] = PortValue(c, R, p)
    <3>1. p \in Int /\ ReadsAs(c, q, p) \in DOMAIN v /\ rank[ReadsAs(c, q, p)] < rank[Net(n)]
      BY <2>4, <2>6, <2>7
    <3>2. CASE p \in c.nets
      <4>1. p > 0 /\ ReadsAs(c, q, p) = Net(p)
        BY <1>2, <3>1, <3>2 DEF ReadsAs
      <4>2. p \in DOMAIN R /\ v[Net(p)] = R[p]
        BY <3>1, <3>2, <4>1 DEF Kept
      <4>. QED BY <4>1, <4>2 DEF PortKnown, PortValue
    <3>3. CASE -p \in TargetNets(ts)
      <4>1. PICK t : t = -p
        OBVIOUS
      <4>2. t \in Outs(q) /\ t \in c.nets /\ p = -t /\ p < 0
        <5>1. t \in Outs(q) /\ t \in c.nets
          BY <1>1, <3>3, <4>1, EvalNamesIs
        <5>. QED BY <1>2, <3>1, <4>1, <5>1
      <4>3. ReadsAs(c, q, p) = Pre(t) /\ OldAs(q, t) = Pre(t)
        BY <4>1, <4>2 DEF ReadsAs, OldAs
      <4>4. PortKnown(c, R, -t) /\ v[OldAs(q, t)] = PortValue(c, R, -t)
        BY <1>6, <3>1, <4>2, <4>3
      <4>. QED BY <4>2, <4>3, <4>4
    <3>. QED BY <2>5, <2>7, <3>2, <3>3
  <2>8. PortsSeen(c, q, v, l) = [p \in PortsOf(l) |-> PortValue(c, R, p)]
    BY <2>7 DEF PortsSeen
  <2>9. v[Net(n)] = LitValue(c, R, l)
    BY <2>4, <2>8 DEF LitValue
  <2>10. LitExplained(c, R, n, l)
    BY <2>1, <2>2 DEF Explains
  <2>11. n \in DOMAIN R /\ R[n] = LitValue(c, R, l)
    BY <2>7, <2>10 DEF LitExplained
  <2>. QED BY <2>9, <2>11 DEF Kept
<1>. QED BY <1>7, <1>8

LEMMA LeastRanked ==
  ASSUME NEW D, NEW rank \in [D -> Nat], NEW X, X \subseteq D, X # {}
  PROVE  \E w \in X : \A x \in X : rank[w] <= rank[x]
<1>1. PICK T : T = {rank[w] : w \in X}
  OBVIOUS
<1>2. T \subseteq Nat /\ T # {}
  BY <1>1
<1>3. PICK m \in T : \A k \in T : m <= k
  BY <1>2, Smallest
<1>4. PICK w \in X : rank[w] = m
  BY <1>1
<1>. QED BY <1>1, <1>3, <1>4

(* Whatever the patched netlist computes is as R says.                     *)
LEMMA PatchedSound ==
  ASSUME NEW c, NEW ts, NEW q, Patching(c, ts, q), PortsFit(c, ts),
         NEW v, NEW rank, PatchRun(c, q, v, rank), NEW R, Explains(c, ts, R)
  PROVE  \A n \in c.nets : Kept(v, R, n)
<1>1. SUFFICES ASSUME NEW x \in c.nets, ~Kept(v, R, x) PROVE FALSE
  OBVIOUS
<1>2. rank \in [DOMAIN v -> Nat]
  BY DEF PatchRun, RunOf
<1>3. PICK X : X = {Net(n) : n \in {m \in c.nets : ~Kept(v, R, m)}}
  OBVIOUS
<1>4. X \subseteq DOMAIN v /\ X # {}
  BY <1>1, <1>3 DEF Kept
<1>5. PICK w \in X : \A y \in X : rank[w] <= rank[y]
  BY ONLY <1>2, <1>4, LeastRanked
<1>6. PICK n \in c.nets : w = Net(n) /\ ~Kept(v, R, n)
  BY <1>3
<1>7. Net(n) \in DOMAIN v
  BY <1>6 DEF Kept
<1>8. ASSUME NEW m \in c.nets, Net(m) \in DOMAIN v, rank[Net(m)] < rank[Net(n)]
      PROVE  Kept(v, R, m)
  <2>1. SUFFICES ASSUME ~Kept(v, R, m) PROVE FALSE
    OBVIOUS
  <2>2. rank[Net(n)] <= rank[Net(m)]
    BY <1>3, <1>5, <1>6, <2>1
  <2>3. rank[Net(n)] \in Nat /\ rank[Net(m)] \in Nat
    BY <1>2, <1>7, <1>8
  <2>. QED BY <1>8, <2>2, <2>3
<1>9. \A m \in c.nets : Net(m) \in DOMAIN v /\ rank[Net(m)] < rank[Net(n)] => Kept(v, R, m)
  BY <1>8
<1>10. Kept(v, R, n)
  BY <1>7, <1>9, NetKept
<1>. QED BY <1>6, <1>10

(* The nets of S depend on each other along h: an output of the patch on   *)
(* the ports of its last literal, other nets on what their drivers read.   *)
Below(c, S, h, t, b) ==
  t \in Inputs(c) \/ \A m \in Ins(c, t) \ {0, 1} : m \in S /\ h[m] < b

Grounded(c, ts, S, h) ==
  /\ S \subseteq c.nets /\ h \in [S -> Nat]
  /\ \A n \in S \ TargetNets(ts) : Below(c, S, h, n, h[n])
  /\ \A n \in S, k \in DOMAIN ts : LastFor(ts, n, k) => \A p \in PortsOf(ts[k].lit) :
       \/ p \in S /\ h[p] < h[n]
       \/ -p \in TargetNets(ts) /\ Below(c, S, h, -p, h[n])

(* These nets have a value in the patched netlist.                         *)
LEMMA PatchedDefined ==
  ASSUME NEW c, NEW ts, NEW q, Patching(c, ts, q),
         NEW v, NEW rank, PatchRun(c, q, v, rank), NEW S, NEW h, Grounded(c, ts, S, h)
  PROVE  \A n \in S : Net(n) \in DOMAIN v
<1>1. SUFFICES ASSUME NEW x \in S, Net(x) \notin DOMAIN v PROVE FALSE
  OBVIOUS
<1>2. /\ IsWhole(c) /\ Fresh(c) /\ IsTargets(c, ts) /\ IsPatch(c, q) /\ Outs(q) = TargetNets(ts)
  BY DEF Patching
<1>3. /\ c.nets \subseteq Nat /\ c.nets \subseteq Nat \ {0, 1} /\ 0 \notin c.nets /\ 1 \notin c.nets
      /\ \A m \in Driven(c) : Ins(c, m) \subseteq c.nets \union {0, 1}
      /\ Inputs(c) \subseteq c.nets /\ Driven(c) \subseteq c.nets
  BY <1>2 DEF Fresh, IsWhole, IsCircuit
<1>4. S \subseteq c.nets /\ h \in [S -> Nat]
  BY DEF Grounded
<1>5. PICK X : X = {n \in S : Net(n) \notin DOMAIN v}
  OBVIOUS
<1>6. X \subseteq S /\ X # {}
  BY <1>1, <1>5
<1>7. PICK n \in X : \A y \in X : h[n] <= h[y]
  BY ONLY <1>4, <1>6, LeastRanked
<1>8. n \in S /\ n \in c.nets /\ Net(n) \notin DOMAIN v /\ h[n] \in Nat
  BY <1>4, <1>5, <1>7
<1>9. ASSUME NEW m \in S, h[m] < h[n] PROVE Net(m) \in DOMAIN v
  <2>1. h[m] \in Nat
    BY <1>4
  <2>. QED BY <1>5, <1>7, <1>8, <1>9, <2>1
<1>10. \A m \in {0, 1} : Net(m) \in DOMAIN v
  BY <1>2, ConstWires
<1>11. ASSUME NEW t \in c.nets, Below(c, S, h, t, h[n]) PROVE OldAs(q, t) \in DOMAIN v
  <2>1. OldRight(c, q, v, rank, t)
    BY <1>2, OldComputed
  <2>2. t \in Inputs(c) \/ \A m \in Ins(c, t) : Net(m) \in DOMAIN v
    BY <1>9, <1>10, <1>11 DEF Below
  <2>. QED BY <2>1, <2>2 DEF OldRight
<1>12. CASE n \notin TargetNets(ts)
  <2>1. OldAs(q, n) = Net(n) /\ Below(c, S, h, n, h[n])
    BY <1>2, <1>8, <1>12 DEF OldAs, Grounded
  <2>. QED BY <1>8, <1>11, <2>1
<1>13. CASE n \in TargetNets(ts)
  <2>1. PICK k : LastFor(ts, n, k)
    BY <1>2, <1>3, <1>13, LastExists
  <2>2. PICK l : l = ts[k].lit
    OBVIOUS
  <2>3. OutputRight(c, q, v, rank, n, l)
    <3>1. OutputRight(c, q, v, rank, n, ts[k].lit)
      BY ONLY Patching(c, ts, q), PatchRun(c, q, v, rank), <2>1, OutputComputed
    <3>. QED BY <2>2, <3>1
  <2>4. k \in DOMAIN ts /\ PortsOf(l) \subseteq Int
    <3>1. k \in DOMAIN ts
      BY <2>1 DEF LastFor
    <3>2. l \in Plain
      BY <1>2, <2>2, <3>1, TargetsFields
    <3>3. l \in Lits
      BY <3>2, PlainIs
    <3>. QED BY <3>1, <3>3, PortsAre
  <2>5. \A p \in PortsOf(l) : \/ p \in S /\ h[p] < h[n]
                              \/ -p \in TargetNets(ts) /\ Below(c, S, h, -p, h[n])
    BY <1>8, <2>1, <2>2, <2>4 DEF Grounded
  <2>6. ASSUME NEW p \in PortsOf(l) PROVE ReadsAs(c, q, p) \in DOMAIN v
    <3>1. p \in Int
      BY <2>4, <2>6
    <3>2. CASE p \in S /\ h[p] < h[n]
      <4>1. p \in c.nets /\ p > 0
        BY <1>3, <1>4, <3>1, <3>2
      <4>2. ReadsAs(c, q, p) = Net(p)
        BY <3>1, <4>1 DEF ReadsAs
      <4>. QED BY <1>9, <3>2, <4>2
    <3>3. CASE -p \in TargetNets(ts) /\ Below(c, S, h, -p, h[n])
      <4>1. PICK t : t = -p
        OBVIOUS
      <4>2. t \in Outs(q) /\ t \in c.nets /\ p = -t /\ p < 0
        <5>1. t \in Outs(q) /\ t \in c.nets
          BY <1>2, <3>3, <4>1, EvalNamesIs
        <5>. QED BY <1>3, <3>1, <4>1, <5>1
      <4>3. ReadsAs(c, q, p) = Pre(t) /\ OldAs(q, t) = Pre(t)
        BY <4>1, <4>2 DEF ReadsAs, OldAs
      <4>. QED BY <1>11, <3>3, <4>1, <4>2, <4>3
    <3>. QED BY <2>5, <2>6, <3>2, <3>3
  <2>. QED BY <1>8, <2>3, <2>6 DEF OutputRight
<1>. QED BY <1>12, <1>13

LEMMA CandidatePatching ==
  ASSUME NEW c, IsWhole(c), Fresh(c), NEW ts, IsTargets(c, ts), PortsFit(c, ts), ts # <<>>,
         NEW q, q = CandidatePatch(c, ts)
  PROVE  Patching(c, ts, q)
<1>1. c.nets \subseteq Nat /\ WireBase \in Nat /\ \A n \in c.nets : n < WireBase /\ n > 0
  BY DEF Fresh
<1>2. \A i \in DOMAIN ts : ts[i].out \in c.nets /\ ts[i].lit \in Plain
  BY TargetsFields
<1>3. ASSUME NEW i \in DOMAIN ts, NEW p \in PortsOf(ts[i].lit) PROVE p < WireBase
  <2>1. p \in Int
    BY <1>2, <1>3, PlainIs, PortsAre
  <2>2. p \in c.nets \/ -p \in TargetNets(ts)
    BY <1>3 DEF PortsFit
  <2>3. CASE p \in c.nets
    BY <1>1, <2>3
  <2>4. CASE -p \in TargetNets(ts)
    <3>1. -p \in c.nets
      BY <1>2, <2>4 DEF TargetNets
    <3>2. -p > 0
      BY <1>1, <3>1
    <3>. QED BY <1>1, <2>1, <3>2
  <2>. QED BY <2>2, <2>3, <2>4
<1>4. LowPorts(ts)
  BY <1>3 DEF LowPorts
<1>5. /\ WireBase > 1 /\ \E at : Shaped(ts, at, q.gates) /\ \A M : Followed(M, ts, at, q.gates)
  BY ONLY <1>4, IsTargets(c, ts), Fresh(c), ts # <<>>, q = CandidatePatch(c, ts), CandidateShaped
<1>6. WiresTyped(c)
  BY FreshTyped
<1>7. IsPatch(c, q) /\ Outs(q) = TargetNets(ts)
  BY <1>1, <1>6, CandidateTidy
<1>. QED BY <1>5, <1>7 DEF Patching

LEMMA CandidateSound ==
  ASSUME NEW c, IsWhole(c), Fresh(c), NEW ts, IsTargets(c, ts), PortsFit(c, ts), ts # <<>>,
         NEW v, v = EvalPatched(c, CandidatePatch(c, ts)), NEW R, Explains(c, ts, R)
  PROVE  \A n \in c.nets : Kept(v, R, n)
<1>1. PICK q : q = CandidatePatch(c, ts)
  OBVIOUS
<1>2. Patching(c, ts, q)
  BY <1>1, CandidatePatching
<1>3. v = EvalPatched(c, q) /\ IsWhole(c) /\ IsPatch(c, q)
  BY <1>1, <1>2 DEF Patching
<1>4. PICK rank : PatchRun(c, q, v, rank)
  BY <1>3, PatchRuns
<1>. QED BY <1>2, <1>4, PatchedSound

LEMMA CandidateDefined ==
  ASSUME NEW c, IsWhole(c), Fresh(c), NEW ts, IsTargets(c, ts), PortsFit(c, ts), ts # <<>>,
         NEW v, v = EvalPatched(c, CandidatePatch(c, ts)), NEW S, NEW h, Grounded(c, ts, S, h)
  PROVE  \A n \in S : Net(n) \in DOMAIN v
<1>1. PICK q : q = CandidatePatch(c, ts)
  OBVIOUS
<1>2. Patching(c, ts, q)
  BY <1>1, CandidatePatching
<1>3. v = EvalPatched(c, q) /\ IsWhole(c) /\ IsPatch(c, q)
  BY <1>1, <1>2 DEF Patching
<1>4. PICK rank : PatchRun(c, q, v, rank)
  BY <1>3, PatchRuns
<1>. QED BY <1>2, <1>4, PatchedDefined

LEMMA LitMeant ==
  ASSUME NEW c, NEW R, NEW P, NEW has, \A p \in P : has[p] = PortValue(c, R, p),
         NEW l, NEW X, Means(Patterns(c), has, P, l, X)
  PROVE  LitValue(c, R, l) = X
<1>1. /\ l \in Lits /\ PortsOf(l) \subseteq P /\ Suited(Patterns(c), has, l)
      /\ TermValue(Patterns(c), has, l) = X
  BY MeansSuited DEF Means
<1>2. PICK w : w = [p \in PortsOf(l) |-> PortValue(c, R, p)]
  OBVIOUS
<1>3. \A p \in PortsOf(l) : has[p] = w[p]
  BY <1>1, <1>2
<1>4. TermValue(Patterns(c), has, l) = TermValue(Patterns(c), w, l)
  BY <1>1, <1>3, TermSame
<1>. QED BY <1>1, <1>2, <1>4 DEF LitValue

(* The ports that buildVar may use, and what they carry under R.           *)
UsablePorts(c, ctx) ==
  {Usable(c, ctx, n) : n \in {m \in c.nets \intersect DOMAIN ctx.nets : Usable(c, ctx, m) # NoNet}}
    \union DOMAIN ctx.lazy

PortsUnder(c, R, P) == [p \in P |-> PortValue(c, R, p)]

CarriedBy(c, ctx, R) ==
  /\ \A n \in c.nets \intersect DOMAIN ctx.nets : Usable(c, ctx, n) # NoNet =>
       /\ ctx.nets[n] \in Lits /\ Value(c, ctx.nets[n]) \subseteq Patterns(c)
       /\ PortValue(c, R, Usable(c, ctx, n)) = Value(c, ctx.nets[n])
  /\ \A n \in DOMAIN ctx.lazy : R[n] = ctx.lazy[n] /\ ctx.lazy[n] \subseteq Patterns(c)

LEMMA UsableIs ==
  ASSUME NEW c, NEW ctx, NEW n, Usable(c, ctx, n) # NoNet
  PROVE  \/ Usable(c, ctx, n) = n /\ n \notin ctx.outs \union ctx.changed
         \/ Usable(c, ctx, n) = -n /\ n \in ctx.outs /\ InSafe(c, n, ctx.changed)
BY DEF Usable

LEMMA UnderMeant ==
  ASSUME NEW c, c.nets \subseteq Nat, 0 \notin c.nets, NEW ctx, Choosing(c, ctx), NEW R, CarriedBy(c, ctx, R)
  PROVE  Meant(c, ctx, UsablePorts(c, ctx), PortsUnder(c, R, UsablePorts(c, ctx)))
<1>1. PICK P, has : P = UsablePorts(c, ctx) /\ has = PortsUnder(c, R, P)
  OBVIOUS
<1>2. \A p \in P : has[p] = PortValue(c, R, p)
  BY <1>1 DEF PortsUnder
<1>3. DOMAIN ctx.lazy \subseteq c.nets
  BY DEF Choosing
<1>4. ASSUME NEW n \in c.nets \intersect DOMAIN ctx.nets, Usable(c, ctx, n) # NoNet
      PROVE  /\ Usable(c, ctx, n) \in P /\ Usable(c, ctx, n) \in Int /\ ctx.nets[n] \in Lits
             /\ has[Usable(c, ctx, n)] = Value(c, ctx.nets[n])
             /\ has[Usable(c, ctx, n)] \subseteq Patterns(c)
  <2>1. Usable(c, ctx, n) \in P
    BY <1>1, <1>4 DEF UsablePorts
  <2>2. Usable(c, ctx, n) \in {n, -n} /\ n \in Int
    BY <1>4, UsableIs
  <2>3. Usable(c, ctx, n) \in Int
    BY <2>2
  <2>. QED BY <1>2, <1>4, <2>1, <2>3 DEF CarriedBy
<1>5. ASSUME NEW n \in DOMAIN ctx.lazy
      PROVE  n \in P /\ n \in Int /\ has[n] = ctx.lazy[n] /\ has[n] \subseteq Patterns(c)
  <2>1. n \in P /\ n \in Nat /\ n # 0
    BY <1>1, <1>3, <1>5 DEF UsablePorts
  <2>2. n > 0
    BY <2>1
  <2>3. has[n] = R[n]
    BY <1>2, <2>1, <2>2 DEF PortValue
  <2>. QED BY <1>5, <2>1, <2>3 DEF CarriedBy
<1>6. \A p \in P : p \in Int /\ has[p] \subseteq Patterns(c)
  <2>1. SUFFICES ASSUME NEW p \in P PROVE p \in Int /\ has[p] \subseteq Patterns(c)
    OBVIOUS
  <2>2. CASE p \in DOMAIN ctx.lazy
    BY <1>5, <2>2
  <2>3. CASE \E n \in c.nets \intersect DOMAIN ctx.nets : Usable(c, ctx, n) # NoNet /\ p = Usable(c, ctx, n)
    BY <1>4, <2>3
  <2>. QED BY <1>1, <2>1, <2>2, <2>3 DEF UsablePorts
<1>7. Meant(c, ctx, P, has)
  <2>1. P \subseteq Int /\ \A p \in P : has[p] \subseteq Patterns(c)
    BY <1>6
  <2>. QED BY <1>4, <1>5, <2>1 DEF Meant
<1>. QED BY <1>1, <1>7

(* What is built for a specification means it, wherever R is as the        *)
(* registry has it.                                                        *)
SpecMeant(c, ctx, R, ts, spec) ==
  \A i \in DOMAIN ts :
    /\ LitValue(c, R, ts[i].lit) = Value(c, spec[ts[i].out])
    /\ \A p \in PortsOf(ts[i].lit) :
         \/ p \in c.nets /\ (p \notin ctx.outs \union ctx.changed \/ p \in DOMAIN ctx.lazy)
         \/ p \in Int /\ -p \in ctx.outs \intersect c.nets /\ InSafe(c, -p, ctx.changed)

LEMMA BuiltMeant ==
  ASSUME NEW c, c.nets \subseteq Nat, 0 \notin c.nets, NEW ctx, Choosing(c, ctx),
         NEW R, CarriedBy(c, ctx, R),
         NEW spec, \A n \in DOMAIN spec : Valued(c, spec[n]), NEW ts, BuiltFor(c, ctx, spec, ts)
  PROVE  SpecMeant(c, ctx, R, ts, spec)
<1>1. PICK P, has : P = UsablePorts(c, ctx) /\ has = PortsUnder(c, R, P)
  OBVIOUS
<1>2. Meant(c, ctx, P, has)
  BY <1>1, UnderMeant
<1>3. \A p \in P : has[p] = PortValue(c, R, p)
  BY <1>1 DEF PortsUnder
<1>4. SUFFICES ASSUME NEW i \in DOMAIN ts
               PROVE  /\ LitValue(c, R, ts[i].lit) = Value(c, spec[ts[i].out])
                      /\ \A p \in PortsOf(ts[i].lit) :
                           \/ p \in c.nets /\ (p \notin ctx.outs \union ctx.changed \/ p \in DOMAIN ctx.lazy)
                           \/ p \in Int /\ -p \in ctx.outs \intersect c.nets /\ InSafe(c, -p, ctx.changed)
  BY DEF SpecMeant
<1>5. PICK o, l : o = ts[i].out /\ l = spec[o]
  OBVIOUS
<1>6. ts[i].lit = Build(c, ctx, l) /\ ts[i].lit # NoLit
  BY <1>4, <1>5 DEF BuiltFor
<1>7. o \in DOMAIN spec
  <2>1. ts # <<>>
    BY <1>4
  <2>. QED BY <1>4, <1>5, <2>1 DEF BuiltFor, TargetNets
<1>8. Means(Patterns(c), has, P, Build(c, ctx, l), Value(c, l))
  BY <1>2, <1>5, <1>6, <1>7, BuildMeans
<1>9. LitValue(c, R, ts[i].lit) = Value(c, l)
  BY <1>3, <1>6, <1>8, LitMeant
<1>10. PortsOf(ts[i].lit) \subseteq P
  BY <1>6, <1>8 DEF Means
<1>11. ASSUME NEW p \in P
       PROVE  \/ p \in c.nets /\ (p \notin ctx.outs \union ctx.changed \/ p \in DOMAIN ctx.lazy)
              \/ p \in Int /\ -p \in ctx.outs \intersect c.nets /\ InSafe(c, -p, ctx.changed)
  <2>1. CASE p \in DOMAIN ctx.lazy
    BY <2>1 DEF Choosing
  <2>2. CASE \E n \in c.nets \intersect DOMAIN ctx.nets : Usable(c, ctx, n) # NoNet /\ p = Usable(c, ctx, n)
    <3>1. PICK n \in c.nets \intersect DOMAIN ctx.nets : Usable(c, ctx, n) # NoNet /\ p = Usable(c, ctx, n)
      BY <2>2
    <3>2. \/ p = n /\ n \notin ctx.outs \union ctx.changed
          \/ p = -n /\ n \in ctx.outs /\ InSafe(c, n, ctx.changed)
      BY <3>1, UsableIs
    <3>3. n \in Int /\ (p = -n => p \in Int /\ -p = n)
      BY <3>1
    <3>. QED BY <3>1, <3>2, <3>3
  <2>. QED BY <1>1, <1>11, <2>1, <2>2 DEF UsablePorts
<1>. QED BY <1>5, <1>9, <1>10, <1>11
=============================================================================
