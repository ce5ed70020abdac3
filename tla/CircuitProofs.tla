--------------------------- MODULE CircuitProofs ---------------------------
(***************************************************************************)
(* Functions defined by recursion over natural numbers: in the modules     *)
(* proved about, a value is always computed from values of smaller         *)
(* indices, or by steps that are counted. Such a definition has a          *)
(* solution, so that what it chooses is one; what it computes is then      *)
(* proved for the smallest index that would violate it. AigSatProofs and   *)
(* SweepProofs take only this part.                                        *)
(*                                                                         *)
(* Then what the operators of Circuit compute: the worklist ends with no   *)
(* net left to evaluate, every value it gave is what its net computes from *)
(* values given before, such values are the only ones, and a closure is    *)
(* the smallest set that has its start and is closed. From this: what a    *)
(* cofactor says of the circuit with new patches in it, and what           *)
(* noPresCheck computes.                                                   *)
(***************************************************************************)
EXTENDS Circuit, FiniteSetTheorems, WellFoundedInduction, TLAPS

(* Every nonempty set of natural numbers has a smallest element.           *)
LEMMA Smallest ==
  ASSUME NEW T, T \subseteq Nat, T # {}
  PROVE  \E x \in T : \A y \in T : x <= y
<1>. DEFINE R == {ss \in Nat \X Nat : ss[1] < ss[2]}
<1>1. IsWellFoundedOn(R, Nat)
  BY NatLessThanWellFounded DEF OpToRel
<1>2. PICK x \in T : \A y \in T : ~(<<y, x>> \in R)
  <2>. HIDE DEF R
  <2>. QED BY <1>1, WFMin
<1>3. \A y \in T : ~(y < x)
  BY <1>2
<1>. QED BY <1>3

(* H[v] gives the value in V of an index v, all of which are below n, from *)
(* the values of smaller indices.                                          *)
Recursive(H, D, V, n) ==
  /\ n \in Nat /\ D \subseteq Nat /\ \A v \in D : v < n
  /\ V # {} /\ H \in [D -> [[D -> V] -> V]]
  /\ \A v \in D, f, g \in [D -> V] :
       (\A u \in D : u < v => f[u] = g[u]) => H[v][f] = H[v][g]

LEMMA RecursionSolved ==
  ASSUME NEW H, NEW D, NEW V, NEW n, Recursive(H, D, V, n)
  PROVE  \E f \in [D -> V] : \A v \in D : f[v] = H[v][f]
<1>. DEFINE P(j) == \E f \in [D -> V] : \A v \in D : v < j => f[v] = H[v][f]
            T == {j \in Nat : ~P(j)}
<1>. n \in Nat /\ D \subseteq Nat /\ (\A v \in D : v < n) /\ V # {}
  BY DEF Recursive
<1>1. SUFFICES ASSUME T # {} PROVE FALSE
  <2>1. P(n)
    BY <1>1
  <2>. QED BY <2>1
<1>2. PICK m \in T : \A j \in T : m <= j
  <2>1. T \subseteq Nat OBVIOUS
  <2>. HIDE DEF T
  <2>. QED BY <1>1, <2>1, Smallest
<1>3. m \in Nat /\ ~P(m)
  OBVIOUS
<1>4. m # 0
  <2>1. PICK c \in V : TRUE
    OBVIOUS
  <2>2. [v \in D |-> c] \in [D -> V]
    BY <2>1
  <2>3. \A v \in D : ~(v < 0)
    BY ONLY D \subseteq Nat
  <2>4. P(0)
    BY <2>2, <2>3
  <2>. QED BY <1>3, <2>4
<1>5. PICK f \in [D -> V] : \A v \in D : v < m - 1 => f[v] = H[v][f]
  <2>1. m - 1 \in Nat /\ ~(m <= m - 1)
    BY <1>3, <1>4
  <2>2. P(m - 1)
    BY <1>2, <2>1
  <2>. QED BY <2>2
<1>. DEFINE g == [v \in D |-> IF v < m - 1 THEN f[v] ELSE H[v][f]]
<1>6. g \in [D -> V] /\ \A v \in D : g[v] = IF v < m - 1 THEN f[v] ELSE H[v][f]
  BY DEF Recursive
<1>. HIDE DEF g
<1>7. ASSUME NEW v \in D, v < m PROVE g[v] = H[v][g]
  <2>1. \A u \in D : u < v => f[u] = g[u]
    BY <1>3, <1>6, <1>7
  <2>2. H[v][f] = H[v][g]
    BY <1>6, <2>1 DEF Recursive
  <2>3. g[v] = H[v][f]
    BY <1>5, <1>6
  <2>. QED BY <2>2, <2>3
<1>. QED BY <1>3, <1>6, <1>7

(* f[0], f[1], ..., f[N]: G applied again and again, to x.                  *)
IsIteration(f, x, G, V, N) ==
  /\ N \in Nat /\ x \in V /\ G \in [V -> V]
  /\ f \in [0 .. N -> V] /\ f[0] = x /\ \A i \in 1 .. N : f[i] = G[f[i - 1]]

LEMMA IterationExists ==
  ASSUME NEW V, NEW x \in V, NEW G \in [V -> V], NEW N \in Nat
  PROVE  \E f : IsIteration(f, x, G, V, N)
<1>. DEFINE D == 0 .. N
            at(f, i) == IF i = 0 THEN x ELSE G[f[i - 1]]
            H == [i \in D |-> [f \in [D -> V] |-> at(f, i)]]
<1>1. Recursive(H, D, V, N + 1)
  <2>1. ASSUME NEW i \in D, NEW f \in [D -> V] PROVE at(f, i) \in V
    <3>1. CASE i = 0
      BY <3>1
    <3>2. CASE i # 0
      <4>1. i - 1 \in D
        BY <3>2
      <4>. QED BY <3>2, <4>1
    <3>. QED BY <3>1, <3>2
  <2>2. ASSUME NEW i \in D, NEW f \in [D -> V], NEW g \in [D -> V],
               \A j \in D : j < i => f[j] = g[j]
        PROVE  at(f, i) = at(g, i)
    <3>1. CASE i # 0
      <4>1. i - 1 \in D /\ i - 1 < i
        BY <3>1
      <4>. QED BY <2>2, <3>1, <4>1
    <3>2. CASE i = 0
      BY <3>2
    <3>. QED BY <3>1, <3>2
  <2>3. D \subseteq Nat /\ (\A i \in D : i < N + 1) /\ N + 1 \in Nat /\ V # {}
    OBVIOUS
  <2>. HIDE DEF D, at
  <2>. QED BY <2>1, <2>2, <2>3 DEF Recursive
<1>2. PICK f \in [D -> V] : \A i \in D : f[i] = H[i][f]
  <2>. HIDE DEF D, H
  <2>. QED BY <1>1, RecursionSolved
<1>3. \A i \in D : f[i] = at(f, i)
  <2>. HIDE DEF D, at
  <2>. QED BY <1>2
<1>4. f[0] = x /\ \A i \in 1 .. N : f[i] = G[f[i - 1]]
  BY <1>3
<1>. QED BY <1>4 DEF IsIteration

(* What G keeps, all of them have.                                         *)
LEMMA IterationKeeps ==
  ASSUME NEW f, NEW x, NEW G, NEW V, NEW N, IsIteration(f, x, G, V, N),
         NEW S, x \in S, \A v \in V : v \in S => G[v] \in S
  PROVE  \A i \in 0 .. N : f[i] \in S
<1>. DEFINE T == {i \in 0 .. N : f[i] \notin S}
<1>. N \in Nat /\ f \in [0 .. N -> V] /\ f[0] = x /\ \A i \in 1 .. N : f[i] = G[f[i - 1]]
  BY DEF IsIteration
<1>1. SUFFICES ASSUME T # {} PROVE FALSE
  OBVIOUS
<1>2. PICK i \in T : \A j \in T : i <= j
  <2>1. T \subseteq Nat OBVIOUS
  <2>. HIDE DEF T
  <2>. QED BY <1>1, <2>1, Smallest
<1>3. i \in 1 .. N /\ i - 1 \in 0 .. N /\ ~(i <= i - 1)
  OBVIOUS
<1>4. f[i - 1] \in S
  BY <1>2, <1>3
<1>. QED BY <1>3, <1>4

(* If all but fixed points grow, by a measure of at most m, N steps reach  *)
(* one.                                                                    *)
LEMMA IterationStops ==
  ASSUME NEW f, NEW x, NEW G, NEW V, NEW N, IsIteration(f, x, G, V, N),
         NEW m \in Nat, NEW mu \in [V -> 0 .. m], m <= mu[x] + N,
         \A v \in V : G[v] = v \/ mu[G[v]] > mu[v]
  PROVE  G[f[N]] = f[N]
<1>. DEFINE T == {i \in 0 .. N : ~(G[f[i]] = f[i] \/ mu[f[i]] >= mu[x] + i)}
<1>. /\ N \in Nat /\ f \in [0 .. N -> V] /\ f[0] = x /\ x \in V /\ G \in [V -> V]
     /\ \A i \in 1 .. N : f[i] = G[f[i - 1]]
  BY DEF IsIteration
<1>1. \A v \in V : mu[v] \in Nat /\ mu[v] <= m
  OBVIOUS
<1>2. T = {}
  <2>1. SUFFICES ASSUME T # {} PROVE FALSE
    OBVIOUS
  <2>2. PICK i \in T : \A j \in T : i <= j
    <3>1. T \subseteq Nat OBVIOUS
    <3>. HIDE DEF T
    <3>. QED BY <2>1, <3>1, Smallest
  <2>3. i \in 0 .. N /\ ~(G[f[i]] = f[i] \/ mu[f[i]] >= mu[x] + i)
    OBVIOUS
  <2>4. i # 0
    BY <1>1, <2>3
  <2>5. i \in 1 .. N /\ i - 1 \in 0 .. N /\ ~(i <= i - 1) /\ f[i] = G[f[i - 1]]
    BY <2>3, <2>4
  <2>6. G[f[i - 1]] = f[i - 1] \/ mu[f[i - 1]] >= mu[x] + (i - 1)
    BY <2>2, <2>5
  <2>7. f[i - 1] \in V /\ f[i] \in V
    BY <2>3, <2>5
  <2>8. mu[f[i]] > mu[f[i - 1]]
    BY <2>3, <2>5, <2>7
  <2>9. mu[f[i - 1]] \in Nat /\ mu[f[i]] \in Nat /\ mu[x] \in Nat /\ i \in Nat
    BY <1>1, <2>3, <2>7
  <2>10. G[f[i - 1]] # f[i - 1]
    BY <2>3, <2>5
  <2>. QED BY <2>3, <2>6, <2>8, <2>9, <2>10
<1>3. N \in 0 .. N /\ f[N] \in V /\ G[f[N]] \in V
  OBVIOUS
<1>4. G[f[N]] = f[N] \/ mu[f[N]] >= mu[x] + N
  BY <1>2, <1>3
<1>5. mu[f[N]] \in Nat /\ mu[G[f[N]]] \in Nat /\ mu[G[f[N]]] <= m /\ mu[x] \in Nat
  BY <1>1, <1>3
<1>. QED BY <1>3, <1>4, <1>5

-----------------------------------------------------------------------------
(* The worklist and what it reads.                                         *)

NetsOf(c) == c.nets \union {0, 1}
Values(c) == (SUBSET Patterns(c)) \union {Unset}

(* Patches whose ports are nets, or old values of nets that have one.      *)
PatchesOK(c, drv) ==
  /\ DOMAIN drv \subseteq c.nets
  /\ \A n \in DOMAIN drv : \A p \in drv[n].sup :
       p \in c.nets \/ (p \in Int /\ -p \in Inputs(c) \union Driven(c))

LEMMA IsValue ==
  ASSUME NEW c, IsCircuit(c), NEW f, f \subseteq Patterns(c)
  PROVE  f \in Values(c) /\ f # Unset
<1>1. NoNet \notin Patterns(c)
  BY DEF IsCircuit, NoNet
<1>. QED BY <1>1 DEF Values, Unset

LEMMA GateFnTyped ==
  ASSUME NEW c, NEW type \in GateTypes, NEW in
  PROVE  GateFn(c, type, in) \subseteq Patterns(c)
BY DEF GateFn, GateTypes

LEMMA ReadsTyped ==
  ASSUME NEW c, NEW drv, IsCircuit(c), PatchesOK(c, drv),
         NEW n, n \in DOMAIN drv \/ n \in Driven(c)
  PROVE  n \in c.nets /\ Reads(c, drv, n) \subseteq NetsOf(c)
<1>1. ASSUME n \in DOMAIN drv, NEW p \in drv[n].sup, ~(p > 0), -p \notin Inputs(c)
      PROVE  Ins(c, -p) \subseteq NetsOf(c)
  <2>1. p \notin c.nets
    BY <1>1 DEF IsCircuit
  <2>2. -p \in Driven(c)
    BY <1>1, <2>1 DEF PatchesOK
  <2>. QED BY <2>2 DEF IsCircuit, NetsOf
<1>2. ASSUME n \in DOMAIN drv, NEW p \in drv[n].sup, p > 0 PROVE p \in c.nets
  BY <1>2 DEF PatchesOK, IsCircuit
<1>. QED BY <1>1, <1>2 DEF Reads, PatchesOK, IsCircuit, NetsOf

LEMMA NetValueTyped ==
  ASSUME NEW c, NEW drv, IsCircuit(c), NEW cur, NEW n, n \in DOMAIN drv \/ n \in Driven(c)
  PROVE  NetValue(c, drv, cur, n) \subseteq Patterns(c)
<1>1. PatchValue(c, cur, drv[n]) \subseteq Patterns(c)
  BY DEF PatchValue
<1>2. n \in Driven(c) => c.gate[n].type \in GateTypes
  BY DEF IsCircuit
<1>. QED BY <1>1, <1>2, GateFnTyped DEF NetValue

(* The value of a net depends on the values of what it reads.              *)
LEMMA NetValueSame ==
  ASSUME NEW c, NEW drv, NEW n, n \in DOMAIN drv \/ n \in Driven(c),
         NEW v, NEW w, \A m \in Reads(c, drv, n) : v[m] = w[m]
  PROVE  NetValue(c, drv, v, n) = NetValue(c, drv, w, n)
<1>1. CASE n \in DOMAIN drv
  <2>1. ASSUME NEW p \in drv[n].sup PROVE PortValue(c, v, p) = PortValue(c, w, p)
    <3>1. CASE p > 0
      BY <1>1, <3>1 DEF Reads, PortValue
    <3>2. CASE ~(p > 0) /\ -p \in Inputs(c)
      BY <3>2 DEF PortValue
    <3>3. CASE ~(p > 0) /\ -p \notin Inputs(c)
      <4>1. Ins(c, -p) \subseteq Reads(c, drv, n)
        BY <1>1, <3>3 DEF Reads
      <4>2. \A i \in DOMAIN c.gate[-p].ins : v[c.gate[-p].ins[i]] = w[c.gate[-p].ins[i]]
        BY <4>1 DEF Ins
      <4>3. [i \in DOMAIN c.gate[-p].ins |-> v[c.gate[-p].ins[i]]]
              = [i \in DOMAIN c.gate[-p].ins |-> w[c.gate[-p].ins[i]]]
        BY <4>2
      <4>. QED BY <3>3, <4>3 DEF PortValue
    <3>. QED BY <3>1, <3>2, <3>3
  <2>2. \A q : {p \in drv[n].sup : q \in PortValue(c, v, p)}
                 = {p \in drv[n].sup : q \in PortValue(c, w, p)}
    BY <2>1
  <2>3. PatchValue(c, v, drv[n]) = PatchValue(c, w, drv[n])
    BY <2>2 DEF PatchValue
  <2>. QED BY <1>1, <2>3 DEF NetValue
<1>2. CASE n \notin DOMAIN drv
  <2>1. \A i \in DOMAIN c.gate[n].ins : v[c.gate[n].ins[i]] = w[c.gate[n].ins[i]]
    BY <1>2 DEF Reads, Ins
  <2>2. [i \in DOMAIN c.gate[n].ins |-> v[c.gate[n].ins[i]]]
          = [i \in DOMAIN c.gate[n].ins |-> w[c.gate[n].ins[i]]]
    BY <2>1
  <2>. QED BY <1>2, <2>2 DEF NetValue
<1>. QED BY <1>1, <1>2

-----------------------------------------------------------------------------
(* The worklist.                                                           *)

CanSettle(c, drv, start) ==
  /\ IsCircuit(c) /\ PatchesOK(c, drv)
  /\ start \in [NetsOf(c) -> Values(c)] /\ start[0] # Unset /\ start[1] # Unset

(* The values given are of nets whose reads were given theirs before.      *)
Ranked(c, drv, start, cur, rank) ==
  \A n \in NetsOf(c) : start[n] = Unset /\ cur[n] # Unset =>
    /\ n \in c.nets /\ (n \in DOMAIN drv \/ n \in Driven(c))
    /\ cur[n] = NetValue(c, drv, cur, n)
    /\ \A m \in Reads(c, drv, n) : cur[m] # Unset /\ rank[m] < rank[n]

Partly(c, drv, start, cur) ==
  /\ cur \in [NetsOf(c) -> Values(c)]
  /\ \A n \in NetsOf(c) : start[n] # Unset => cur[n] = start[n]
  /\ \E b \in Nat : \E rank \in [NetsOf(c) -> 0 .. b] : Ranked(c, drv, start, cur, rank)

IsSettled(c, drv, start, cur) ==
  Partly(c, drv, start, cur) /\ \A n \in c.nets : ~Ready(c, drv, cur, n)

(* One step of it.                                                         *)
NextCur(c, drv, cur) ==
  LET ready == {n \in c.nets : Ready(c, drv, cur, n)}
      n == CHOOSE m \in ready : TRUE
  IN  IF ready = {} THEN cur
      ELSE [cur EXCEPT ![n] = NetValue(c, drv, cur, n)]

LEMMA NextCurIs ==
  ASSUME NEW c, NEW drv, NEW cur
  PROVE  \/ NextCur(c, drv, cur) = cur /\ \A n \in c.nets : ~Ready(c, drv, cur, n)
         \/ \E n \in c.nets : /\ Ready(c, drv, cur, n)
                              /\ NextCur(c, drv, cur)
                                   = [cur EXCEPT ![n] = NetValue(c, drv, cur, n)]
BY DEF NextCur

(* A step gives one net a value that it had not.                           *)
LEMMA NextCurGives ==
  ASSUME NEW c, NEW drv, NEW start, CanSettle(c, drv, start), NEW cur, Partly(c, drv, start, cur),
         NextCur(c, drv, cur) # cur
  PROVE  \E n \in c.nets :
           /\ cur[n] = Unset /\ (n \in DOMAIN drv \/ n \in Driven(c))
           /\ \A m \in Reads(c, drv, n) : cur[m] # Unset
           /\ NextCur(c, drv, cur) \in [NetsOf(c) -> Values(c)]
           /\ NextCur(c, drv, cur)[n] = NetValue(c, drv, cur, n)
           /\ NextCur(c, drv, cur)[n] # Unset
           /\ \A m \in NetsOf(c) : m # n => NextCur(c, drv, cur)[m] = cur[m]
<1>1. PICK n \in c.nets : /\ Ready(c, drv, cur, n)
                          /\ NextCur(c, drv, cur) = [cur EXCEPT ![n] = NetValue(c, drv, cur, n)]
  BY NextCurIs
<1>2. cur[n] = Unset /\ (n \in DOMAIN drv \/ n \in Driven(c)) /\ n \in NetsOf(c)
      /\ \A m \in Reads(c, drv, n) : cur[m] # Unset
  BY <1>1 DEF Ready, NetsOf
<1>3. NetValue(c, drv, cur, n) \in Values(c) /\ NetValue(c, drv, cur, n) # Unset
  BY <1>2, NetValueTyped, IsValue DEF CanSettle
<1>4. cur \in [NetsOf(c) -> Values(c)]
  BY DEF Partly
<1>. QED BY <1>1, <1>2, <1>3, <1>4

LEMMA NextCurKeeps ==
  ASSUME NEW c, NEW drv, NEW start, CanSettle(c, drv, start), NEW cur, Partly(c, drv, start, cur)
  PROVE  Partly(c, drv, start, NextCur(c, drv, cur))
<1>1. SUFFICES ASSUME NextCur(c, drv, cur) # cur
               PROVE  Partly(c, drv, start, NextCur(c, drv, cur))
  OBVIOUS
<1>2. PICK n \in c.nets :
        /\ cur[n] = Unset /\ (n \in DOMAIN drv \/ n \in Driven(c))
        /\ \A m \in Reads(c, drv, n) : cur[m] # Unset
        /\ NextCur(c, drv, cur) \in [NetsOf(c) -> Values(c)]
        /\ NextCur(c, drv, cur)[n] = NetValue(c, drv, cur, n)
        /\ NextCur(c, drv, cur)[n] # Unset
        /\ \A m \in NetsOf(c) : m # n => NextCur(c, drv, cur)[m] = cur[m]
  BY <1>1, NextCurGives
<1>3. PICK new : new = NextCur(c, drv, cur)
  OBVIOUS
<1>0. PICK b \in Nat : \E rank \in [NetsOf(c) -> 0 .. b] : Ranked(c, drv, start, cur, rank)
  BY DEF Partly
<1>4. PICK rank \in [NetsOf(c) -> 0 .. b] : Ranked(c, drv, start, cur, rank)
  BY <1>0
<1>5. PICK up : up = [rank EXCEPT ![n] = b + 1]
  OBVIOUS
<1>6. /\ n \in NetsOf(c) /\ up \in [NetsOf(c) -> 0 .. b + 1] /\ up[n] = b + 1
      /\ \A m \in NetsOf(c) : m # n => up[m] = rank[m]
  BY <1>5 DEF NetsOf
<1>7. ASSUME NEW m \in NetsOf(c), start[m] = Unset, new[m] # Unset
      PROVE  /\ m \in c.nets /\ (m \in DOMAIN drv \/ m \in Driven(c))
             /\ new[m] = NetValue(c, drv, new, m)
             /\ \A k \in Reads(c, drv, m) : new[k] # Unset /\ up[k] < up[m]
  <2>1. CASE m = n
    <3>1. \A k \in Reads(c, drv, n) : k \in NetsOf(c) /\ k # n /\ cur[k] # Unset
      BY <1>2, ReadsTyped DEF CanSettle
    <3>2. \A k \in Reads(c, drv, n) : new[k] = cur[k] /\ up[k] \in 0 .. b
      BY <1>2, <1>3, <1>6, <3>1
    <3>3. NetValue(c, drv, new, n) = NetValue(c, drv, cur, n)
      BY <1>2, <3>2, NetValueSame
    <3>. QED BY <1>2, <1>3, <1>6, <2>1, <3>1, <3>2, <3>3
  <2>2. CASE m # n
    <3>1. new[m] = cur[m] /\ up[m] = rank[m]
      BY <1>2, <1>3, <1>6, <2>2
    <3>2. /\ m \in c.nets /\ (m \in DOMAIN drv \/ m \in Driven(c))
          /\ cur[m] = NetValue(c, drv, cur, m)
          /\ \A k \in Reads(c, drv, m) : cur[k] # Unset /\ rank[k] < rank[m]
      BY <1>4, <1>7, <3>1 DEF Ranked
    <3>3. \A k \in Reads(c, drv, m) : k \in NetsOf(c) /\ k # n
      BY <1>2, <3>2, ReadsTyped DEF CanSettle
    <3>4. \A k \in Reads(c, drv, m) : new[k] = cur[k] /\ up[k] = rank[k]
      BY <1>2, <1>3, <1>6, <3>3
    <3>5. NetValue(c, drv, new, m) = NetValue(c, drv, cur, m)
      BY <3>2, <3>4, NetValueSame
    <3>. QED BY <3>1, <3>2, <3>4, <3>5
  <2>. QED BY <2>1, <2>2
<1>8. Ranked(c, drv, start, new, up)
  BY <1>7 DEF Ranked
<1>9. \A m \in NetsOf(c) : start[m] # Unset => new[m] = start[m]
  BY <1>2, <1>3 DEF Partly
<1>. QED BY <1>2, <1>3, <1>6, <1>8, <1>9 DEF Partly

(* The nets with a value become more, up to all.                           *)
GivenOf(c, cur) == {n \in c.nets : cur[n] # Unset}

LEMMA MoreGiven ==
  ASSUME NEW c, NEW drv, NEW start, CanSettle(c, drv, start), NEW cur, Partly(c, drv, start, cur)
  PROVE  /\ Cardinality(c.nets) \in Nat
         /\ Cardinality(GivenOf(c, cur)) \in 0 .. Cardinality(c.nets)
         /\ NextCur(c, drv, cur) # cur =>
              Cardinality(GivenOf(c, NextCur(c, drv, cur))) > Cardinality(GivenOf(c, cur))
<1>1. IsFiniteSet(c.nets)
  BY DEF CanSettle, IsCircuit
<1>2. \A v : /\ IsFiniteSet(GivenOf(c, v)) /\ Cardinality(GivenOf(c, v)) \in Nat
             /\ Cardinality(GivenOf(c, v)) <= Cardinality(c.nets)
  BY <1>1, FS_Subset, FS_CardinalityType DEF GivenOf
<1>3. Cardinality(c.nets) \in Nat
  BY <1>1, FS_CardinalityType
<1>4. ASSUME NextCur(c, drv, cur) # cur
      PROVE  Cardinality(GivenOf(c, NextCur(c, drv, cur))) > Cardinality(GivenOf(c, cur))
  <2>1. PICK n \in c.nets :
          /\ cur[n] = Unset /\ NextCur(c, drv, cur)[n] # Unset
          /\ \A m \in NetsOf(c) : m # n => NextCur(c, drv, cur)[m] = cur[m]
    BY <1>4, NextCurGives
  <2>2. GivenOf(c, NextCur(c, drv, cur)) = GivenOf(c, cur) \union {n} /\ n \notin GivenOf(c, cur)
    BY <2>1 DEF GivenOf, NetsOf
  <2>3. Cardinality(GivenOf(c, cur) \union {n}) = Cardinality(GivenOf(c, cur)) + 1
    BY <1>2, <2>2, FS_AddElement
  <2>. QED BY <1>2, <2>2, <2>3
<1>. QED BY <1>2, <1>3, <1>4

LEMMA SettleSettles ==
  ASSUME NEW c, NEW drv, NEW start, CanSettle(c, drv, start)
  PROVE  IsSettled(c, drv, start, Settle(c, drv, start))
<1>. DEFINE N == Cardinality(c.nets)
            V == {cur \in [NetsOf(c) -> Values(c)] : Partly(c, drv, start, cur)}
            G == [cur \in V |-> NextCur(c, drv, cur)]
            mu == [cur \in V |-> Cardinality(GivenOf(c, cur))]
            at(f, i) == IF i = 0 THEN start ELSE NextCur(c, drv, f[i - 1])
            E == CHOOSE step : step = [i \in 0 .. N |-> at(step, i)]
<1>1. start \in V
  <2>1. [n \in NetsOf(c) |-> 0] \in [NetsOf(c) -> 0 .. 0]
    OBVIOUS
  <2>2. Ranked(c, drv, start, start, [n \in NetsOf(c) |-> 0])
    BY DEF Ranked
  <2>3. Partly(c, drv, start, start)
    BY <2>1, <2>2 DEF Partly, CanSettle
  <2>. QED BY <2>3 DEF CanSettle
<1>2. \A cur \in V : Partly(c, drv, start, cur)
  OBVIOUS
<1>3. G \in [V -> V]
  <2>1. \A cur \in V : NextCur(c, drv, cur) \in V
    BY NextCurKeeps DEF Partly
  <2>. HIDE DEF V
  <2>. QED BY <2>1
<1>4. N \in Nat /\ mu \in [V -> 0 .. N]
  <2>1. \A cur \in V : Cardinality(GivenOf(c, cur)) \in 0 .. Cardinality(c.nets)
    BY MoreGiven
  <2>2. N \in Nat
    BY FS_CardinalityType DEF CanSettle, IsCircuit
  <2>. HIDE DEF V
  <2>. QED BY <2>1, <2>2
<1>5. \A cur \in V : G[cur] = cur \/ mu[G[cur]] > mu[cur]
  <2>1. \A cur \in V : G[cur] \in V /\ G[cur] = NextCur(c, drv, cur)
    BY <1>3
  <2>2. \A cur \in V : NextCur(c, drv, cur) # cur =>
            Cardinality(GivenOf(c, NextCur(c, drv, cur))) > Cardinality(GivenOf(c, cur))
    BY MoreGiven
  <2>. HIDE DEF V, G
  <2>. QED BY <2>1, <2>2
<1>6. PICK f : IsIteration(f, start, G, V, N)
  <2>. HIDE DEF V, G, N
  <2>. QED BY <1>1, <1>3, <1>4, IterationExists
<1>7. G[f[N]] = f[N] /\ f[N] \in V
  <2>. HIDE DEF V, G, N, mu
  <2>1. N <= mu[start] + N
    BY <1>1, <1>4
  <2>2. G[f[N]] = f[N]
    BY <1>4, <1>5, <1>6, <2>1, IterationStops
  <2>3. f[N] \in V
    BY <1>4, <1>6 DEF IsIteration
  <2>. QED BY <2>2, <2>3
<1>8. NextCur(c, drv, f[N]) = f[N] /\ Partly(c, drv, start, f[N])
  <2>1. G[f[N]] = NextCur(c, drv, f[N])
    BY <1>7
  <2>. QED BY <1>2, <1>7, <2>1
<1>9. IsSettled(c, drv, start, f[N])
  <2>1. ASSUME \E n \in c.nets : Ready(c, drv, f[N], n) PROVE FALSE
    <3>1. PICK n \in c.nets :
            /\ Ready(c, drv, f[N], n)
            /\ f[N] = [f[N] EXCEPT ![n] = NetValue(c, drv, f[N], n)]
      BY <1>8, <2>1, NextCurIs
    <3>2. f[N][n] = Unset /\ (n \in DOMAIN drv \/ n \in Driven(c))
      BY <3>1 DEF Ready
    <3>3. NetValue(c, drv, f[N], n) # Unset
      BY <3>2, NetValueTyped, IsValue DEF CanSettle
    <3>4. n \in DOMAIN f[N]
      BY <1>8 DEF Partly, NetsOf
    <3>. QED BY <3>1, <3>2, <3>3, <3>4
  <2>. QED BY <1>8, <2>1 DEF IsSettled
<1>10. f = [i \in 0 .. N |-> at(f, i)]
  <2>1. \A i \in 0 .. N : f[i] = at(f, i)
    <3>1. ASSUME NEW i \in 0 .. N, i # 0 PROVE f[i] = NextCur(c, drv, f[i - 1])
      <4>1. i \in 1 .. N /\ i - 1 \in 0 .. N
        BY <1>4, <3>1
      <4>2. f[i] = G[f[i - 1]] /\ f[i - 1] \in V
        BY <1>6, <4>1 DEF IsIteration
      <4>. QED BY <4>2
    <3>2. f[0] = start
      BY <1>6 DEF IsIteration
    <3>. QED BY <3>1, <3>2
  <2>2. DOMAIN f = 0 .. N /\ f = [i \in 0 .. N |-> f[i]]
    BY <1>6 DEF IsIteration
  <2>. HIDE DEF at
  <2>. QED BY <2>1, <2>2
<1>11. E = [i \in 0 .. N |-> at(E, i)]
  <2>. HIDE DEF at, N
  <2>. QED BY <1>10
<1>12. Settle(c, drv, start) = E[N]
  BY DEF Settle, NextCur
<1>13. \A i \in 0 .. N : E[i] = f[i]
  <2>. DEFINE T == {i \in 0 .. N : E[i] # f[i]}
  <2>1. SUFFICES ASSUME T # {} PROVE FALSE
    OBVIOUS
  <2>2. PICK i \in T : \A j \in T : i <= j
    <3>1. T \subseteq Nat
      BY <1>4
    <3>. HIDE DEF T
    <3>. QED BY <2>1, <3>1, Smallest
  <2>3. E[i] = at(E, i) /\ f[i] = at(f, i)
    <3>. HIDE DEF E, at
    <3>. QED BY <1>10, <1>11
  <2>. HIDE DEF E
  <2>4. i # 0
    BY <2>3
  <2>5. i - 1 \in 0 .. N /\ ~(i <= i - 1)
    BY <1>4, <2>4
  <2>. QED BY <2>2, <2>3, <2>4, <2>5
<1>. QED BY <1>4, <1>9, <1>12, <1>13

(* What evalInto makes of a patched circuit: inputs have their patterns; a *)
(* driven net has a value when all it reads has, what it computes from     *)
(* them, and nothing that has a value depends on itself.                   *)
IsEvaluated(c, drv, cur) ==
  /\ cur \in [NetsOf(c) -> Values(c)]
  /\ cur[0] = Const(c, 0) /\ cur[1] = Const(c, 1)
  /\ \A n \in Inputs(c) \ DOMAIN drv : cur[n] = c.pis[n]
  /\ \A n \in c.nets \ (Inputs(c) \union DOMAIN drv \union Driven(c)) : cur[n] = Unset
  /\ \A n \in DOMAIN drv \union Driven(c) :
       /\ (\A m \in Reads(c, drv, n) : cur[m] # Unset) => cur[n] # Unset
       /\ cur[n] # Unset => /\ cur[n] = NetValue(c, drv, cur, n)
                            /\ \A m \in Reads(c, drv, n) : cur[m] # Unset
  /\ \E b \in Nat : \E rank \in [NetsOf(c) -> 0 .. b] :
       \A n \in DOMAIN drv \union Driven(c) : cur[n] # Unset =>
         \A m \in Reads(c, drv, n) : rank[m] < rank[n]

LEMMA EvaluateEvaluates ==
  ASSUME NEW c, NEW drv, IsCircuit(c), PatchesOK(c, drv)
  PROVE  IsEvaluated(c, drv, Evaluate(c, drv))
<1>. DEFINE start == [n \in c.nets \union {0, 1} |->
                        IF n \in {0, 1} THEN Const(c, n)
                        ELSE IF n \in Inputs(c) \ DOMAIN drv THEN c.pis[n]
                        ELSE Unset]
<1>1. Const(c, 0) \in Values(c) /\ Const(c, 0) # Unset
      /\ Const(c, 1) \in Values(c) /\ Const(c, 1) # Unset
  <2>1. Const(c, 0) \subseteq Patterns(c) /\ Const(c, 1) \subseteq Patterns(c)
    BY DEF Const
  <2>. QED BY <2>1, IsValue
<1>2. /\ \A n \in Inputs(c) : c.pis[n] \in Values(c) /\ c.pis[n] # Unset
      /\ 0 \notin c.nets /\ 1 \notin c.nets /\ Unset \in Values(c)
      /\ Inputs(c) \subseteq c.nets /\ Driven(c) \subseteq c.nets \ Inputs(c)
      /\ DOMAIN drv \subseteq c.nets
  <2>1. \A n \in Inputs(c) : c.pis[n] \in SUBSET Patterns(c)
    BY DEF IsCircuit
  <2>2. \A n \in Inputs(c) : c.pis[n] \in Values(c) /\ c.pis[n] # Unset
    <3>1. ASSUME NEW n \in Inputs(c) PROVE c.pis[n] \in Values(c) /\ c.pis[n] # Unset
      <4>1. c.pis[n] \subseteq Patterns(c)
        BY <2>1
      <4>. QED BY <4>1, IsValue
    <3>. QED BY <3>1
  <2>3. 0 \notin c.nets /\ 1 \notin c.nets
    BY DEF IsCircuit
  <2>4. Inputs(c) \subseteq c.nets /\ Driven(c) \subseteq c.nets \ Inputs(c)
    BY DEF IsCircuit
  <2>5. DOMAIN drv \subseteq c.nets
    BY DEF PatchesOK
  <2>6. Unset \in Values(c)
    BY DEF Values
  <2>. QED BY <2>2, <2>3, <2>4, <2>5, <2>6
<1>3. /\ DOMAIN start = NetsOf(c) /\ start[0] = Const(c, 0) /\ start[1] = Const(c, 1)
      /\ \A n \in c.nets : start[n] = IF n \in Inputs(c) \ DOMAIN drv THEN c.pis[n] ELSE Unset
  BY <1>2 DEF NetsOf
<1>. DEFINE cur == Settle(c, drv, start)
<1>4. cur = Evaluate(c, drv)
  BY DEF Evaluate
<1>5. start \in [NetsOf(c) -> Values(c)]
  <2>1. \A n \in NetsOf(c) : start[n] \in Values(c)
    BY <1>1, <1>2, <1>3 DEF NetsOf
  <2>2. start = [n \in NetsOf(c) |-> start[n]]
    BY DEF NetsOf
  <2>. HIDE DEF start
  <2>. QED BY <2>1, <2>2
<1>. HIDE DEF start
<1>6. IsSettled(c, drv, start, cur)
  BY <1>1, <1>3, <1>5, SettleSettles DEF CanSettle
<1>. HIDE DEF cur
<1>7. /\ cur \in [NetsOf(c) -> Values(c)]
      /\ \A n \in NetsOf(c) : start[n] # Unset => cur[n] = start[n]
      /\ \A n \in c.nets : ~Ready(c, drv, cur, n)
  BY <1>6 DEF IsSettled, Partly
<1>8. PICK b \in Nat : \E rank \in [NetsOf(c) -> 0 .. b] : Ranked(c, drv, start, cur, rank)
  BY <1>6 DEF IsSettled, Partly
<1>9. PICK rank \in [NetsOf(c) -> 0 .. b] : Ranked(c, drv, start, cur, rank)
  BY <1>8
<1>10. cur[0] = Const(c, 0) /\ cur[1] = Const(c, 1)
  BY <1>1, <1>3, <1>7 DEF NetsOf
<1>11. \A n \in Inputs(c) \ DOMAIN drv : cur[n] = c.pis[n]
  BY <1>2, <1>3, <1>7 DEF NetsOf
<1>12. ASSUME NEW n \in DOMAIN drv \union Driven(c)
       PROVE  /\ (\A m \in Reads(c, drv, n) : cur[m] # Unset) => cur[n] # Unset
              /\ cur[n] # Unset => /\ cur[n] = NetValue(c, drv, cur, n)
                                   /\ \A m \in Reads(c, drv, n) : cur[m] # Unset
                                   /\ \A m \in Reads(c, drv, n) : rank[m] < rank[n]
  <2>1. n \in c.nets /\ n \in NetsOf(c) /\ start[n] = Unset
    BY <1>2, <1>3 DEF NetsOf
  <2>. QED BY <1>7, <1>9, <2>1 DEF Ready, Ranked
<1>13. \A n \in c.nets \ (Inputs(c) \union DOMAIN drv \union Driven(c)) : cur[n] = Unset
  BY <1>3, <1>9 DEF Ranked, NetsOf
<1>14. \E k \in Nat : \E r \in [NetsOf(c) -> 0 .. k] :
         \A n \in DOMAIN drv \union Driven(c) : cur[n] # Unset =>
           \A m \in Reads(c, drv, n) : r[m] < r[n]
  BY <1>12
<1>. QED BY <1>4, <1>7, <1>10, <1>11, <1>12, <1>13, <1>14 DEF IsEvaluated

-----------------------------------------------------------------------------
(* Closures.                                                               *)

IsClosure(c, S, E, C) ==
  /\ S \subseteq C /\ C \subseteq c.nets
  /\ \A n \in C : E[n] \subseteq C
  /\ \A T : S \subseteq T /\ (\A n \in T \intersect c.nets : E[n] \subseteq T) => C \subseteq T

LEMMA ClosureCloses ==
  ASSUME NEW c, IsFiniteSet(c.nets), NEW S \in SUBSET c.nets,
         NEW E \in [c.nets -> SUBSET c.nets]
  PROVE  IsClosure(c, S, E, Closure(c, S, E))
<1>. DEFINE N == Cardinality(c.nets)
            V == SUBSET c.nets
            more(T) == T \union UNION {E[n] : n \in T}
            G == [T \in V |-> more(T)]
            mu == [T \in V |-> Cardinality(T)]
            at(f, i) == IF i = 0 THEN S ELSE more(f[i - 1])
            F == CHOOSE grow : grow = [i \in 0 .. N |-> at(grow, i)]
<1>1. N \in Nat
  BY FS_CardinalityType
<1>2. G \in [V -> V]
  OBVIOUS
<1>3. mu \in [V -> 0 .. N]
  <2>1. \A T \in V : Cardinality(T) \in 0 .. Cardinality(c.nets)
    BY FS_Subset, FS_CardinalityType
  <2>. QED BY <2>1
<1>4. ASSUME NEW T \in V PROVE G[T] = T \/ mu[G[T]] > mu[T]
  <2>1. G[T] = more(T) /\ T \subseteq more(T) /\ more(T) \in V
    OBVIOUS
  <2>2. mu[T] = Cardinality(T) /\ mu[G[T]] = Cardinality(more(T))
    BY <2>1
  <2>3. IsFiniteSet(more(T)) /\ IsFiniteSet(T)
    BY <2>1, FS_Subset
  <2>4. /\ Cardinality(T) <= Cardinality(more(T))
        /\ Cardinality(T) = Cardinality(more(T)) => T = more(T)
    BY <2>1, <2>3, FS_Subset
  <2>5. Cardinality(T) \in Nat /\ Cardinality(more(T)) \in Nat
    BY <2>3, FS_CardinalityType
  <2>. HIDE DEF more, G, mu
  <2>. QED BY <2>1, <2>2, <2>4, <2>5
<1>5. PICK f : IsIteration(f, S, G, V, N)
  <2>. HIDE DEF V, G, N
  <2>1. S \in V
    BY DEF V
  <2>. QED BY <1>1, <1>2, <2>1, IterationExists
<1>6. G[f[N]] = f[N] /\ f[N] \in V
  <2>. HIDE DEF V, G, N, mu
  <2>0. S \in V
    BY DEF V
  <2>1. N <= mu[S] + N
    BY <1>1, <1>3, <2>0
  <2>2. G[f[N]] = f[N]
    BY <1>1, <1>3, <1>4, <1>5, <2>1, IterationStops
  <2>3. f[N] \in V
    BY <1>1, <1>5 DEF IsIteration
  <2>. QED BY <2>2, <2>3
<1>7. ASSUME NEW T, S \subseteq T, \A n \in T \intersect c.nets : E[n] \subseteq T
      PROVE  f[N] \subseteq T
  <2>. DEFINE P == {v \in V : v \subseteq T}
  <2>1. \A v \in V : v \in P => G[v] \in P
    BY <1>7
  <2>2. S \in P
    BY <1>7
  <2>3. \A i \in 0 .. N : f[i] \in P
    <3>. HIDE DEF P, V, G, N
    <3>. QED BY <1>5, <2>1, <2>2, IterationKeeps
  <2>. QED BY <1>1, <2>3
<1>8. S \subseteq f[N]
  <2>. DEFINE P == {v \in V : S \subseteq v}
  <2>1. \A v \in V : v \in P => G[v] \in P
    OBVIOUS
  <2>2. S \in P
    OBVIOUS
  <2>3. \A i \in 0 .. N : f[i] \in P
    <3>. HIDE DEF P, V, G, N
    <3>. QED BY <1>5, <2>1, <2>2, IterationKeeps
  <2>. QED BY <1>1, <2>3
<1>9. \A n \in f[N] : E[n] \subseteq f[N]
  BY <1>6
<1>10. f = [i \in 0 .. N |-> at(f, i)]
  <2>1. \A i \in 0 .. N : f[i] = at(f, i)
    <3>1. ASSUME NEW i \in 0 .. N, i # 0 PROVE f[i] = more(f[i - 1])
      <4>1. i \in 1 .. N /\ i - 1 \in 0 .. N
        BY <1>1, <3>1
      <4>2. f[i] = G[f[i - 1]] /\ f[i - 1] \in V
        BY <1>5, <4>1 DEF IsIteration
      <4>. HIDE DEF more
      <4>. QED BY <4>2
    <3>2. f[0] = S
      BY <1>5 DEF IsIteration
    <3>. QED BY <3>1, <3>2
  <2>2. DOMAIN f = 0 .. N /\ f = [i \in 0 .. N |-> f[i]]
    BY <1>5 DEF IsIteration
  <2>. HIDE DEF at
  <2>. QED BY <2>1, <2>2
<1>11. F = [i \in 0 .. N |-> at(F, i)]
  <2>. HIDE DEF at, N
  <2>. QED BY <1>10
<1>12. Closure(c, S, E) = F[N]
  BY DEF Closure
<1>13. \A i \in 0 .. N : F[i] = f[i]
  <2>. DEFINE T == {i \in 0 .. N : F[i] # f[i]}
  <2>1. SUFFICES ASSUME T # {} PROVE FALSE
    OBVIOUS
  <2>2. PICK i \in T : \A j \in T : i <= j
    <3>1. T \subseteq Nat
      BY <1>1
    <3>. HIDE DEF T
    <3>. QED BY <2>1, <3>1, Smallest
  <2>3. F[i] = at(F, i) /\ f[i] = at(f, i)
    <3>. HIDE DEF F, at
    <3>. QED BY <1>10, <1>11
  <2>. HIDE DEF F
  <2>4. i # 0
    BY <2>3
  <2>5. i - 1 \in 0 .. N /\ ~(i <= i - 1)
    BY <1>1, <2>4
  <2>. QED BY <2>2, <2>3, <2>4, <2>5
<1>14. Closure(c, S, E) = f[N]
  <2>. HIDE DEF F
  <2>. QED BY <1>1, <1>12, <1>13
<1>. QED BY <1>6, <1>7, <1>8, <1>9, <1>14 DEF IsClosure

-----------------------------------------------------------------------------
(* Pattern by pattern.                                                     *)

LEMMA GateFnPointwise ==
  ASSUME NEW c, NEW type \in GateTypes, NEW q, NEW v, NEW w, DOMAIN v = DOMAIN w,
         \A i \in DOMAIN v : q \in v[i] <=> q \in w[i]
  PROVE  q \in GateFn(c, type, v) <=> q \in GateFn(c, type, w)
<1>1. {i \in DOMAIN v : q \in v[i]} = {i \in DOMAIN w : q \in w[i]}
  OBVIOUS
<1>. QED BY <1>1 DEF GateFn, GateTypes

(* The value of a net on a pattern depends on what it reads on this one.   *)
LEMMA NetValuePointwise ==
  ASSUME NEW c, NEW drv, IsCircuit(c), PatchesOK(c, drv),
         NEW n, n \in DOMAIN drv \/ n \in Driven(c), NEW q, NEW v, NEW w,
         \A m \in Reads(c, drv, n) : q \in v[m] <=> q \in w[m]
  PROVE  q \in NetValue(c, drv, v, n) <=> q \in NetValue(c, drv, w, n)
<1>1. ASSUME NEW k \in Driven(c), Ins(c, k) \subseteq Reads(c, drv, n),
             NEW x, x = [i \in DOMAIN c.gate[k].ins |-> v[c.gate[k].ins[i]]],
             NEW y, y = [i \in DOMAIN c.gate[k].ins |-> w[c.gate[k].ins[i]]]
      PROVE  q \in GateFn(c, c.gate[k].type, x) <=> q \in GateFn(c, c.gate[k].type, y)
  <2>1. \A i \in DOMAIN c.gate[k].ins :
          q \in v[c.gate[k].ins[i]] <=> q \in w[c.gate[k].ins[i]]
    BY <1>1 DEF Ins
  <2>2. DOMAIN x = DOMAIN y /\ \A i \in DOMAIN x : q \in x[i] <=> q \in y[i]
    BY <1>1, <2>1
  <2>3. c.gate[k].type \in GateTypes
    BY DEF IsCircuit
  <2>. QED BY <2>2, <2>3, GateFnPointwise
<1>2. CASE n \in DOMAIN drv
  <2>1. ASSUME NEW p \in drv[n].sup PROVE q \in PortValue(c, v, p) <=> q \in PortValue(c, w, p)
    <3>1. CASE p > 0
      BY <1>2, <3>1 DEF Reads, PortValue
    <3>2. CASE ~(p > 0) /\ -p \in Inputs(c)
      BY <3>2 DEF PortValue
    <3>3. CASE ~(p > 0) /\ -p \notin Inputs(c)
      <4>1. Ins(c, -p) \subseteq Reads(c, drv, n)
        BY <1>2, <3>3 DEF Reads
      <4>2. p \notin c.nets
        BY <3>3 DEF IsCircuit
      <4>3. -p \in Driven(c)
        BY <1>2, <3>3, <4>2 DEF PatchesOK
      <4>. QED BY <1>1, <3>3, <4>1, <4>3 DEF PortValue
    <3>. QED BY <3>1, <3>2, <3>3
  <2>2. {p \in drv[n].sup : q \in PortValue(c, v, p)}
          = {p \in drv[n].sup : q \in PortValue(c, w, p)}
    BY <2>1
  <2>. QED BY <1>2, <2>2 DEF NetValue, PatchValue
<1>3. CASE n \notin DOMAIN drv
  <2>1. n \in Driven(c) /\ Ins(c, n) \subseteq Reads(c, drv, n)
    BY <1>3 DEF Reads
  <2>. QED BY <1>1, <1>3, <2>1 DEF NetValue
<1>. QED BY <1>2, <1>3

-----------------------------------------------------------------------------
(* Circuits in which every net has a value.                                *)

Whole(c, drv, v) ==
  /\ IsCircuit(c) /\ PatchesOK(c, drv) /\ v = Evaluate(c, drv)
  /\ \A n \in c.nets : v[n] # Unset

(* What there is to know of the values of such a circuit.                  *)
LEMMA WholeValues ==
  ASSUME NEW c, NEW drv, NEW v, Whole(c, drv, v)
  PROVE  /\ v \in [NetsOf(c) -> Values(c)] /\ \A n \in NetsOf(c) : v[n] # Unset
         /\ v[0] = Const(c, 0) /\ v[1] = Const(c, 1)
         /\ \A n \in Inputs(c) \ DOMAIN drv : v[n] = c.pis[n]
         /\ c.nets \subseteq Inputs(c) \union DOMAIN drv \union Driven(c)
         /\ \A n \in DOMAIN drv \union Driven(c) : v[n] = NetValue(c, drv, v, n)
         /\ \E b \in Nat : \E rank \in [NetsOf(c) -> 0 .. b] :
              \A n \in DOMAIN drv \union Driven(c) :
                \A m \in Reads(c, drv, n) : rank[m] < rank[n]
<1>1. IsEvaluated(c, drv, v)
  BY EvaluateEvaluates DEF Whole
<1>2. v[0] # Unset /\ v[1] # Unset
  <2>1. Const(c, 0) \subseteq Patterns(c) /\ Const(c, 1) \subseteq Patterns(c)
    BY DEF Const
  <2>. QED BY <1>1, <2>1, IsValue DEF IsEvaluated, Whole
<1>3. \A n \in NetsOf(c) : v[n] # Unset
  BY <1>2 DEF Whole, NetsOf
<1>4. c.nets \subseteq Inputs(c) \union DOMAIN drv \union Driven(c)
  BY <1>1 DEF IsEvaluated, Whole
<1>5. \A n \in DOMAIN drv \union Driven(c) : n \in c.nets
  BY DEF Whole, IsCircuit, PatchesOK
<1>6. \A n \in DOMAIN drv \union Driven(c) : v[n] = NetValue(c, drv, v, n)
  BY <1>1, <1>5 DEF IsEvaluated, Whole
<1>7. PICK b \in Nat : \E rank \in [NetsOf(c) -> 0 .. b] :
        \A n \in DOMAIN drv \union Driven(c) : v[n] # Unset =>
          \A m \in Reads(c, drv, n) : rank[m] < rank[n]
  BY <1>1 DEF IsEvaluated
<1>8. \E rank \in [NetsOf(c) -> 0 .. b] :
        \A n \in DOMAIN drv \union Driven(c) :
          \A m \in Reads(c, drv, n) : rank[m] < rank[n]
  BY <1>5, <1>7 DEF Whole
<1>. QED BY <1>1, <1>3, <1>4, <1>6, <1>8 DEF IsEvaluated

(* A rank of the nets that decreases along what they read makes a circuit  *)
(* without undriven nets whole.                                            *)
RanksReads(c, drv, b, rank) ==
  /\ b \in Nat /\ rank \in [NetsOf(c) -> 0 .. b]
  /\ \A n \in DOMAIN drv \union Driven(c) : \A m \in Reads(c, drv, n) : rank[m] < rank[n]

(* The smallest net, by rank, of a set of nets.                            *)
LEMMA Lowest ==
  ASSUME NEW c, NEW b \in Nat, NEW rank \in [NetsOf(c) -> 0 .. b],
         NEW X, X \subseteq NetsOf(c), X # {}
  PROVE  \E n \in X : \A m \in X : rank[n] <= rank[m]
<1>. DEFINE R == {rank[n] : n \in X}
<1>1. R \subseteq Nat /\ R # {}
  <2>1. \A n \in X : rank[n] \in 0 .. b
    OBVIOUS
  <2>. QED BY <2>1
<1>2. PICK r \in R : \A s \in R : r <= s
  <2>. HIDE DEF R
  <2>. QED BY <1>1, Smallest
<1>. QED BY <1>2

LEMMA RankedWhole ==
  ASSUME NEW c, NEW drv, IsCircuit(c), PatchesOK(c, drv),
         c.nets \subseteq Inputs(c) \union DOMAIN drv \union Driven(c),
         NEW b, NEW rank, RanksReads(c, drv, b, rank)
  PROVE  Whole(c, drv, Evaluate(c, drv))
<1>1. PICK v : v = Evaluate(c, drv)
  OBVIOUS
<1>2. IsEvaluated(c, drv, v)
  BY <1>1, EvaluateEvaluates
<1>. DEFINE X == {n \in c.nets : v[n] = Unset}
<1>3. SUFFICES ASSUME X # {} PROVE FALSE
  BY <1>1 DEF Whole
<1>4. PICK n \in X : \A m \in X : rank[n] <= rank[m]
  <2>1. X \subseteq NetsOf(c)
    BY DEF NetsOf
  <2>2. b \in Nat /\ rank \in [NetsOf(c) -> 0 .. b]
    BY DEF RanksReads
  <2>. HIDE DEF X
  <2>. QED BY <1>3, <2>1, <2>2, Lowest
<1>5. n \in DOMAIN drv \union Driven(c)
  <2>1. \A k \in Inputs(c) : c.pis[k] \subseteq Patterns(c)
    BY DEF IsCircuit
  <2>2. \A k \in Inputs(c) : c.pis[k] # Unset
    BY <2>1, IsValue
  <2>. QED BY <1>2, <2>2 DEF IsEvaluated
<1>6. v[0] # Unset /\ v[1] # Unset
  <2>1. Const(c, 0) \subseteq Patterns(c) /\ Const(c, 1) \subseteq Patterns(c)
    BY DEF Const
  <2>. QED BY <1>2, <2>1, IsValue DEF IsEvaluated
<1>7. PICK m \in Reads(c, drv, n) : v[m] = Unset
  BY <1>2, <1>5 DEF IsEvaluated
<1>8. m \in NetsOf(c)
  BY <1>5, <1>7, ReadsTyped
<1>9. m \in X
  BY <1>6, <1>7, <1>8 DEF NetsOf
<1>10. rank[m] < rank[n] /\ rank[m] \in Int /\ rank[n] \in Int
  BY <1>5, <1>7, <1>8 DEF RanksReads, NetsOf
<1>. QED BY <1>4, <1>9, <1>10

(* Cofactors of a whole circuit: the forced nets are constant, the nets    *)
(* outside tfo keep their values, the others compute theirs, and no net is *)
(* without a value.                                                        *)
LEMMA CofactorWhole ==
  ASSUME NEW c, NEW drv, NEW v, Whole(c, drv, v), NEW forced, DOMAIN forced \subseteq c.nets,
         NEW tfo, NEW w, w = Cofactor(c, drv, v, forced, tfo)
  PROVE  /\ w \in [NetsOf(c) -> Values(c)] /\ \A n \in NetsOf(c) : w[n] # Unset
         /\ \A n \in DOMAIN forced : w[n] = Const(c, forced[n])
         /\ \A n \in NetsOf(c) \ DOMAIN forced :
              IF n \in tfo /\ (n \in DOMAIN drv \/ n \in Driven(c))
              THEN w[n] = NetValue(c, drv, w, n) ELSE w[n] = v[n]
<1>. DEFINE start == [n \in c.nets \union {0, 1} |->
                        IF n \in DOMAIN forced THEN Const(c, forced[n])
                        ELSE IF n \in tfo /\ (n \in DOMAIN drv \/ n \in Driven(c))
                        THEN Unset ELSE v[n]]
<1>1. w = Settle(c, drv, start)
  BY DEF Cofactor
<1>2. IsCircuit(c) /\ PatchesOK(c, drv)
  BY DEF Whole
<1>3. /\ v \in [NetsOf(c) -> Values(c)] /\ \A n \in NetsOf(c) : v[n] # Unset
      /\ \E b \in Nat : \E rank \in [NetsOf(c) -> 0 .. b] :
           \A n \in DOMAIN drv \union Driven(c) :
             \A m \in Reads(c, drv, n) : rank[m] < rank[n]
  BY WholeValues
<1>4. \A k : Const(c, k) \in Values(c) /\ Const(c, k) # Unset
  <2>1. \A k : Const(c, k) \subseteq Patterns(c)
    BY DEF Const
  <2>. QED BY <1>2, <2>1, IsValue
<1>5. /\ DOMAIN start = NetsOf(c)
      /\ \A n \in NetsOf(c) : start[n] = IF n \in DOMAIN forced THEN Const(c, forced[n])
                       ELSE IF n \in tfo /\ (n \in DOMAIN drv \/ n \in Driven(c))
                       THEN Unset ELSE v[n]
  BY DEF NetsOf
<1>6. start \in [NetsOf(c) -> Values(c)]
  <2>1. Unset \in Values(c)
    BY DEF Values
  <2>2. \A n \in NetsOf(c) : start[n] \in Values(c)
    BY <1>3, <1>4, <1>5, <2>1
  <2>3. start = [n \in NetsOf(c) |-> start[n]]
    BY DEF NetsOf
  <2>. HIDE DEF start
  <2>. QED BY <2>2, <2>3
<1>. HIDE DEF start
<1>7. start[0] # Unset /\ start[1] # Unset
  <2>1. 0 \notin c.nets /\ 1 \notin c.nets
    BY <1>2 DEF IsCircuit
  <2>2. DOMAIN drv \subseteq c.nets /\ Driven(c) \subseteq c.nets
    BY <1>2 DEF IsCircuit, PatchesOK
  <2>. QED BY <1>3, <1>5, <2>1, <2>2 DEF NetsOf
<1>8. IsSettled(c, drv, start, w)
  BY <1>1, <1>2, <1>6, <1>7, SettleSettles DEF CanSettle
<1>9. /\ w \in [NetsOf(c) -> Values(c)]
      /\ \A n \in NetsOf(c) : start[n] # Unset => w[n] = start[n]
      /\ \A n \in c.nets : ~Ready(c, drv, w, n)
  BY <1>8 DEF IsSettled, Partly
<1>10. \A n \in NetsOf(c) : start[n] = Unset /\ w[n] # Unset => w[n] = NetValue(c, drv, w, n)
  BY <1>8 DEF IsSettled, Partly, Ranked
<1>11. PICK b \in Nat : \E rank \in [NetsOf(c) -> 0 .. b] :
           \A n \in DOMAIN drv \union Driven(c) :
             \A m \in Reads(c, drv, n) : rank[m] < rank[n]
  BY <1>3
<1>12. PICK rank \in [NetsOf(c) -> 0 .. b] :
           \A n \in DOMAIN drv \union Driven(c) :
             \A m \in Reads(c, drv, n) : rank[m] < rank[n]
  BY <1>11
<1>13. \A n \in NetsOf(c) : w[n] # Unset
  <2>. DEFINE X == {n \in NetsOf(c) : w[n] = Unset}
  <2>1. SUFFICES ASSUME X # {} PROVE FALSE
    OBVIOUS
  <2>2. PICK n \in X : \A m \in X : rank[n] <= rank[m]
    <3>1. X \subseteq NetsOf(c)
      OBVIOUS
    <3>. HIDE DEF X
    <3>. QED BY <2>1, <3>1, Lowest
  <2>3. n \in DOMAIN drv \union Driven(c) /\ n \in NetsOf(c) /\ w[n] = Unset
    BY <1>3, <1>4, <1>5, <1>9
  <2>4. n \in c.nets
    BY <1>2, <2>3, ReadsTyped
  <2>5. PICK m \in Reads(c, drv, n) : w[m] = Unset
    BY <1>9, <2>3, <2>4 DEF Ready
  <2>6. m \in NetsOf(c)
    BY <1>2, <2>3, ReadsTyped
  <2>7. m \in X /\ rank[m] < rank[n] /\ rank[m] \in Int /\ rank[n] \in Int
    BY <1>12, <2>3, <2>5, <2>6
  <2>. QED BY <2>2, <2>7
<1>14. \A n \in DOMAIN forced : n \in NetsOf(c)
  BY DEF NetsOf
<1>. QED BY <1>3, <1>4, <1>5, <1>9, <1>10, <1>13, <1>14

-----------------------------------------------------------------------------
(* New patches.                                                            *)

(* The patches new have those of drv and one more for every net of N.  D   *)
(* holds the nets of N and all that is computed from nets of D, and none   *)
(* of the new patches reads a net of D.                                    *)
Extends(c, drv, new, N, D) ==
  /\ PatchesOK(c, new) /\ N \intersect DOMAIN drv = {}
  /\ DOMAIN new = DOMAIN drv \union N /\ \A n \in DOMAIN drv : new[n] = drv[n]
  /\ N \subseteq D /\ D \subseteq c.nets
  /\ \A n \in c.nets \ D : Reads(c, drv, n) \intersect D = {}
  /\ \A t \in N : Reads(c, new, t) \intersect D = {}

LEMMA OtherReads ==
  ASSUME NEW c, NEW drv, NEW new, NEW N, NEW D, Extends(c, drv, new, N, D), NEW n, n \notin N
  PROVE  /\ Reads(c, new, n) = Reads(c, drv, n) /\ (n \in DOMAIN new <=> n \in DOMAIN drv)
         /\ \A v : NetValue(c, new, v, n) = NetValue(c, drv, v, n)
BY DEF Extends, Reads, NetValue

(* No new patch is on a cycle, and what is outside D keeps its value.      *)
LEMMA ExtendsWhole ==
  ASSUME NEW c, NEW drv, NEW new, NEW N, NEW D, Extends(c, drv, new, N, D),
         NEW v, Whole(c, drv, v), NEW w, w = Evaluate(c, new)
  PROVE  Whole(c, new, w) /\ \A n \in NetsOf(c) \ D : w[n] = v[n]
<1>1. IsCircuit(c) /\ PatchesOK(c, drv) /\ PatchesOK(c, new)
  BY DEF Whole, Extends
<1>2. /\ v \in [NetsOf(c) -> Values(c)] /\ v[0] = Const(c, 0) /\ v[1] = Const(c, 1)
      /\ \A n \in Inputs(c) \ DOMAIN drv : v[n] = c.pis[n]
      /\ c.nets \subseteq Inputs(c) \union DOMAIN drv \union Driven(c)
      /\ \A n \in DOMAIN drv \union Driven(c) : v[n] = NetValue(c, drv, v, n)
      /\ \E b \in Nat : \E rank \in [NetsOf(c) -> 0 .. b] :
           \A n \in DOMAIN drv \union Driven(c) :
             \A m \in Reads(c, drv, n) : rank[m] < rank[n]
  BY WholeValues
<1>3. PICK b \in Nat : \E rank \in [NetsOf(c) -> 0 .. b] :
           \A n \in DOMAIN drv \union Driven(c) :
             \A m \in Reads(c, drv, n) : rank[m] < rank[n]
  BY <1>2
<1>4. PICK rank \in [NetsOf(c) -> 0 .. b] :
           \A n \in DOMAIN drv \union Driven(c) :
             \A m \in Reads(c, drv, n) : rank[m] < rank[n]
  BY <1>3
<1>5. PICK up : up = [n \in NetsOf(c) |-> IF n \in D THEN rank[n] + b + 1 ELSE rank[n]]
  OBVIOUS
<1>6. /\ up \in [NetsOf(c) -> 0 .. b + b + 1] /\ b + b + 1 \in Nat
      /\ \A n \in NetsOf(c) : /\ rank[n] \in Int /\ 0 <= rank[n] /\ rank[n] <= b
                              /\ up[n] = IF n \in D THEN rank[n] + b + 1 ELSE rank[n]
  BY <1>5
<1>7. ASSUME NEW n \in DOMAIN new \union Driven(c), NEW m \in Reads(c, new, n)
      PROVE  up[m] < up[n]
  <2>1. n \in c.nets /\ n \in NetsOf(c) /\ m \in NetsOf(c)
    BY <1>1, <1>7, ReadsTyped DEF NetsOf
  <2>2. CASE n \in N
    BY <1>6, <1>7, <2>1, <2>2 DEF Extends
  <2>3. CASE n \notin N
    <3>1. m \in Reads(c, drv, n) /\ n \in DOMAIN drv \union Driven(c)
      BY <1>7, <2>3, OtherReads
    <3>2. rank[m] < rank[n]
      BY <1>4, <3>1
    <3>3. n \notin D => m \notin D
      BY <2>1, <3>1 DEF Extends
    <3>. QED BY <1>6, <2>1, <3>2, <3>3
  <2>. QED BY <2>2, <2>3
<1>8. RanksReads(c, new, b + b + 1, up)
  BY <1>6, <1>7 DEF RanksReads
<1>9. c.nets \subseteq Inputs(c) \union DOMAIN new \union Driven(c)
  BY <1>2 DEF Extends
<1>10. Whole(c, new, w)
  BY <1>1, <1>8, <1>9, RankedWhole
<1>11. /\ w \in [NetsOf(c) -> Values(c)] /\ w[0] = Const(c, 0) /\ w[1] = Const(c, 1)
       /\ \A n \in Inputs(c) \ DOMAIN new : w[n] = c.pis[n]
       /\ \A n \in DOMAIN new \union Driven(c) : w[n] = NetValue(c, new, w, n)
  BY <1>10, WholeValues
<1>12. \A n \in NetsOf(c) \ D : w[n] = v[n]
  <2>. DEFINE X == {n \in NetsOf(c) \ D : w[n] # v[n]}
  <2>1. SUFFICES ASSUME X # {} PROVE FALSE
    OBVIOUS
  <2>2. PICK n \in X : \A m \in X : rank[n] <= rank[m]
    <3>1. X \subseteq NetsOf(c)
      OBVIOUS
    <3>. HIDE DEF X
    <3>. QED BY <2>1, <3>1, Lowest
  <2>3. n \in c.nets \ D /\ n \notin N
    BY <1>2, <1>11 DEF NetsOf, Extends
  <2>4. n \in DOMAIN drv \union Driven(c) /\ n \in DOMAIN new \union Driven(c)
    <3>1. n \in DOMAIN new <=> n \in DOMAIN drv
      BY <2>3, OtherReads
    <3>. QED BY <1>2, <1>11, <2>3, <3>1
  <2>5. ASSUME NEW m \in Reads(c, drv, n) PROVE w[m] = v[m]
    <3>1. m \in NetsOf(c) /\ m \notin D
      BY <1>1, <2>3, <2>4, ReadsTyped DEF Extends
    <3>2. rank[m] < rank[n] /\ rank[m] \in Int /\ rank[n] \in Int
      BY <1>4, <1>6, <2>4, <3>1
    <3>. QED BY <2>2, <3>1, <3>2
  <2>6. NetValue(c, drv, w, n) = NetValue(c, drv, v, n)
    BY <2>4, <2>5, NetValueSame
  <2>7. w[n] = v[n]
    BY <1>2, <1>11, <2>3, <2>4, <2>6, OtherReads
  <2>. QED BY <2>7
<1>. QED BY <1>10, <1>12

(* On a pattern, the patched circuit has the values of the cofactor for    *)
(* the values the new patches have on it.                                  *)
LEMMA CofactorAgrees ==
  ASSUME NEW c, NEW drv, NEW new, NEW N, NEW D, Extends(c, drv, new, N, D),
         NEW v, Whole(c, drv, v), NEW w, w = Evaluate(c, new),
         NEW forced, DOMAIN forced = N, NEW cof, cof = Cofactor(c, drv, v, forced, D),
         NEW q \in Patterns(c), \A t \in N : q \in w[t] <=> forced[t] = 1
  PROVE  \A n \in NetsOf(c) : q \in cof[n] <=> q \in w[n]
<1>1. IsCircuit(c) /\ PatchesOK(c, drv) /\ PatchesOK(c, new) /\ N \subseteq c.nets
  BY DEF Whole, Extends
<1>2. Whole(c, new, w) /\ \A n \in NetsOf(c) \ D : w[n] = v[n]
  BY ExtendsWhole
<1>3. /\ \A n \in N : cof[n] = Const(c, forced[n])
      /\ \A n \in NetsOf(c) \ N :
           IF n \in D /\ (n \in DOMAIN drv \/ n \in Driven(c))
           THEN cof[n] = NetValue(c, drv, cof, n) ELSE cof[n] = v[n]
  BY <1>1, CofactorWhole
<1>4. /\ c.nets \subseteq Inputs(c) \union DOMAIN drv \union Driven(c)
      /\ \A n \in Inputs(c) \ DOMAIN drv : v[n] = c.pis[n]
  BY WholeValues
<1>5. /\ \A n \in DOMAIN new \union Driven(c) : w[n] = NetValue(c, new, w, n)
      /\ \A n \in Inputs(c) \ DOMAIN new : w[n] = c.pis[n]
      /\ \E b \in Nat : \E rank \in [NetsOf(c) -> 0 .. b] :
           \A n \in DOMAIN new \union Driven(c) :
             \A m \in Reads(c, new, n) : rank[m] < rank[n]
  BY <1>2, WholeValues
<1>6. PICK b \in Nat : \E rank \in [NetsOf(c) -> 0 .. b] :
           \A n \in DOMAIN new \union Driven(c) :
             \A m \in Reads(c, new, n) : rank[m] < rank[n]
  BY <1>5
<1>7. PICK rank \in [NetsOf(c) -> 0 .. b] :
           \A n \in DOMAIN new \union Driven(c) :
             \A m \in Reads(c, new, n) : rank[m] < rank[n]
  BY <1>6
<1>. DEFINE X == {n \in NetsOf(c) : ~(q \in cof[n] <=> q \in w[n])}
<1>8. SUFFICES ASSUME X # {} PROVE FALSE
  OBVIOUS
<1>9. PICK n \in X : \A m \in X : rank[n] <= rank[m]
  <2>1. X \subseteq NetsOf(c)
    OBVIOUS
  <2>. HIDE DEF X
  <2>. QED BY <1>8, <2>1, Lowest
<1>10. n \notin N
  <2>1. \A t \in N : q \in cof[t] <=> forced[t] = 1
    BY <1>3 DEF Const
  <2>. QED BY <2>1
<1>11. n \in D
  <2>1. ASSUME n \notin D PROVE cof[n] = w[n]
    BY <1>2, <1>3, <1>10, <2>1
  <2>. QED BY <2>1
<1>12. n \in c.nets /\ (n \in DOMAIN new <=> n \in DOMAIN drv)
       /\ Reads(c, new, n) = Reads(c, drv, n)
       /\ NetValue(c, new, w, n) = NetValue(c, drv, w, n)
  <2>1. n \in c.nets
    BY <1>11 DEF Extends
  <2>. HIDE DEF X
  <2>2. /\ Reads(c, new, n) = Reads(c, drv, n) /\ (n \in DOMAIN new <=> n \in DOMAIN drv)
        /\ \A x : NetValue(c, new, x, n) = NetValue(c, drv, x, n)
    BY ONLY <1>10, OtherReads, Extends(c, drv, new, N, D)
  <2>. QED BY <2>1, <2>2
<1>13. CASE n \in DOMAIN drv \union Driven(c)
  <2>1. ASSUME NEW m \in Reads(c, drv, n) PROVE q \in cof[m] <=> q \in w[m]
    <3>1. m \in NetsOf(c) /\ n \in NetsOf(c)
      BY <1>1, <1>12, <1>13, ReadsTyped DEF NetsOf
    <3>2. rank[m] < rank[n] /\ rank[m] \in Int /\ rank[n] \in Int
      BY <1>7, <1>12, <1>13, <3>1
    <3>. QED BY <1>9, <3>1, <3>2
  <2>2. q \in NetValue(c, drv, cof, n) <=> q \in NetValue(c, drv, w, n)
    BY <1>1, <1>13, <2>1, NetValuePointwise
  <2>3. cof[n] = NetValue(c, drv, cof, n)
    BY <1>3, <1>10, <1>11, <1>13
  <2>4. w[n] = NetValue(c, drv, w, n)
    BY <1>5, <1>12, <1>13
  <2>. QED BY <2>2, <2>3, <2>4
<1>14. CASE n \notin DOMAIN drv \union Driven(c)
  <2>1. cof[n] = v[n]
    BY <1>3, <1>10, <1>14
  <2>2. v[n] = c.pis[n] /\ w[n] = c.pis[n]
    BY <1>4, <1>5, <1>12, <1>14
  <2>. QED BY <2>1, <2>2
<1>. QED BY <1>13, <1>14

(* On every pattern the values of the new patches are constants with which *)
(* no output of P is wrong.                                                *)
Chosen(c, drv, v, w, N, D, P) ==
  \A q \in Patterns(c) : \E forced :
    /\ DOMAIN forced = N /\ \A t \in N : q \in w[t] <=> forced[t] = 1
    /\ q \notin Bad(c, P, Cofactor(c, drv, v, forced, D))

(* Outputs of P are right when on no pattern the cofactor for the values   *)
(* of the new patches is wrong.                                            *)
LEMMA Repairs ==
  ASSUME NEW c, NEW drv, NEW new, NEW N, NEW D, Extends(c, drv, new, N, D),
         NEW v, Whole(c, drv, v), NEW w, w = Evaluate(c, new),
         NEW P, P \subseteq c.nets, \A o \in P : c.spec[o] \subseteq Patterns(c),
         Chosen(c, drv, v, w, N, D, P)
  PROVE  \A o \in P : w[o] = c.spec[o]
<1>1. SUFFICES ASSUME NEW o \in P PROVE w[o] = c.spec[o]
  OBVIOUS
<1>2. Whole(c, new, w)
  BY ExtendsWhole
<1>3. w[o] \subseteq Patterns(c)
  <2>1. o \in NetsOf(c)
    BY DEF NetsOf
  <2>. QED BY <1>2, <2>1, WholeValues DEF Values
<1>4. ASSUME NEW q \in Patterns(c) PROVE q \in w[o] <=> q \in c.spec[o]
  <2>1. PICK forced :
          /\ DOMAIN forced = N /\ \A t \in N : q \in w[t] <=> forced[t] = 1
          /\ q \notin Bad(c, P, Cofactor(c, drv, v, forced, D))
    BY DEF Chosen
  <2>2. PICK cof : cof = Cofactor(c, drv, v, forced, D)
    OBVIOUS
  <2>3. DOMAIN forced \subseteq c.nets
    BY <2>1 DEF Extends
  <2>4. \A n \in NetsOf(c) : cof[n] # Unset
    BY <2>2, <2>3, CofactorWhole
  <2>5. Bad(c, P, cof) = {p \in Patterns(c) : \E x \in P : (p \in cof[x]) # (p \in c.spec[x])}
    BY <2>4 DEF Bad, NetsOf
  <2>6. q \in cof[o] <=> q \in c.spec[o]
    BY <2>1, <2>2, <2>5
  <2>7. q \in cof[o] <=> q \in w[o]
    BY <2>1, <2>2, CofactorAgrees DEF NetsOf
  <2>. QED BY <2>6, <2>7
<1>. QED BY <1>3, <1>4

-----------------------------------------------------------------------------
(* Where old values are stable.                                            *)

(* The nets computed from net n, itself among them.                        *)
Depends(c, drv, n) ==
  Closure(c, {n}, [k \in c.nets |-> {m \in c.nets : k \in Reads(c, drv, m)}])

(* A patch that reads the old value of its net has no other patch upstream. *)
Stable(c, drv) ==
  \A t, u \in DOMAIN drv : t # u /\ (\E p \in drv[t].sup : p < 0) => t \notin Depends(c, drv, u)

(* Patches that read nets and the old value of their own net only.         *)
OwnOld(c, drv) ==
  /\ DOMAIN drv \subseteq c.nets
  /\ \A n \in DOMAIN drv : \A p \in drv[n].sup : p \in c.nets \/ p = -n

(* Patches for the nets of N are added to those of drv.                    *)
Adds(c, drv, new, N) ==
  /\ IsCircuit(c) /\ c.nets \subseteq Inputs(c) \union Driven(c) /\ OwnOld(c, new)
  /\ N \subseteq c.nets /\ N \intersect DOMAIN drv = {}
  /\ DOMAIN new = DOMAIN drv \union N /\ \A n \in DOMAIN drv : new[n] = drv[n]

LEMMA DependsLeast ==
  ASSUME NEW c, IsCircuit(c), NEW drv, NEW n \in c.nets
  PROVE  /\ n \in Depends(c, drv, n) /\ Depends(c, drv, n) \subseteq c.nets
         /\ \A m \in Depends(c, drv, n) : \A k \in c.nets :
              m \in Reads(c, drv, k) => k \in Depends(c, drv, n)
         /\ \A X : n \in X /\ (\A m \in X \intersect c.nets : \A k \in c.nets :
                                 m \in Reads(c, drv, k) => k \in X)
              => Depends(c, drv, n) \subseteq X
<1>1. PICK E : E = [k \in c.nets |-> {m \in c.nets : k \in Reads(c, drv, m)}]
  OBVIOUS
<1>2. E \in [c.nets -> SUBSET c.nets] /\ {n} \in SUBSET c.nets /\ IsFiniteSet(c.nets)
  BY <1>1 DEF IsCircuit
<1>3. IsClosure(c, {n}, E, Depends(c, drv, n))
  BY <1>1, <1>2, ClosureCloses DEF Depends
<1>4. \A m \in c.nets : E[m] = {k \in c.nets : m \in Reads(c, drv, k)}
  BY <1>1
<1>. QED BY <1>3, <1>4 DEF IsClosure

LEMMA TfoLeast ==
  ASSUME NEW c, IsCircuit(c), NEW drv, NEW n \in c.nets
  PROVE  /\ n \in Tfo(c, drv, n) /\ Tfo(c, drv, n) \subseteq c.nets
         /\ \A m \in Tfo(c, drv, n) : \A k \in c.nets :
              m \in Adjacent(c, drv, k) => k \in Tfo(c, drv, n)
         /\ \A X : n \in X /\ (\A m \in X \intersect c.nets : \A k \in c.nets :
                                 m \in Adjacent(c, drv, k) => k \in X)
              => Tfo(c, drv, n) \subseteq X
<1>1. PICK E : E = [k \in c.nets |-> {m \in c.nets : k \in Adjacent(c, drv, m)}]
  OBVIOUS
<1>2. E \in [c.nets -> SUBSET c.nets] /\ {n} \in SUBSET c.nets /\ IsFiniteSet(c.nets)
  BY <1>1 DEF IsCircuit
<1>3. IsClosure(c, {n}, E, Tfo(c, drv, n))
  BY <1>1, <1>2, ClosureCloses DEF Tfo
<1>4. \A m \in c.nets : E[m] = {k \in c.nets : m \in Adjacent(c, drv, k)}
  BY <1>1
<1>. QED BY <1>3, <1>4 DEF IsClosure

LEMMA AddsReads ==
  ASSUME NEW c, NEW drv, NEW new, NEW N, Adds(c, drv, new, N), NEW n, n \notin N
  PROVE  Reads(c, new, n) = Reads(c, drv, n) /\ (n \in DOMAIN new <=> n \in DOMAIN drv)
BY DEF Adds, Reads

LEMMA AddsPatchesOK ==
  ASSUME NEW c, NEW drv, NEW new, NEW N, Adds(c, drv, new, N)
  PROVE  PatchesOK(c, new) /\ PatchesOK(c, drv)
<1>1. /\ DOMAIN new \subseteq c.nets /\ c.nets \subseteq Inputs(c) \union Driven(c)
      /\ \A n \in DOMAIN new : \A p \in new[n].sup : p \in c.nets \/ p = -n
      /\ DOMAIN drv \subseteq DOMAIN new /\ \A n \in DOMAIN drv : drv[n] = new[n]
      /\ c.nets \subseteq Nat
  BY DEF Adds, OwnOld, IsCircuit
<1>2. \A n \in c.nets : \A p : p = -n => p \in Int /\ -p = n /\ -p \in Inputs(c) \union Driven(c)
  BY <1>1
<1>3. PatchesOK(c, new)
  BY <1>1, <1>2 DEF PatchesOK
<1>4. PatchesOK(c, drv)
  BY <1>1, <1>2 DEF PatchesOK
<1>. QED BY <1>3, <1>4

(* New patches never make old values stable that were not: what depended   *)
(* on a patch depends on it still, or on one of the new ones.              *)
LEMMA StableBefore ==
  ASSUME NEW c, NEW drv, NEW new, NEW N, Adds(c, drv, new, N), Stable(c, new)
  PROVE  Stable(c, drv)
<1>1. SUFFICES ASSUME NEW t \in DOMAIN drv, NEW u \in DOMAIN drv, t # u,
                      \E p \in drv[t].sup : p < 0, t \in Depends(c, drv, u)
               PROVE  FALSE
  BY DEF Stable
<1>2. /\ IsCircuit(c) /\ u \in c.nets /\ t \in DOMAIN new /\ u \in DOMAIN new
      /\ \E p \in new[t].sup : p < 0
      /\ N \subseteq DOMAIN new /\ N \subseteq c.nets /\ t \notin N
  BY <1>1 DEF Adds, OwnOld
<1>3. PICK X : X = Depends(c, new, u) \union UNION {Depends(c, new, s) : s \in N}
  OBVIOUS
<1>4. u \in X /\ \A s \in N : s \in X
  BY <1>2, <1>3, DependsLeast
<1>5. ASSUME NEW m \in X, NEW k \in c.nets, m \in Reads(c, drv, k) PROVE k \in X
  <2>1. CASE k \in N
    BY <1>4, <2>1
  <2>2. CASE k \notin N
    <3>1. m \in Reads(c, new, k)
      BY <1>5, <2>2, AddsReads
    <3>2. PICK s \in N \union {u} : m \in Depends(c, new, s)
      BY <1>3
    <3>3. k \in Depends(c, new, s)
      BY <1>2, <3>1, <3>2, DependsLeast
    <3>. QED BY <1>3, <3>2, <3>3
  <2>. QED BY <2>1, <2>2
<1>6. Depends(c, drv, u) \subseteq X
  <2>1. \A Y : u \in Y /\ (\A m \in Y \intersect c.nets : \A k \in c.nets :
                             m \in Reads(c, drv, k) => k \in Y)
          => Depends(c, drv, u) \subseteq Y
    BY <1>2, DependsLeast
  <2>. QED BY <1>4, <1>5, <2>1
<1>7. PICK s \in N \union {u} : t \in Depends(c, new, s)
  BY <1>1, <1>3, <1>6
<1>8. s \in DOMAIN new /\ t # s
  BY <1>1, <1>2, <1>7
<1>. QED BY <1>2, <1>7, <1>8 DEF Stable

(* With stable old values the fanout of buildAdj, which takes the old      *)
(* value of a net for the net, is the set of nets that depend on the new   *)
(* patches, and no new patch reads one of them.                            *)
LEMMA AddsExtends ==
  ASSUME NEW c, NEW drv, NEW new, NEW N, Adds(c, drv, new, N), Stable(c, new),
         NEW v, Whole(c, drv, v), NEW D, D = UNION {Tfo(c, drv, t) : t \in N},
         \A t \in N : \A p \in new[t].sup : p = -t \/ p \notin D
  PROVE  Extends(c, drv, new, N, D)
<1>1. /\ IsCircuit(c) /\ c.nets \subseteq Inputs(c) \union Driven(c)
      /\ DOMAIN new \subseteq c.nets /\ N \subseteq c.nets /\ N \intersect DOMAIN drv = {}
      /\ DOMAIN new = DOMAIN drv \union N /\ \A n \in DOMAIN drv : new[n] = drv[n]
      /\ \A n \in DOMAIN new : \A p \in new[n].sup : p \in c.nets \/ p = -n
      /\ c.nets \subseteq Nat \ {0, 1} /\ Driven(c) \subseteq c.nets \ Inputs(c)
  BY DEF Adds, OwnOld, IsCircuit
<1>2. PatchesOK(c, new) /\ PatchesOK(c, drv)
  BY AddsPatchesOK
<1>3. \A t \in N : t \in Tfo(c, drv, t) /\ Tfo(c, drv, t) \subseteq c.nets
  BY <1>1, TfoLeast
<1>4. N \subseteq D /\ D \subseteq c.nets
  BY <1>3
<1>5. ASSUME NEW m \in D, NEW k \in c.nets, m \in Adjacent(c, drv, k) PROVE k \in D
  <2>1. PICK t \in N : m \in Tfo(c, drv, t)
    OBVIOUS
  <2>2. k \in Tfo(c, drv, t)
    BY <1>1, <1>5, <2>1, TfoLeast
  <2>. QED BY <2>1, <2>2
<1>6. PICK Y : Y = UNION {Depends(c, new, t) : t \in N}
  OBVIOUS
<1>7. N \subseteq Y
  BY <1>1, <1>6, DependsLeast
<1>8. ASSUME NEW m \in Y, NEW k \in c.nets, m \in Reads(c, new, k) PROVE k \in Y
  <2>1. PICK t \in N : m \in Depends(c, new, t)
    BY <1>6
  <2>2. k \in Depends(c, new, t)
    BY <1>1, <1>8, <2>1, DependsLeast
  <2>. QED BY <1>6, <2>1, <2>2
<1>9. ASSUME NEW m \in Y \intersect c.nets, NEW k \in c.nets, m \in Adjacent(c, drv, k)
      PROVE  k \in Y
  <2>1. CASE k \in N
    BY <1>7, <2>1
  <2>2. CASE k \notin N /\ k \in DOMAIN drv
    <3>1. PICK p \in drv[k].sup : m = IF p > 0 THEN p ELSE -p
      BY <1>9, <2>2 DEF Adjacent
    <3>2. CASE p > 0
      <4>1. m \in Reads(c, new, k)
        BY <1>1, <2>2, <3>1, <3>2 DEF Reads
      <4>. QED BY <1>8, <4>1
    <3>3. CASE ~(p > 0)
      <4>1. p \in c.nets \/ p = -k
        BY <1>1, <2>2
      <4>2. m = k
        BY <1>1, <3>1, <3>3, <4>1
      <4>. QED BY <4>2
    <3>. QED BY <3>2, <3>3
  <2>3. CASE k \notin N /\ k \notin DOMAIN drv
    <3>1. k \in Driven(c) /\ m \in Ins(c, k)
      BY <1>9, <2>3 DEF Adjacent
    <3>2. m \in Reads(c, drv, k)
      BY <2>3, <3>1 DEF Reads
    <3>3. m \in Reads(c, new, k)
      BY <2>3, <3>2, AddsReads
    <3>. QED BY <1>8, <3>3
  <2>. QED BY <2>1, <2>2, <2>3
<1>10. D \subseteq Y
  <2>1. ASSUME NEW t \in N PROVE Tfo(c, drv, t) \subseteq Y
    <3>1. \A X : t \in X /\ (\A m \in X \intersect c.nets : \A k \in c.nets :
                               m \in Adjacent(c, drv, k) => k \in X)
            => Tfo(c, drv, t) \subseteq X
      BY <1>1, TfoLeast
    <3>. QED BY <1>7, <1>9, <3>1
  <2>. QED BY <2>1
<1>11. ASSUME NEW n \in c.nets, n \notin N, NEW m \in D, m \in Reads(c, drv, n) PROVE n \in D
  <2>1. m \in c.nets /\ m # 0 /\ m # 1
    BY <1>1, <1>4
  <2>2. CASE n \notin DOMAIN drv
    <3>1. n \in Driven(c) /\ m \in Ins(c, n)
      BY <1>11, <2>2 DEF Reads
    <3>2. m \in Adjacent(c, drv, n)
      BY <2>1, <2>2, <3>1 DEF Adjacent
    <3>. QED BY <1>5, <3>2
  <2>3. CASE n \in DOMAIN drv
    <3>1. PICK p \in drv[n].sup :
            m \in IF p > 0 THEN {p} ELSE IF -p \in Inputs(c) THEN {} ELSE Ins(c, -p)
      BY <1>11, <2>3 DEF Reads
    <3>2. CASE p > 0
      <4>1. m \in Adjacent(c, drv, n)
        BY <2>3, <3>1, <3>2 DEF Adjacent
      <4>. QED BY <1>5, <4>1
    <3>3. CASE ~(p > 0)
      <4>1. p = -n /\ p < 0
        BY <1>1, <2>3, <3>3
      <4>2. n \in DOMAIN new /\ p \in new[n].sup
        BY <1>1, <2>3
      <4>3. PICK t \in N : m \in Depends(c, new, t)
        BY <1>6, <1>10
      <4>4. m \in Reads(c, new, n)
        BY <1>11, AddsReads
      <4>5. n \in Depends(c, new, t)
        BY <1>1, <4>3, <4>4, DependsLeast
      <4>6. n # t /\ t \in DOMAIN new
        BY <1>1, <1>11, <4>3
      <4>. QED BY <4>1, <4>2, <4>5, <4>6 DEF Stable
    <3>. QED BY <3>2, <3>3
  <2>. QED BY <2>2, <2>3
<1>12. ASSUME NEW n \in c.nets \ D PROVE Reads(c, drv, n) \intersect D = {}
  BY <1>4, <1>11
<1>13. ASSUME NEW t \in N PROVE Reads(c, new, t) \intersect D = {}
  <2>1. SUFFICES ASSUME NEW m \in D, m \in Reads(c, new, t) PROVE FALSE
    OBVIOUS
  <2>2. t \in DOMAIN new /\ t \in c.nets /\ t \notin DOMAIN drv
    BY <1>1
  <2>3. PICK p \in new[t].sup :
          m \in IF p > 0 THEN {p} ELSE IF -p \in Inputs(c) THEN {} ELSE Ins(c, -p)
    BY <2>1, <2>2 DEF Reads
  <2>4. ~(p > 0)
    <3>1. ASSUME p > 0 PROVE FALSE
      <4>1. m = p
        BY <2>3, <3>1
      <4>2. p # -t
        BY <1>1, <2>2, <3>1
      <4>. QED BY <4>1, <4>2
    <3>. QED BY <3>1
  <2>5. p = -t /\ p < 0 /\ -p = t
    BY <1>1, <2>2, <2>4
  <2>6. t \in Driven(c) /\ m \in Ins(c, t)
    BY <1>1, <2>2, <2>3, <2>4, <2>5
  <2>7. \A s \in N : s # t => m \notin Depends(c, new, s)
    <3>1. SUFFICES ASSUME NEW s \in N, s # t, m \in Depends(c, new, s) PROVE FALSE
      OBVIOUS
    <3>2. t \in Depends(c, new, s)
      BY <1>1, <2>1, <2>2, <3>1, DependsLeast
    <3>3. s \in DOMAIN new
      BY <1>1
    <3>. QED BY <2>2, <2>5, <3>1, <3>2, <3>3 DEF Stable
  <2>8. m \in Depends(c, new, t)
    BY <1>6, <1>10, <2>7
  <2>9. PICK b \in Nat : \E rank \in [NetsOf(c) -> 0 .. b] :
          \A n \in DOMAIN drv \union Driven(c) :
            \A x \in Reads(c, drv, n) : rank[x] < rank[n]
    BY WholeValues
  <2>10. PICK rank \in [NetsOf(c) -> 0 .. b] :
          \A n \in DOMAIN drv \union Driven(c) :
            \A x \in Reads(c, drv, n) : rank[x] < rank[n]
    BY <2>9
  <2>11. \A x \in c.nets : rank[x] \in Int
    BY DEF NetsOf
  <2>12. PICK X : X = {x \in c.nets : rank[t] <= rank[x]}
                        \union UNION {Depends(c, new, s) : s \in N \ {t}}
    OBVIOUS
  <2>13. t \in X
    BY <2>2, <2>11, <2>12
  <2>14. ASSUME NEW x \in X \intersect c.nets, NEW k \in c.nets, x \in Reads(c, new, k)
         PROVE  k \in X
    <3>1. CASE k = t
      BY <2>13, <3>1
    <3>2. CASE k \in N /\ k # t
      <4>1. k \in Depends(c, new, k)
        BY <1>1, DependsLeast
      <4>. QED BY <2>12, <3>2, <4>1
    <3>3. CASE k \notin N /\ \E s \in N \ {t} : x \in Depends(c, new, s)
      <4>1. PICK s \in N \ {t} : x \in Depends(c, new, s)
        BY <3>3
      <4>2. k \in Depends(c, new, s)
        BY <1>1, <2>14, <4>1, DependsLeast
      <4>. QED BY <2>12, <4>1, <4>2
    <3>4. CASE k \notin N /\ rank[t] <= rank[x]
      <4>1. x \in Reads(c, drv, k)
        BY <2>14, <3>4, AddsReads
      <4>2. k \in DOMAIN drv \union Driven(c)
        BY <4>1 DEF Reads
      <4>3. rank[x] < rank[k]
        BY <2>10, <4>1, <4>2
      <4>4. rank[t] <= rank[k]
        BY <2>2, <2>11, <2>14, <3>4, <4>3
      <4>. QED BY <2>12, <4>4
    <3>. QED BY <2>12, <2>14, <3>1, <3>2, <3>3, <3>4
  <2>15. Depends(c, new, t) \subseteq X
    <3>1. \A Z : t \in Z /\ (\A x \in Z \intersect c.nets : \A k \in c.nets :
                               x \in Reads(c, new, k) => k \in Z)
            => Depends(c, new, t) \subseteq Z
      BY <1>1, <2>2, DependsLeast
    <3>. QED BY <2>13, <2>14, <3>1
  <2>16. rank[t] <= rank[m]
    BY <2>7, <2>8, <2>12, <2>15
  <2>17. m \in Reads(c, drv, t)
    BY <2>2, <2>6 DEF Reads
  <2>18. rank[m] < rank[t] /\ m \in c.nets
    BY <1>4, <2>6, <2>10, <2>17
  <2>. QED BY <2>2, <2>11, <2>16, <2>18
<1>. QED BY <1>1, <1>2, <1>4, <1>12, <1>13 DEF Extends

-----------------------------------------------------------------------------
(* What synthesize returns, and what it repairs.                           *)

(* The value of port p of a patch of net t, before it is applied.          *)
OldOr(v, t, p) == IF p = -t THEN v[t] ELSE v[p]

(* A function for net t that reads nothing behind it, is 1 on b0 and 0 on  *)
(* b1.                                                                     *)
FixFor(c, v, t, tfo, b0, b1, f) ==
  /\ f.sup \subseteq (c.nets \ tfo) \union {-t}
  /\ IsFiniteSet(f.sup) /\ f.on \subseteq SUBSET f.sup
  /\ \A q \in b0 : {p \in f.sup : q \in OldOr(v, t, p)} \in f.on
  /\ \A q \in b1 : {p \in f.sup : q \in OldOr(v, t, p)} \notin f.on

LEMMA SynthesizedFn ==
  ASSUME NEW c, IsCircuit(c), NEW T, NEW v, NEW t \in c.nets, NEW tfo, NEW b0, NEW b1,
         NEW k, NEW f \in Synthesized(c, T, v, t, tfo, b0, b1, k)
  PROVE  FixFor(c, v, t, tfo, b0, b1, f)
<1>. DEFINE divs == Divisors(T, v, t, tfo, c.nets)
            cell(S, q) == {d.port : d \in {e \in S : q \in e.val}}
            ports(S) == {d.port : d \in S}
            one(S) == {cell(S, q) : q \in b0}
            zero(S) == {cell(S, q) : q \in b1}
            supports == {S \in SUBSET divs : Cardinality(S) <= k}
            over(S) == IF one(S) \intersect zero(S) # {} THEN {}
                       ELSE {[sup |-> ports(S), on |-> one(S) \union dc] :
                               dc \in SUBSET ((SUBSET ports(S)) \ (one(S) \union zero(S)))}
<1>1. PICK S \in SUBSET divs :
        /\ one(S) \intersect zero(S) = {}
        /\ \E dc \in SUBSET ((SUBSET ports(S)) \ (one(S) \union zero(S))) :
             f = [sup |-> ports(S), on |-> one(S) \union dc]
  <2>1. Synthesized(c, T, v, t, tfo, b0, b1, k)
          = IF b0 = {} /\ b1 = {} THEN {}
            ELSE {g \in UNION {over(S) : S \in supports} : IsConstant(g) => g.sup = {}}
    BY Zenon DEF Synthesized
  <2>2. f \in UNION {over(S) : S \in supports}
    <3>. HIDE DEF over, supports
    <3>. QED BY <2>1
  <2>3. PICK S \in supports : f \in over(S)
    <3>. HIDE DEF over, supports
    <3>. QED BY <2>2
  <2>4. one(S) \intersect zero(S) = {}
    <3>. HIDE DEF one, zero
    <3>. QED BY <2>3
  <2>5. f \in {[sup |-> ports(S), on |-> one(S) \union dc] :
                dc \in SUBSET ((SUBSET ports(S)) \ (one(S) \union zero(S)))}
    <3>. HIDE DEF one, zero, ports
    <3>. QED BY <2>3, <2>4
  <2>6. S \in SUBSET divs
    <3>. HIDE DEF divs
    <3>. QED BY <2>3
  <2>. HIDE DEF one, zero, ports, divs
  <2>. QED BY <2>4, <2>5, <2>6
<1>2. PICK dc \in SUBSET ((SUBSET ports(S)) \ (one(S) \union zero(S))) :
        f = [sup |-> ports(S), on |-> one(S) \union dc]
  BY <1>1
<1>3. f.sup = ports(S) /\ f.on = one(S) \union dc
  BY <1>2
<1>4. \A d \in S : /\ d.port \in (c.nets \ tfo) \union {-t}
                   /\ d.val = OldOr(v, t, d.port)
  <2>1. SUFFICES ASSUME NEW d \in S
                 PROVE  d.port \in (c.nets \ tfo) \union {-t} /\ d.val = OldOr(v, t, d.port)
    OBVIOUS
  <2>2. CASE \E n \in c.nets \ tfo : d = [port |-> n, val |-> v[n]]
    <3>1. PICK n \in c.nets \ tfo : d = [port |-> n, val |-> v[n]]
      BY <2>2
    <3>2. n \in Nat /\ t \in Nat /\ t # 0
      BY DEF IsCircuit
    <3>. QED BY <3>1, <3>2 DEF OldOr
  <2>3. CASE d = [port |-> -t, val |-> v[t]]
    BY <2>3 DEF OldOr
  <2>. QED BY <2>2, <2>3 DEF Divisors
<1>5. \A q : cell(S, q) = {p \in ports(S) : q \in OldOr(v, t, p)}
  BY <1>4
<1>6. f.sup \subseteq (c.nets \ tfo) \union {-t}
  BY <1>3, <1>4
<1>7. IsFiniteSet(f.sup)
  <2>1. IsFiniteSet(c.nets \union {-t})
    BY FS_AddElement DEF IsCircuit
  <2>. QED BY <1>6, <2>1, FS_Subset
<1>8. f.on \subseteq SUBSET f.sup
  <2>1. \A q : cell(S, q) \subseteq ports(S)
    OBVIOUS
  <2>. QED BY <1>3, <2>1
<1>9. \A q \in b0 : {p \in f.sup : q \in OldOr(v, t, p)} \in f.on
  BY <1>3, <1>5
<1>10. \A q \in b1 : {p \in f.sup : q \in OldOr(v, t, p)} \notin f.on
  <2>1. SUFFICES ASSUME NEW q \in b1 PROVE cell(S, q) \notin f.on
    BY <1>3, <1>5
  <2>2. cell(S, q) \in zero(S)
    OBVIOUS
  <2>. HIDE DEF cell, one, zero, ports
  <2>. QED BY <1>1, <1>3, <2>2
<1>. QED BY <1>6, <1>7, <1>8, <1>9, <1>10 DEF FixFor

(* x is what patch function f for net t makes of the values v from before, *)
(* its port t_in carrying that of t itself.                                *)
ValueOf(c, v, t, f, x) ==
  \A q \in Patterns(c) : q \in x <=> {p \in f.sup : q \in OldOr(v, t, p)} \in f.on

(* In the patched circuit a new patch computes what it was synthesized to  *)
(* compute from the values before.                                         *)
LEMMA NewPatchValue ==
  ASSUME NEW c, NEW drv, NEW new, NEW N, NEW D, Extends(c, drv, new, N, D),
         NEW v, Whole(c, drv, v), NEW w, w = Evaluate(c, new), NEW t \in N,
         new[t].sup \subseteq (c.nets \ D) \union {-t}
  PROVE  w[t] = PatchValue(c, v, new[t]) /\ ValueOf(c, v, t, new[t], w[t])
<1>1. /\ IsCircuit(c) /\ PatchesOK(c, drv) /\ PatchesOK(c, new) /\ t \in c.nets
      /\ t \in DOMAIN new /\ t \notin DOMAIN drv /\ Reads(c, new, t) \intersect D = {}
      /\ c.nets \subseteq Nat \ {0, 1} /\ Driven(c) \subseteq c.nets \ Inputs(c)
  BY DEF Whole, Extends, IsCircuit
<1>2. Whole(c, new, w) /\ \A n \in NetsOf(c) \ D : w[n] = v[n]
  BY ExtendsWhole
<1>3. /\ \A n \in Inputs(c) \ DOMAIN drv : v[n] = c.pis[n]
      /\ c.nets \subseteq Inputs(c) \union DOMAIN drv \union Driven(c)
      /\ \A n \in DOMAIN drv \union Driven(c) : v[n] = NetValue(c, drv, v, n)
  BY WholeValues
<1>4. w[t] = NetValue(c, new, w, t)
  BY <1>1, <1>2, WholeValues
<1>5. \A m \in Reads(c, new, t) : w[m] = v[m]
  BY <1>1, <1>2, ReadsTyped
<1>6. w[t] = PatchValue(c, v, new[t])
  <2>1. NetValue(c, new, w, t) = NetValue(c, new, v, t)
    BY <1>1, <1>5, NetValueSame
  <2>. QED BY <1>1, <1>4, <2>1 DEF NetValue
<1>7. ASSUME NEW p \in new[t].sup PROVE PortValue(c, v, p) = OldOr(v, t, p)
  <2>1. CASE p # -t
    <3>1. p > 0
      BY <1>1, <2>1
    <3>. QED BY <2>1, <3>1 DEF PortValue, OldOr
  <2>2. CASE p = -t
    <3>1. ~(p > 0) /\ -p = t
      BY <1>1, <2>2
    <3>2. CASE t \in Inputs(c)
      BY <1>1, <1>3, <2>2, <3>1, <3>2 DEF PortValue, OldOr
    <3>3. CASE t \notin Inputs(c)
      <4>1. v[t] = NetValue(c, drv, v, t)
        BY <1>1, <1>3, <3>3
      <4>. QED BY <1>1, <2>2, <3>1, <3>3, <4>1 DEF PortValue, OldOr, NetValue
    <3>. QED BY <3>2, <3>3
  <2>. QED BY <2>1, <2>2
<1>8. \A q : {p \in new[t].sup : q \in PortValue(c, v, p)}
               = {p \in new[t].sup : q \in OldOr(v, t, p)}
  BY <1>7
<1>. QED BY <1>6, <1>8 DEF PatchValue, ValueOf

(* A fix of one net that is 1 where 0 leaves an output of P wrong, and 0   *)
(* where 1 does.                                                           *)
LEMMA SingleFix ==
  ASSUME NEW c, NEW drv, NEW new, NEW t, Adds(c, drv, new, {t}), Stable(c, new),
         NEW v, Whole(c, drv, v), NEW D, D = Tfo(c, drv, t),
         NEW P, P \subseteq c.nets, \A o \in P : c.spec[o] \subseteq Patterns(c),
         NEW T, NEW k,
         new[t] \in Synthesized(c, T, v, t, D, Bad(c, P, Cofactor(c, drv, v, [m \in {t} |-> 0], D)),
                                Bad(c, P, Cofactor(c, drv, v, [m \in {t} |-> 1], D)), k),
         NEW w, w = Evaluate(c, new)
  PROVE  /\ Whole(c, new, w) /\ \A n \in NetsOf(c) \ D : w[n] = v[n]
         /\ \A o \in P : w[o] = c.spec[o]
<1>1. IsCircuit(c) /\ t \in c.nets
  BY DEF Adds
<1>2. PICK b : b = [x \in {0, 1} |-> Bad(c, P, Cofactor(c, drv, v, [m \in {t} |-> x], D))]
  OBVIOUS
<1>3. new[t] \in Synthesized(c, T, v, t, D, b[0], b[1], k)
  BY <1>2
<1>4. /\ new[t].sup \subseteq (c.nets \ D) \union {-t}
      /\ \A q \in b[0] : {p \in new[t].sup : q \in OldOr(v, t, p)} \in new[t].on
      /\ \A q \in b[1] : {p \in new[t].sup : q \in OldOr(v, t, p)} \notin new[t].on
  <2>1. PICK f : f = new[t]
    OBVIOUS
  <2>2. f \in Synthesized(c, T, v, t, D, b[0], b[1], k)
    BY <1>3, <2>1
  <2>3. FixFor(c, v, t, D, b[0], b[1], f)
    BY ONLY <1>1, <2>2, SynthesizedFn
  <2>. QED BY <2>1, <2>3 DEF FixFor
<1>5. Extends(c, drv, new, {t}, D)
  <2>1. D = UNION {Tfo(c, drv, s) : s \in {t}}
    OBVIOUS
  <2>2. \A s \in {t} : \A p \in new[s].sup : p = -s \/ p \notin D
    BY <1>4
  <2>. QED BY <2>1, <2>2, AddsExtends
<1>6. Whole(c, new, w) /\ \A n \in NetsOf(c) \ D : w[n] = v[n]
  BY <1>5, ExtendsWhole
<1>7. \A q \in Patterns(c) :
        q \in w[t] <=> {p \in new[t].sup : q \in OldOr(v, t, p)} \in new[t].on
  BY ONLY <1>4, <1>5, Whole(c, drv, v), w = Evaluate(c, new), NewPatchValue DEF ValueOf
<1>8. ASSUME NEW q \in Patterns(c)
      PROVE  \E forced :
           /\ DOMAIN forced = {t} /\ \A s \in {t} : q \in w[s] <=> forced[s] = 1
           /\ q \notin Bad(c, P, Cofactor(c, drv, v, forced, D))
  <2>1. PICK x \in {0, 1} : q \in w[t] <=> x = 1
    OBVIOUS
  <2>2. q \notin b[x]
    BY <1>4, <1>7, <2>1
  <2>3. PICK forced : forced = [m \in {t} |-> x]
    OBVIOUS
  <2>4. q \notin Bad(c, P, Cofactor(c, drv, v, forced, D))
    BY <1>2, <2>2, <2>3
  <2>5. DOMAIN forced = {t} /\ forced[t] = x
    BY <2>3
  <2>. QED BY <2>1, <2>4, <2>5
<1>9. \A o \in P : w[o] = c.spec[o]
  <2>1. PICK N : N = {t}
    OBVIOUS
  <2>2. Extends(c, drv, new, N, D) /\ Chosen(c, drv, v, w, N, D, P)
    BY <1>5, <1>8, <2>1 DEF Chosen
  <2>. QED BY <2>2, Repairs
<1>. QED BY <1>6, <1>9

(* The cofactors of a pair, and the fixes synthesized one after the other. *)
PairForced(s, t, combo) ==
  [m \in {s, t} |-> IF m = s THEN combo \div 2 ELSE combo % 2]

LEMMA PairFix ==
  ASSUME NEW c, NEW drv, NEW new, NEW s, NEW t, s # t, Adds(c, drv, new, {s, t}),
         Stable(c, new), NEW v, Whole(c, drv, v),
         NEW D, D = Tfo(c, drv, s) \union Tfo(c, drv, t),
         NEW P, P \subseteq c.nets, \A o \in P : c.spec[o] \subseteq Patterns(c),
         NEW bad, \A combo \in 0 .. 3 :
           bad[combo] = Bad(c, P, Cofactor(c, drv, v, PairForced(s, t, combo), D)),
         NEW T, NEW k, NEW a0, NEW a1, new[s] \in Synthesized(c, T, v, s, D, a0, a1, k),
         NEW b, \A x \in {0, 1} : b[x] =
           {q \in Patterns(c) : q \in bad[x + IF q \in PatchValue(c, v, new[s]) THEN 2 ELSE 0]},
         new[t] \in Synthesized(c, T, v, t, D, b[0], b[1], k),
         NEW w, w = Evaluate(c, new)
  PROVE  /\ Whole(c, new, w) /\ \A n \in NetsOf(c) \ D : w[n] = v[n]
         /\ \A o \in P : w[o] = c.spec[o]
<1>1. IsCircuit(c) /\ s \in c.nets /\ t \in c.nets
  BY DEF Adds
<1>2. /\ new[t].sup \subseteq (c.nets \ D) \union {-t}
      /\ \A q \in b[0] : {p \in new[t].sup : q \in OldOr(v, t, p)} \in new[t].on
      /\ \A q \in b[1] : {p \in new[t].sup : q \in OldOr(v, t, p)} \notin new[t].on
  <2>1. PICK f : f = new[t]
    OBVIOUS
  <2>2. f \in Synthesized(c, T, v, t, D, b[0], b[1], k)
    BY <2>1
  <2>3. FixFor(c, v, t, D, b[0], b[1], f)
    BY ONLY <1>1, <2>2, SynthesizedFn
  <2>. QED BY <2>1, <2>3 DEF FixFor
<1>3. new[s].sup \subseteq (c.nets \ D) \union {-s}
  <2>1. PICK f : f = new[s]
    OBVIOUS
  <2>2. f \in Synthesized(c, T, v, s, D, a0, a1, k)
    BY <2>1
  <2>3. FixFor(c, v, s, D, a0, a1, f)
    BY ONLY <1>1, <2>2, SynthesizedFn
  <2>. QED BY <2>1, <2>3 DEF FixFor
<1>4. Extends(c, drv, new, {s, t}, D)
  <2>1. D = UNION {Tfo(c, drv, m) : m \in {s, t}}
    OBVIOUS
  <2>2. \A m \in {s, t} : \A p \in new[m].sup : p = -m \/ p \notin D
    BY <1>2, <1>3
  <2>. QED BY <2>1, <2>2, AddsExtends
<1>5. Whole(c, new, w) /\ \A n \in NetsOf(c) \ D : w[n] = v[n]
  BY <1>4, ExtendsWhole
<1>6. w[s] = PatchValue(c, v, new[s])
  BY ONLY <1>3, <1>4, Whole(c, drv, v), w = Evaluate(c, new), NewPatchValue
<1>7. \A q \in Patterns(c) :
        q \in w[t] <=> {p \in new[t].sup : q \in OldOr(v, t, p)} \in new[t].on
  <2>1. PICK N : N = {s, t}
    OBVIOUS
  <2>2. Extends(c, drv, new, N, D) /\ t \in N
    BY <1>4, <2>1
  <2>3. new[t].sup \subseteq (c.nets \ D) \union {-t}
    BY <1>2
  <2>4. ValueOf(c, v, t, new[t], w[t])
    BY ONLY <2>2, <2>3, Whole(c, drv, v), w = Evaluate(c, new), NewPatchValue
  <2>. QED BY <2>4 DEF ValueOf
<1>8. ASSUME NEW q \in Patterns(c)
      PROVE  \E forced :
           /\ DOMAIN forced = {s, t} /\ \A m \in {s, t} : q \in w[m] <=> forced[m] = 1
           /\ q \notin Bad(c, P, Cofactor(c, drv, v, forced, D))
  <2>1. PICK x \in {0, 1} : q \in w[s] <=> x = 1
    OBVIOUS
  <2>2. PICK y \in {0, 1} : q \in w[t] <=> y = 1
    OBVIOUS
  <2>3. q \notin b[y]
    BY <1>2, <1>7, <2>2
  <2>4. PICK combo \in 0 .. 3 : combo = y + IF q \in PatchValue(c, v, new[s]) THEN 2 ELSE 0
    OBVIOUS
  <2>5. q \notin bad[combo]
    BY <2>3, <2>4
  <2>6. combo \div 2 = x /\ combo % 2 = y
    <3>1. CASE x = 1
      BY <1>6, <2>1, <2>4, <3>1
    <3>2. CASE x = 0
      BY <1>6, <2>1, <2>4, <3>2
    <3>. QED BY <3>1, <3>2
  <2>7. PICK forced : forced = PairForced(s, t, combo)
    OBVIOUS
  <2>8. q \notin Bad(c, P, Cofactor(c, drv, v, forced, D))
    BY <2>5, <2>7
  <2>9. DOMAIN forced = {s, t} /\ forced[s] = x /\ forced[t] = y
    BY <2>6, <2>7 DEF PairForced
  <2>. QED BY <2>1, <2>2, <2>8, <2>9
<1>9. \A o \in P : w[o] = c.spec[o]
  <2>1. PICK N : N = {s, t}
    OBVIOUS
  <2>2. Extends(c, drv, new, N, D)
    BY <1>4, <2>1
  <2>3. Chosen(c, drv, v, w, N, D, P)
    BY <1>8, <2>1 DEF Chosen
  <2>. QED BY ONLY <2>2, <2>3, Whole(c, drv, v), w = Evaluate(c, new), P \subseteq c.nets,
                   \A o \in P : c.spec[o] \subseteq Patterns(c), Repairs
<1>. QED BY <1>5, <1>9

-----------------------------------------------------------------------------
(* noPresCheck, which evaluates gates in the circuit to be and patch       *)
(* functions in the one before, computes what a worklist computes if no    *)
(* patch reads what changes.                                               *)

LEMMA SettledWithin ==
  ASSUME NEW c, NEW drv, NEW start, CanSettle(c, drv, start),
         NEW v, IsSettled(c, drv, start, v), NEW w, IsSettled(c, drv, start, w)
  PROVE  \A n \in NetsOf(c) : v[n] # Unset => w[n] = v[n]
<1>1. /\ \A n \in NetsOf(c) : start[n] # Unset => v[n] = start[n] /\ w[n] = start[n]
      /\ \A n \in c.nets : ~Ready(c, drv, w, n)
  BY DEF IsSettled, Partly
<1>2. PICK b \in Nat : \E rank \in [NetsOf(c) -> 0 .. b] : Ranked(c, drv, start, v, rank)
  BY DEF IsSettled, Partly
<1>3. PICK rank \in [NetsOf(c) -> 0 .. b] : Ranked(c, drv, start, v, rank)
  BY <1>2
<1>4. PICK d \in Nat : \E up \in [NetsOf(c) -> 0 .. d] : Ranked(c, drv, start, w, up)
  BY DEF IsSettled, Partly
<1>5. PICK up \in [NetsOf(c) -> 0 .. d] : Ranked(c, drv, start, w, up)
  BY <1>4
<1>6. PICK X : X = {n \in NetsOf(c) : v[n] # Unset /\ w[n] # v[n]}
  OBVIOUS
<1>7. SUFFICES ASSUME X # {} PROVE FALSE
  BY <1>6
<1>8. PICK n \in X : \A m \in X : rank[n] <= rank[m]
  BY <1>6, <1>7, Lowest
<1>9. n \in NetsOf(c) /\ start[n] = Unset /\ v[n] # Unset /\ w[n] # v[n]
  BY <1>1, <1>6, <1>8
<1>10. /\ n \in c.nets /\ (n \in DOMAIN drv \/ n \in Driven(c))
       /\ v[n] = NetValue(c, drv, v, n)
       /\ \A m \in Reads(c, drv, n) : v[m] # Unset /\ rank[m] < rank[n]
  BY <1>3, <1>9 DEF Ranked
<1>11. Reads(c, drv, n) \subseteq NetsOf(c)
  BY <1>10, ReadsTyped DEF CanSettle
<1>12. \A m \in Reads(c, drv, n) : v[m] = w[m] /\ w[m] # Unset
  <2>1. SUFFICES ASSUME NEW m \in Reads(c, drv, n) PROVE m \notin X
    BY <1>6, <1>10, <1>11
  <2>2. rank[m] < rank[n] /\ rank[m] \in Nat /\ rank[n] \in Nat
    BY <1>9, <1>10, <1>11, <2>1
  <2>. QED BY <1>8, <2>2
<1>13. w[n] # Unset
  BY <1>1, <1>10, <1>12 DEF Ready
<1>14. w[n] = NetValue(c, drv, w, n)
  BY <1>5, <1>9, <1>13 DEF Ranked
<1>15. NetValue(c, drv, v, n) = NetValue(c, drv, w, n)
  BY <1>10, <1>12, NetValueSame
<1>. QED BY <1>9, <1>10, <1>14, <1>15

LEMMA SettledUnique ==
  ASSUME NEW c, NEW drv, NEW start, CanSettle(c, drv, start),
         NEW v, IsSettled(c, drv, start, v), NEW w, IsSettled(c, drv, start, w)
  PROVE  \A n \in NetsOf(c) : v[n] = w[n]
<1>1. \A n \in NetsOf(c) : v[n] # Unset => w[n] = v[n]
  BY SettledWithin
<1>2. \A n \in NetsOf(c) : w[n] # Unset => v[n] = w[n]
  BY SettledWithin
<1>. QED BY <1>1, <1>2

(* Several nets at once may get what a worklist would give them.           *)
NextAll(c, drv, v) ==
  [n \in NetsOf(c) |-> IF n \in c.nets /\ Ready(c, drv, v, n) THEN NetValue(c, drv, v, n)
                       ELSE v[n]]

LEMMA NextAllKeeps ==
  ASSUME NEW c, NEW drv, NEW start, CanSettle(c, drv, start), NEW v, Partly(c, drv, start, v)
  PROVE  Partly(c, drv, start, NextAll(c, drv, v))
<1>1. PICK new : new = NextAll(c, drv, v)
  OBVIOUS
<1>2. v \in [NetsOf(c) -> Values(c)] /\ c.nets \subseteq NetsOf(c)
  BY DEF Partly, NetsOf
<1>3. PICK R : R = {n \in c.nets : Ready(c, drv, v, n)}
  OBVIOUS
<1>4. \A n \in R : /\ n \in NetsOf(c) /\ v[n] = Unset /\ (n \in DOMAIN drv \/ n \in Driven(c))
                   /\ \A m \in Reads(c, drv, n) : m \in NetsOf(c) /\ m \notin R /\ v[m] # Unset
  BY <1>2, <1>3, ReadsTyped DEF Ready, CanSettle
<1>5. \A n \in R : NetValue(c, drv, v, n) \in Values(c) /\ NetValue(c, drv, v, n) # Unset
  BY <1>4, NetValueTyped, IsValue DEF CanSettle
<1>6. /\ new \in [NetsOf(c) -> Values(c)]
      /\ \A n \in R : new[n] = NetValue(c, drv, v, n) /\ new[n] # Unset
      /\ \A n \in NetsOf(c) \ R : new[n] = v[n]
  BY <1>1, <1>2, <1>3, <1>4, <1>5 DEF NextAll
<1>7. PICK b \in Nat : \E rank \in [NetsOf(c) -> 0 .. b] : Ranked(c, drv, start, v, rank)
  BY DEF Partly
<1>8. PICK rank \in [NetsOf(c) -> 0 .. b] : Ranked(c, drv, start, v, rank)
  BY <1>7
<1>9. PICK up : up = [n \in NetsOf(c) |-> IF n \in R THEN b + 1 ELSE rank[n]]
  OBVIOUS
<1>10. /\ up \in [NetsOf(c) -> 0 .. b + 1] /\ \A n \in R : up[n] = b + 1
       /\ \A n \in NetsOf(c) \ R : up[n] = rank[n] /\ up[n] \in 0 .. b
  BY <1>4, <1>9
<1>11. ASSUME NEW n \in NetsOf(c), start[n] = Unset, new[n] # Unset
       PROVE  /\ n \in c.nets /\ (n \in DOMAIN drv \/ n \in Driven(c))
              /\ new[n] = NetValue(c, drv, new, n)
              /\ \A m \in Reads(c, drv, n) : new[m] # Unset /\ up[m] < up[n]
  <2>1. CASE n \in R
    <3>1. \A m \in Reads(c, drv, n) : new[m] = v[m] /\ up[m] \in 0 .. b
      BY <1>4, <1>6, <1>10, <2>1
    <3>2. NetValue(c, drv, v, n) = NetValue(c, drv, new, n)
      BY <1>4, <2>1, <3>1, NetValueSame
    <3>3. up[n] = b + 1 /\ \A m \in Reads(c, drv, n) : up[m] < b + 1
      BY <1>10, <2>1, <3>1
    <3>4. \A m \in Reads(c, drv, n) : new[m] # Unset
      BY <1>4, <2>1, <3>1
    <3>. QED BY <1>3, <1>4, <1>6, <2>1, <3>2, <3>3, <3>4
  <2>2. CASE n \notin R
    <3>1. new[n] = v[n] /\ up[n] = rank[n]
      BY <1>6, <1>10, <2>2
    <3>2. /\ n \in c.nets /\ (n \in DOMAIN drv \/ n \in Driven(c))
          /\ v[n] = NetValue(c, drv, v, n)
          /\ \A m \in Reads(c, drv, n) : v[m] # Unset /\ rank[m] < rank[n]
      BY <1>8, <1>11, <3>1 DEF Ranked
    <3>3. \A m \in Reads(c, drv, n) : m \in NetsOf(c) \ R
      BY <1>4, <3>2, ReadsTyped DEF CanSettle
    <3>4. \A m \in Reads(c, drv, n) : new[m] = v[m] /\ up[m] = rank[m]
      BY <1>6, <1>10, <3>3
    <3>5. NetValue(c, drv, v, n) = NetValue(c, drv, new, n)
      BY <3>2, <3>4, NetValueSame
    <3>. QED BY <3>1, <3>2, <3>4, <3>5
  <2>. QED BY <2>1, <2>2
<1>12. Ranked(c, drv, start, new, up)
  BY <1>11 DEF Ranked
<1>13. \A n \in NetsOf(c) : start[n] # Unset => new[n] = start[n]
  <2>1. \A n \in NetsOf(c) : start[n] # Unset => v[n] = start[n] /\ n \notin R
    BY <1>4 DEF Partly
  <2>. QED BY <1>6, <2>1
<1>14. \E bb \in Nat : \E r \in [NetsOf(c) -> 0 .. bb] : Ranked(c, drv, start, new, r)
  <2>1. PICK bb : bb = b + 1
    OBVIOUS
  <2>2. bb \in Nat /\ up \in [NetsOf(c) -> 0 .. bb]
    BY <1>10, <2>1
  <2>. QED BY <1>12, <2>2
<1>. QED BY <1>1, <1>6, <1>13, <1>14 DEF Partly

(* The steps of noPresCheck.                                               *)
NextIdeal(c, drv, cur, v) ==
  [n \in DOMAIN v |->
     IF n \notin c.nets \/ ~Ready(c, drv, v, n) THEN v[n]
     ELSE IF n \in DOMAIN drv THEN PatchValue(c, cur, drv[n])
     ELSE NetValue(c, drv, v, n)]

(* The nets of D do not have the values of cur, all others do, and those   *)
(* that a patch reads are among the others.                                *)
Apart(c, drv, cur, D) ==
  /\ D \subseteq c.nets
  /\ \A m \in D : \A k \in c.nets : m \in Reads(c, drv, k) => k \in D
  /\ \A n \in DOMAIN drv : Reads(c, drv, n) \intersect D = {}
  /\ IsEvaluated(c, drv, cur)

AgreeOff(c, cur, D, v) == \A m \in NetsOf(c) \ D : v[m] # Unset => v[m] = cur[m]

LEMMA NextIdealIs ==
  ASSUME NEW c, NEW drv, NEW start, CanSettle(c, drv, start),
         NEW cur, NEW D, Apart(c, drv, cur, D),
         NEW v, Partly(c, drv, start, v), AgreeOff(c, cur, D, v)
  PROVE  /\ NextIdeal(c, drv, cur, v) = NextAll(c, drv, v)
         /\ AgreeOff(c, cur, D, NextAll(c, drv, v))
<1>1. DOMAIN v = NetsOf(c) /\ c.nets \subseteq NetsOf(c)
  BY DEF Partly, NetsOf
<1>2. ASSUME NEW n \in c.nets, Ready(c, drv, v, n), n \in DOMAIN drv \/ n \notin D
      PROVE  /\ \A m \in Reads(c, drv, n) : v[m] = cur[m] /\ cur[m] # Unset
             /\ NetValue(c, drv, v, n) = NetValue(c, drv, cur, n)
  <2>1. n \in DOMAIN drv \/ n \in Driven(c)
    BY <1>2 DEF Ready
  <2>2. \A m \in Reads(c, drv, n) : m \in NetsOf(c) /\ m \notin D /\ v[m] # Unset
    BY <1>2, <2>1, ReadsTyped DEF Ready, Apart, CanSettle
  <2>3. \A m \in Reads(c, drv, n) : v[m] = cur[m]
    BY <2>2 DEF AgreeOff
  <2>. QED BY <2>1, <2>2, <2>3, NetValueSame
<1>3. \A n \in c.nets : Ready(c, drv, v, n) /\ n \in DOMAIN drv =>
                          PatchValue(c, cur, drv[n]) = NetValue(c, drv, v, n)
  BY <1>2 DEF NetValue
<1>4. NextIdeal(c, drv, cur, v) = NextAll(c, drv, v)
  BY <1>1, <1>3 DEF NextIdeal, NextAll
<1>5. ASSUME NEW n \in NetsOf(c) \ D, NextAll(c, drv, v)[n] # Unset
      PROVE  NextAll(c, drv, v)[n] = cur[n]
  <2>1. CASE n \in c.nets /\ Ready(c, drv, v, n)
    <3>1. NextAll(c, drv, v)[n] = NetValue(c, drv, cur, n)
      BY <1>2, <2>1, <1>5 DEF NextAll
    <3>2. n \in DOMAIN drv \union Driven(c) /\ \A m \in Reads(c, drv, n) : cur[m] # Unset
      BY <1>2, <1>5, <2>1 DEF Ready
    <3>. QED BY <3>1, <3>2 DEF Apart, IsEvaluated
  <2>2. CASE ~(n \in c.nets /\ Ready(c, drv, v, n))
    <3>1. NextAll(c, drv, v)[n] = v[n]
      BY <1>5, <2>2 DEF NextAll
    <3>. QED BY <1>5, <3>1 DEF AgreeOff
  <2>. QED BY <2>1, <2>2
<1>. QED BY <1>4, <1>5 DEF AgreeOff

LEMMA IdealSettles ==
  ASSUME NEW c, NEW drv, NEW F, NEW start, start = GivenSpec(c, drv, F),
         CanSettle(c, drv, start),
         NEW cur, NEW D, Apart(c, drv, cur, D), AgreeOff(c, cur, D, start)
  PROVE  IsSettled(c, drv, start, Ideal(c, drv, cur, F))
<1>. DEFINE N == Cardinality(c.nets)
            Good(v) == Partly(c, drv, start, v) /\ AgreeOff(c, cur, D, v)
            V == {v \in [NetsOf(c) -> Values(c)] : Good(v)}
            G == [v \in V |-> NextAll(c, drv, v)]
            mu == [v \in V |-> Cardinality(GivenOf(c, v))]
            at(f, i) == IF i = 0 THEN start ELSE NextIdeal(c, drv, cur, f[i - 1])
            E == CHOOSE step : step = [i \in 0 .. N |-> at(step, i)]
<1>1. start \in V
  <2>1. [n \in NetsOf(c) |-> 0] \in [NetsOf(c) -> 0 .. 0]
    OBVIOUS
  <2>2. Ranked(c, drv, start, start, [n \in NetsOf(c) |-> 0])
    BY DEF Ranked
  <2>3. Partly(c, drv, start, start)
    BY <2>1, <2>2 DEF Partly, CanSettle
  <2>. QED BY <2>3 DEF CanSettle
<1>2. \A v \in V : Partly(c, drv, start, v) /\ AgreeOff(c, cur, D, v)
  OBVIOUS
<1>3. \A v \in V : NextAll(c, drv, v) \in V /\ NextIdeal(c, drv, cur, v) = NextAll(c, drv, v)
  <2>1. ASSUME NEW v \in V PROVE /\ Partly(c, drv, start, NextAll(c, drv, v))
                                 /\ AgreeOff(c, cur, D, NextAll(c, drv, v))
                                 /\ NextIdeal(c, drv, cur, v) = NextAll(c, drv, v)
    <3>1. Partly(c, drv, start, v) /\ AgreeOff(c, cur, D, v)
      BY <1>2
    <3>. HIDE DEF V
    <3>. QED BY <3>1, NextAllKeeps, NextIdealIs
  <2>2. \A v \in V : NextAll(c, drv, v) \in [NetsOf(c) -> Values(c)]
    <3>. HIDE DEF V
    <3>. QED BY <2>1 DEF Partly
  <2>. QED BY <2>1, <2>2
<1>4. G \in [V -> V]
  <2>. HIDE DEF V
  <2>. QED BY <1>3
<1>5. N \in Nat /\ mu \in [V -> 0 .. N]
  <2>1. \A v \in V : Cardinality(GivenOf(c, v)) \in 0 .. Cardinality(c.nets)
    <3>. HIDE DEF V
    <3>. QED BY <1>2, MoreGiven
  <2>2. N \in Nat
    BY FS_CardinalityType DEF CanSettle, IsCircuit
  <2>. HIDE DEF V
  <2>. QED BY <2>1, <2>2
<1>6. ASSUME NEW v \in V, NEW n \in c.nets, Ready(c, drv, v, n)
      PROVE  mu[G[v]] > mu[v]
  <2>1. PICK w : w = NextAll(c, drv, v)
    OBVIOUS
  <2>2. v[n] = Unset /\ (n \in DOMAIN drv \/ n \in Driven(c)) /\ n \in NetsOf(c)
    BY <1>6 DEF Ready, NetsOf
  <2>3. w[n] # Unset
    <3>1. w[n] = NetValue(c, drv, v, n)
      BY <1>6, <2>1, <2>2 DEF NextAll
    <3>. QED BY <2>2, <3>1, NetValueTyped, IsValue DEF CanSettle
  <2>4. \A m \in c.nets : v[m] # Unset => w[m] # Unset
    BY <2>1 DEF NextAll, Ready, NetsOf
  <2>5. PICK A : A = GivenOf(c, v)
    OBVIOUS
  <2>6. PICK B : B = GivenOf(c, w)
    OBVIOUS
  <2>7. A \subseteq B /\ A # B /\ B \subseteq c.nets
    BY <2>2, <2>3, <2>4, <2>5, <2>6 DEF GivenOf
  <2>8. /\ IsFiniteSet(B) /\ Cardinality(A) \in Nat /\ Cardinality(B) \in Nat
        /\ Cardinality(A) <= Cardinality(B) /\ Cardinality(A) # Cardinality(B)
    <3>1. IsFiniteSet(B) /\ IsFiniteSet(A)
      BY <2>7, FS_Subset DEF CanSettle, IsCircuit
    <3>. QED BY <2>7, <3>1, FS_Subset, FS_CardinalityType
  <2>9. G[v] = w /\ w \in V
    <3>. HIDE DEF V
    <3>. QED BY <1>3, <2>1
  <2>10. mu[v] = Cardinality(A) /\ mu[G[v]] = Cardinality(B)
    <3>. HIDE DEF V, G
    <3>. QED BY <2>5, <2>6, <2>9
  <2>. HIDE DEF mu, G, V
  <2>. QED BY <2>8, <2>10
<1>7. \A v \in V : G[v] = v \/ mu[G[v]] > mu[v]
  <2>1. SUFFICES ASSUME NEW v \in V, \A n \in c.nets : ~Ready(c, drv, v, n) PROVE G[v] = v
    <3>. HIDE DEF V, G, mu
    <3>. QED BY <1>6
  <2>2. v = [n \in NetsOf(c) |-> v[n]]
    OBVIOUS
  <2>3. NextAll(c, drv, v) = [n \in NetsOf(c) |-> v[n]]
    BY <2>1 DEF NextAll
  <2>. QED BY <2>2, <2>3
<1>8. PICK f : IsIteration(f, start, G, V, N)
  <2>. HIDE DEF V, G, N
  <2>. QED BY <1>1, <1>4, <1>5, IterationExists
<1>9. G[f[N]] = f[N] /\ f[N] \in V
  <2>. HIDE DEF V, G, N, mu
  <2>1. N <= mu[start] + N
    BY <1>1, <1>5
  <2>2. G[f[N]] = f[N]
    BY <1>5, <1>7, <1>8, <2>1, IterationStops
  <2>3. f[N] \in V
    BY <1>5, <1>8 DEF IsIteration
  <2>. QED BY <2>2, <2>3
<1>10. IsSettled(c, drv, start, f[N])
  <2>1. mu[f[N]] \in 0 .. N /\ ~(mu[f[N]] > mu[f[N]])
    <3>. HIDE DEF mu, V, N
    <3>. QED BY <1>5, <1>9
  <2>2. \A n \in c.nets : ~Ready(c, drv, f[N], n)
    <3>. HIDE DEF mu, V, N, G
    <3>. QED BY <1>6, <1>9, <2>1
  <2>. QED BY <1>2, <1>9, <2>2 DEF IsSettled
<1>11. f = [i \in 0 .. N |-> at(f, i)]
  <2>1. \A i \in 0 .. N : f[i] = at(f, i)
    <3>1. ASSUME NEW i \in 0 .. N, i # 0 PROVE f[i] = NextIdeal(c, drv, cur, f[i - 1])
      <4>1. i \in 1 .. N /\ i - 1 \in 0 .. N
        BY <1>5, <3>1
      <4>2. f[i] = G[f[i - 1]] /\ f[i - 1] \in V
        BY <1>8, <4>1 DEF IsIteration
      <4>. HIDE DEF V
      <4>. QED BY <1>3, <4>2
    <3>2. f[0] = start
      BY <1>8 DEF IsIteration
    <3>. QED BY <3>1, <3>2
  <2>2. DOMAIN f = 0 .. N /\ f = [i \in 0 .. N |-> f[i]]
    BY <1>8 DEF IsIteration
  <2>. HIDE DEF at
  <2>. QED BY <2>1, <2>2
<1>12. E = [i \in 0 .. N |-> at(E, i)]
  <2>. HIDE DEF at, N
  <2>. QED BY <1>11
<1>13. Ideal(c, drv, cur, F) = E[N]
  BY DEF Ideal, NextIdeal
<1>14. \A i \in 0 .. N : E[i] = f[i]
  <2>. DEFINE T == {i \in 0 .. N : E[i] # f[i]}
  <2>1. SUFFICES ASSUME T # {} PROVE FALSE
    OBVIOUS
  <2>2. PICK i \in T : \A j \in T : i <= j
    <3>1. T \subseteq Nat
      BY <1>5
    <3>. HIDE DEF T
    <3>. QED BY <2>1, <3>1, Smallest
  <2>3. E[i] = at(E, i) /\ f[i] = at(f, i)
    <3>. HIDE DEF E, at
    <3>. QED BY <1>11, <1>12
  <2>. HIDE DEF E
  <2>4. i # 0
    BY <2>3
  <2>5. i - 1 \in 0 .. N /\ ~(i <= i - 1)
    BY <1>5, <2>4
  <2>. QED BY <2>2, <2>3, <2>4, <2>5
<1>. QED BY <1>5, <1>10, <1>13, <1>14


LEMMA IdealIsSettle ==
  ASSUME NEW c, IsCircuit(c), NEW drv, PatchesOK(c, drv), NEW F, F \subseteq c.nets,
         \A o \in F : c.spec[o] \subseteq Patterns(c),
         NEW cur, cur = Evaluate(c, drv),
         \A t \in DOMAIN drv : \A o \in F : Reads(c, drv, t) \intersect Depends(c, drv, o) = {}
  PROVE  \A n \in NetsOf(c) :
           Ideal(c, drv, cur, F)[n] = Settle(c, drv, GivenSpec(c, drv, F))[n]
<1>1. PICK start : start = GivenSpec(c, drv, F)
  OBVIOUS
<1>2. PICK D : D = UNION {Depends(c, drv, o) : o \in F}
  OBVIOUS
<1>3. \A o \in F : /\ o \in Depends(c, drv, o) /\ Depends(c, drv, o) \subseteq c.nets
                   /\ \A m \in Depends(c, drv, o) : \A k \in c.nets :
                        m \in Reads(c, drv, k) => k \in Depends(c, drv, o)
  BY DependsLeast
<1>4. F \subseteq D /\ Apart(c, drv, cur, D)
  <2>1. D \subseteq c.nets /\ F \subseteq D
    BY <1>2, <1>3
  <2>2. \A m \in D : \A k \in c.nets : m \in Reads(c, drv, k) => k \in D
    BY <1>2, <1>3
  <2>3. \A n \in DOMAIN drv : Reads(c, drv, n) \intersect D = {}
    BY <1>2
  <2>4. IsEvaluated(c, drv, cur)
    BY EvaluateEvaluates
  <2>. QED BY <2>1, <2>2, <2>3, <2>4 DEF Apart
<1>5. /\ DOMAIN start = NetsOf(c) /\ start[0] = Const(c, 0) /\ start[1] = Const(c, 1)
      /\ \A n \in F : start[n] = c.spec[n]
      /\ \A n \in c.nets \ F :
           start[n] = IF n \in Inputs(c) \ DOMAIN drv THEN c.pis[n] ELSE Unset
  BY <1>1 DEF GivenSpec, NetsOf, IsCircuit
<1>6. \A v : v \subseteq Patterns(c) => v \in Values(c) /\ v # Unset
  BY IsValue
<1>7. Const(c, 0) \subseteq Patterns(c) /\ Const(c, 1) \subseteq Patterns(c) /\ Unset \in Values(c)
  BY DEF Const, Values
<1>8. CanSettle(c, drv, start)
  <2>1. \A n \in NetsOf(c) : start[n] \in Values(c)
    BY <1>5, <1>6, <1>7 DEF NetsOf, IsCircuit
  <2>2. start = [n \in NetsOf(c) |-> start[n]]
    BY <1>1, <1>5 DEF GivenSpec
  <2>3. start \in [NetsOf(c) -> Values(c)]
    BY <2>1, <2>2
  <2>. QED BY <1>5, <1>6, <1>7, <2>3 DEF CanSettle
<1>9. AgreeOff(c, cur, D, start)
  <2>1. /\ cur[0] = Const(c, 0) /\ cur[1] = Const(c, 1)
        /\ \A n \in Inputs(c) \ DOMAIN drv : cur[n] = c.pis[n]
    BY <1>4 DEF Apart, IsEvaluated
  <2>. QED BY <1>4, <1>5, <2>1 DEF AgreeOff, NetsOf
<1>10. PICK v : v = Ideal(c, drv, cur, F)
  OBVIOUS
<1>11. PICK w : w = Settle(c, drv, start)
  OBVIOUS
<1>12. IsSettled(c, drv, start, v)
  BY ONLY <1>1, <1>4, <1>8, <1>9, <1>10, IdealSettles
<1>13. IsSettled(c, drv, start, w)
  BY <1>8, <1>11, SettleSettles
<1>14. \A n \in NetsOf(c) : v[n] = w[n]
  BY ONLY <1>8, <1>12, <1>13, SettledUnique
<1>. QED BY <1>1, <1>10, <1>11, <1>14
=============================================================================
