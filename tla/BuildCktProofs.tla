--------------------------- MODULE BuildCktProofs ---------------------------
(***************************************************************************)
(* Proofs about BuildCkt, for all netlists: what is built is what evalInto *)
(* computes, whatever the order of the gates in the file, and a netlist is *)
(* refused exactly when it is not well formed.                             *)
(*                                                                         *)
(* The first part is about netlists; the second is the inductive           *)
(* invariant: a net has a literal when its gate is done, and the literal   *)
(* is the one of the evaluation; in a pass without progress no gate that   *)
(* was visited is ready.                                                   *)
(***************************************************************************)
EXTENDS BuildCkt, CircuitProofs

NoPatch == [k \in {} |-> 0]

(* The values of the nets that are right for the gates of n.               *)
RightFor(n, v) ==
  /\ v \in [NetsOf(n) -> Values(n)]
  /\ v[0] = Const(n, 0) /\ v[1] = Const(n, 1)
  /\ \A k \in DOMAIN n.pis : v[k] = n.pis[k]
  /\ \A k \in n.nets \ (DOMAIN n.pis \union Outs(n)) : v[k] = Unset
  /\ \A g \in DOMAIN n.gates :
       /\ (\A m \in ReadBy(n, g) : v[m] # Unset) => v[n.gates[g].out] # Unset
       /\ v[n.gates[g].out] # Unset =>
            v[n.gates[g].out] = GateFn(n, n.gates[g].type,
                                       [i \in DOMAIN n.gates[g].ins |-> v[n.gates[g].ins[i]]])
  /\ \E b \in Nat : \E rank \in [NetsOf(n) -> 0 .. b] :
       \A g \in DOMAIN n.gates : v[n.gates[g].out] # Unset =>
         \A m \in ReadBy(n, g) : rank[m] < rank[n.gates[g].out]

LEMMA GateTyped ==
  ASSUME NEW n, IsNetlist(n), NEW g \in DOMAIN n.gates
  PROVE  /\ n.gates[g].out \in n.nets /\ n.gates[g].out \in Outs(n)
         /\ n.gates[g].type \in GateTypes
         /\ DOMAIN n.gates[g].ins \subseteq Nat
         /\ ReadBy(n, g) \subseteq n.nets \union {0, 1}
<1>1. n.gates[g] \in [out : n.nets, type : GateTypes, ins : Seq(n.nets \union {0, 1})]
  <2>1. PICK T : T = [out : n.nets, type : GateTypes, ins : Seq(n.nets \union {0, 1})]
    OBVIOUS
  <2>2. n.gates \in Seq(T)
    BY <2>1 DEF IsNetlist
  <2>3. PICK gates : gates = n.gates
    OBVIOUS
  <2>4. gates \in Seq(T) => \A h \in DOMAIN gates : gates[h] \in T
    OBVIOUS
  <2>. QED BY <2>1, <2>2, <2>3, <2>4
<1>2. n.gates[g].ins \in Seq(n.nets \union {0, 1})
  BY <1>1
<1>3. DOMAIN n.gates[g].ins \subseteq Nat /\ ReadBy(n, g) \subseteq n.nets \union {0, 1}
  <2>1. PICK in : in = n.gates[g].ins
    OBVIOUS
  <2>2. in \in Seq(n.nets \union {0, 1})
    BY <1>2, <2>1
  <2>3. DOMAIN in \subseteq Nat /\ \A i \in DOMAIN in : in[i] \in n.nets \union {0, 1}
    BY <2>2
  <2>. QED BY <2>1, <2>3 DEF ReadBy
<1>. QED BY <1>1, <1>3 DEF Outs

LEMMA GateFnSame ==
  ASSUME NEW c, NEW d, Patterns(c) = Patterns(d), NEW type, NEW in
  PROVE  GateFn(c, type, in) = GateFn(d, type, in)
BY DEF GateFn

(* The circuit of a netlist whose nets have one driver each.               *)
LEMMA CircuitOfNetlist ==
  ASSUME NEW n, IsNetlist(n), SingleDrivers(n)
  PROVE  /\ IsCircuit(AsCircuit(n)) /\ PatchesOK(AsCircuit(n), NoPatch)
         /\ NetsOf(AsCircuit(n)) = NetsOf(n) /\ Values(AsCircuit(n)) = Values(n)
         /\ Patterns(AsCircuit(n)) = Patterns(n)
         /\ AsCircuit(n).nets = n.nets /\ AsCircuit(n).pis = n.pis
         /\ Driven(AsCircuit(n)) = Outs(n)
         /\ \A g \in DOMAIN n.gates :
              /\ AsCircuit(n).gate[n.gates[g].out].type = n.gates[g].type
              /\ AsCircuit(n).gate[n.gates[g].out].ins = n.gates[g].ins
<1>. DEFINE c == AsCircuit(n)
<1>1. /\ c.nets = n.nets /\ c.pats = n.pats /\ c.pis = n.pis /\ DOMAIN c.gate = Outs(n)
  BY DEF AsCircuit
<1>2. ASSUME NEW g \in DOMAIN n.gates
      PROVE  /\ c.gate[n.gates[g].out].type = n.gates[g].type
             /\ c.gate[n.gates[g].out].ins = n.gates[g].ins
  <2>1. PICK h : h = CHOOSE i \in DOMAIN n.gates : n.gates[i].out = n.gates[g].out
    OBVIOUS
  <2>2. h \in DOMAIN n.gates /\ n.gates[h].out = n.gates[g].out
    BY <2>1
  <2>3. h = g
    BY <2>2 DEF SingleDrivers
  <2>4. c.gate[n.gates[g].out] = [type |-> n.gates[h].type, ins |-> n.gates[h].ins]
    BY <2>1 DEF AsCircuit, Outs
  <2>. QED BY <2>3, <2>4
<1>3. Inputs(c) = DOMAIN n.pis /\ Driven(c) = Outs(n) /\ Patterns(c) = Patterns(n)
  BY <1>1 DEF Inputs, Driven, Patterns
<1>. HIDE DEF c
<1>4. \A k \in Driven(c) : c.gate[k].type \in GateTypes /\ Ins(c, k) \subseteq c.nets \union {0, 1}
  <2>1. SUFFICES ASSUME NEW k \in Outs(n)
                 PROVE  c.gate[k].type \in GateTypes /\ Ins(c, k) \subseteq c.nets \union {0, 1}
    BY <1>3
  <2>2. PICK g \in DOMAIN n.gates : k = n.gates[g].out
    BY DEF Outs
  <2>3. Ins(c, k) = ReadBy(n, g)
    BY <1>2, <2>2 DEF Ins, ReadBy
  <2>. QED BY <1>1, <1>2, <2>2, <2>3, GateTyped
<1>5. Outs(n) \subseteq n.nets \ DOMAIN n.pis
  BY GateTyped DEF Outs, SingleDrivers
<1>6. IsCircuit(c)
  BY <1>1, <1>3, <1>4, <1>5 DEF IsNetlist, IsCircuit, Patterns
<1>7. PatchesOK(c, NoPatch)
  BY DEF PatchesOK, NoPatch
<1>. QED BY <1>1, <1>2, <1>3, <1>6, <1>7 DEF NetsOf, Values, c

LEMMA EvaluationRight ==
  ASSUME NEW n, IsNetlist(n), SingleDrivers(n)
  PROVE  RightFor(n, Evaluation(n))
<1>1. PICK c : c = AsCircuit(n)
  OBVIOUS
<1>2. PICK v : v = Evaluation(n)
  OBVIOUS
<1>3. /\ IsCircuit(c) /\ PatchesOK(c, NoPatch)
      /\ NetsOf(c) = NetsOf(n) /\ Values(c) = Values(n) /\ Patterns(c) = Patterns(n)
      /\ c.nets = n.nets /\ c.pis = n.pis /\ Driven(c) = Outs(n)
      /\ \A g \in DOMAIN n.gates : /\ c.gate[n.gates[g].out].type = n.gates[g].type
                                   /\ c.gate[n.gates[g].out].ins = n.gates[g].ins
  BY <1>1, CircuitOfNetlist
<1>4. v = Evaluate(c, NoPatch)
  BY <1>1, <1>2 DEF Evaluation, NoPatch
<1>5. IsEvaluated(c, NoPatch, v)
  BY <1>3, <1>4, EvaluateEvaluates
<1>6. DOMAIN NoPatch = {} /\ Inputs(c) = DOMAIN n.pis
  BY <1>3 DEF NoPatch, Inputs
<1>7. ASSUME NEW g \in DOMAIN n.gates, NEW k, k = n.gates[g].out
      PROVE  /\ k \in DOMAIN NoPatch \union Driven(c) /\ Reads(c, NoPatch, k) = ReadBy(n, g)
             /\ NetValue(c, NoPatch, v, k) =
                  GateFn(n, n.gates[g].type,
                         [i \in DOMAIN n.gates[g].ins |-> v[n.gates[g].ins[i]]])
  <2>1. k \in Outs(n)
    BY <1>7 DEF Outs
  <2>2. c.gate[k].ins = n.gates[g].ins /\ c.gate[k].type = n.gates[g].type
    BY <1>3, <1>7
  <2>3. Reads(c, NoPatch, k) = ReadBy(n, g)
    BY <1>3, <1>6, <2>1, <2>2 DEF Reads, Ins, ReadBy
  <2>4. NetValue(c, NoPatch, v, k) =
          GateFn(c, n.gates[g].type, [i \in DOMAIN n.gates[g].ins |-> v[n.gates[g].ins[i]]])
    BY <1>6, <2>2 DEF NetValue
  <2>. QED BY <1>3, <2>1, <2>3, <2>4, GateFnSame
<1>8. PICK b \in Nat : \E rank \in [NetsOf(n) -> 0 .. b] :
        \A k \in DOMAIN NoPatch \union Driven(c) : v[k] # Unset =>
          \A m \in Reads(c, NoPatch, k) : rank[m] < rank[k]
  BY <1>3, <1>5 DEF IsEvaluated
<1>9. PICK rank \in [NetsOf(n) -> 0 .. b] :
        \A k \in DOMAIN NoPatch \union Driven(c) : v[k] # Unset =>
          \A m \in Reads(c, NoPatch, k) : rank[m] < rank[k]
  BY <1>8
<1>10. \A g \in DOMAIN n.gates : v[n.gates[g].out] # Unset =>
         \A m \in ReadBy(n, g) : rank[m] < rank[n.gates[g].out]
  BY <1>7, <1>9
<1>11. \A g \in DOMAIN n.gates :
         /\ (\A m \in ReadBy(n, g) : v[m] # Unset) => v[n.gates[g].out] # Unset
         /\ v[n.gates[g].out] # Unset =>
              v[n.gates[g].out] = GateFn(n, n.gates[g].type,
                                         [i \in DOMAIN n.gates[g].ins |-> v[n.gates[g].ins[i]]])
  <2>. SUFFICES ASSUME NEW g \in DOMAIN n.gates, NEW k, k = n.gates[g].out
                PROVE  /\ (\A m \in ReadBy(n, g) : v[m] # Unset) => v[k] # Unset
                       /\ v[k] # Unset =>
                            v[k] = GateFn(n, n.gates[g].type,
                                          [i \in DOMAIN n.gates[g].ins |-> v[n.gates[g].ins[i]]])
    OBVIOUS
  <2>1. \A h \in DOMAIN NoPatch \union Driven(c) :
          /\ (\A m \in Reads(c, NoPatch, h) : v[m] # Unset) => v[h] # Unset
          /\ v[h] # Unset => v[h] = NetValue(c, NoPatch, v, h)
    BY <1>5 DEF IsEvaluated
  <2>. QED BY <1>7, <2>1
<1>12. /\ v \in [NetsOf(n) -> Values(n)] /\ v[0] = Const(n, 0) /\ v[1] = Const(n, 1)
       /\ \A k \in DOMAIN n.pis : v[k] = n.pis[k]
       /\ \A k \in n.nets \ (DOMAIN n.pis \union Outs(n)) : v[k] = Unset
  BY <1>3, <1>5, <1>6 DEF IsEvaluated, Const
<1>. QED BY <1>2, <1>10, <1>11, <1>12 DEF RightFor

-----------------------------------------------------------------------------
(* Cycles.                                                                 *)

(* The dependents of a net are the least set that has it and the nets that *)
(* are computed from nets of the set.                                      *)
LEMMA DependentsLeast ==
  ASSUME NEW n, IsNetlist(n), NEW k \in n.nets
  PROVE  /\ k \in Dependents(n, k) /\ Dependents(n, k) \subseteq n.nets
         /\ \A m \in Dependents(n, k) : Readers(n, m) \subseteq Dependents(n, k)
         /\ \A T : k \in T /\ (\A m \in T \intersect n.nets : Readers(n, m) \subseteq T)
              => Dependents(n, k) \subseteq T
<1>1. PICK c : c = AsCircuit(n)
  OBVIOUS
<1>2. PICK E : E = [m \in n.nets |-> Readers(n, m)]
  OBVIOUS
<1>3. c.nets = n.nets /\ IsFiniteSet(c.nets)
  BY <1>1 DEF AsCircuit, IsNetlist
<1>4. \A m : Readers(n, m) \subseteq n.nets
  BY GateTyped DEF Readers
<1>5. E \in [c.nets -> SUBSET c.nets]
  BY <1>2, <1>3, <1>4
<1>6. {k} \in SUBSET c.nets
  BY <1>3
<1>7. IsClosure(c, {k}, E, Closure(c, {k}, E))
  BY <1>3, <1>5, <1>6, ClosureCloses
<1>8. Closure(c, {k}, E) = Dependents(n, k)
  BY <1>1, <1>2 DEF Dependents
<1>9. IsClosure(c, {k}, E, Dependents(n, k))
  BY <1>7, <1>8
<1>10. \A m \in n.nets : E[m] = Readers(n, m)
  BY <1>2
<1>. QED BY <1>3, <1>9, <1>10 DEF IsClosure

(* When every gate has a value, what they read comes before what they      *)
(* drive: no net is behind itself.                                         *)
LEMMA ValuedNoCycle ==
  ASSUME NEW n, IsNetlist(n), NEW v, RightFor(n, v),
         \A g \in DOMAIN n.gates : v[n.gates[g].out] # Unset
  PROVE  NoCycle(n)
<1>1. PICK b \in Nat : \E rank \in [NetsOf(n) -> 0 .. b] :
        \A g \in DOMAIN n.gates : v[n.gates[g].out] # Unset =>
          \A m \in ReadBy(n, g) : rank[m] < rank[n.gates[g].out]
  BY DEF RightFor
<1>2. PICK rank \in [NetsOf(n) -> 0 .. b] :
        \A g \in DOMAIN n.gates :
          \A m \in ReadBy(n, g) : rank[m] < rank[n.gates[g].out]
  BY <1>1
<1>3. SUFFICES ASSUME NEW k \in Outs(n), NEW m \in Readers(n, k)
               PROVE  k \notin Dependents(n, m)
  BY DEF NoCycle
<1>4. \A x, y : y \in Readers(n, x) => y \in n.nets /\ rank[x] < rank[y]
  <2>. SUFFICES ASSUME NEW x, NEW y \in Readers(n, x)
                PROVE  y \in n.nets /\ rank[x] < rank[y]
    OBVIOUS
  <2>1. PICK g \in DOMAIN n.gates : x \in ReadBy(n, g) /\ y = n.gates[g].out
    BY DEF Readers
  <2>. QED BY <1>2, <2>1, GateTyped
<1>5. \A x \in n.nets : rank[x] \in Int
  BY DEF NetsOf
<1>6. k \in n.nets
  BY GateTyped DEF Outs
<1>7. m \in n.nets /\ rank[k] < rank[m]
  BY <1>4
<1>. DEFINE T == {x \in n.nets : rank[m] <= rank[x]}
<1>8. m \in T /\ \A x \in T \intersect n.nets : Readers(n, x) \subseteq T
  <2>1. m \in T
    BY <1>5, <1>7
  <2>2. ASSUME NEW x \in T, NEW y \in Readers(n, x) PROVE y \in T
    BY <1>4, <1>5, <1>7
  <2>. QED BY <2>1, <2>2
<1>9. Dependents(n, m) \subseteq T
  <2>1. \A S : m \in S /\ (\A x \in S \intersect n.nets : Readers(n, x) \subseteq S)
                => Dependents(n, m) \subseteq S
    BY <1>7, DependentsLeast
  <2>. HIDE DEF T
  <2>. QED BY <1>8, <2>1
<1>10. k \notin T
  BY <1>5, <1>6, <1>7
<1>. QED BY <1>9, <1>10

(* Gates of which each waits for another of them are on a cycle: the one   *)
(* with the most dependents cannot wait for one with more.                 *)
LEMMA WaitingCycle ==
  ASSUME NEW n, IsNetlist(n), NEW U \in SUBSET Outs(n), U # {},
         \A u \in U : \E m \in U : u \in Readers(n, m)
  PROVE  ~NoCycle(n)
<1>. SUFFICES ASSUME NoCycle(n) PROVE FALSE
  OBVIOUS
<1>1. Outs(n) \subseteq n.nets /\ IsFiniteSet(n.nets)
  BY GateTyped DEF Outs, IsNetlist
<1>2. PICK N : N = Cardinality(n.nets)
  OBVIOUS
<1>3. N \in Nat
  BY <1>1, <1>2, FS_CardinalityType
<1>4. ASSUME NEW k \in n.nets
      PROVE  IsFiniteSet(Dependents(n, k)) /\ Cardinality(Dependents(n, k)) \in 0 .. N
  <2>1. Dependents(n, k) \subseteq n.nets
    BY DependentsLeast
  <2>2. IsFiniteSet(Dependents(n, k)) /\ Cardinality(Dependents(n, k)) <= N
    BY <1>1, <1>2, <2>1, FS_Subset
  <2>3. Cardinality(Dependents(n, k)) \in Nat
    BY <2>2, FS_CardinalityType
  <2>. QED BY <1>3, <2>2, <2>3
<1>. DEFINE left(k) == N - Cardinality(Dependents(n, k))
            L == {left(k) : k \in U}
<1>5. L \subseteq Nat /\ L # {}
  <2>1. ASSUME NEW k \in U PROVE left(k) \in Nat
    BY <1>1, <1>3, <1>4
  <2>. QED BY <2>1
<1>6. PICK l \in L : \A j \in L : l <= j
  <2>. HIDE DEF L
  <2>. QED BY <1>5, Smallest
<1>7. PICK u \in U : l = left(u)
  OBVIOUS
<1>8. PICK m \in U : u \in Readers(n, m)
  OBVIOUS
<1>9. left(u) <= left(m)
  BY <1>6, <1>7
<1>10. u \in n.nets /\ m \in n.nets /\ m \in Outs(n)
  BY <1>1
<1>11. m \notin Dependents(n, u)
  BY <1>8, <1>10 DEF NoCycle
<1>12. m \in Dependents(n, m) /\ u \in Dependents(n, m)
       /\ \A x \in Dependents(n, m) : Readers(n, x) \subseteq Dependents(n, m)
  BY <1>8, <1>10, DependentsLeast
<1>13. Dependents(n, u) \subseteq Dependents(n, m)
  BY <1>10, <1>12, DependentsLeast
<1>14. Dependents(n, u) \subseteq Dependents(n, m) /\ Dependents(n, u) # Dependents(n, m)
  BY <1>11, <1>12, <1>13
<1>15. Cardinality(Dependents(n, u)) < Cardinality(Dependents(n, m))
  <2>1. IsFiniteSet(Dependents(n, m)) /\ IsFiniteSet(Dependents(n, u))
    BY <1>4, <1>10
  <2>2. /\ Cardinality(Dependents(n, u)) <= Cardinality(Dependents(n, m))
        /\ Cardinality(Dependents(n, u)) = Cardinality(Dependents(n, m))
             => Dependents(n, u) = Dependents(n, m)
    BY <1>13, <2>1, FS_Subset
  <2>3. Cardinality(Dependents(n, u)) \in Int /\ Cardinality(Dependents(n, m)) \in Int
    BY <1>4, <1>10
  <2>. QED BY <1>14, <2>2, <2>3
<1>16. Cardinality(Dependents(n, u)) \in Int /\ Cardinality(Dependents(n, m)) \in Int
  BY <1>4, <1>10
<1>. QED BY <1>3, <1>9, <1>15, <1>16

-----------------------------------------------------------------------------
(* The invariant.                                                          *)

(* The literal a net has before any gate is evaluated.                     *)
Loaded(n, k) ==
  IF k \in {0, 1} THEN Const(n, k)
  ELSE IF k \in DOMAIN n.pis THEN n.pis[k] ELSE Unset

Typed ==
  /\ nl \in Netlists /\ netLit \in [NetsOf(nl) -> Values(nl)]
  /\ gi \in 1 .. AllGates + 1 /\ gateDone \subseteq Gates /\ progress \in BOOLEAN

BeforePasses ==
  /\ pc \in {"inputs", "drivers"} => gateDone = {}
  /\ pc = "inputs" => gi = 1 /\ DOMAIN driverOf = {}
  /\ pc = "drivers" =>
       /\ \A k \in NetsOf(nl) : netLit[k] = Loaded(nl, k)
       /\ DOMAIN driverOf = {nl.gates[g].out : g \in 1 .. gi - 1}
       /\ \A g, h \in 1 .. gi - 1 :
            /\ nl.gates[g].out \notin DOMAIN nl.pis
            /\ nl.gates[g].out = nl.gates[h].out => g = h

Passes ==
  pc \in {"pass", "dangling", "done"} =>
    /\ SingleDrivers(nl)
    /\ \A k \in NetsOf(nl) : netLit[k] # Unset => netLit[k] = Evaluation(nl)[k]
    /\ \A k \in NetsOf(nl) \ Outs(nl) : netLit[k] = Loaded(nl, k)
    /\ \A g \in Gates : g \in gateDone <=> netLit[nl.gates[g].out] # Unset
    /\ \A g \in gateDone : IsReady(g)
    /\ pc = "pass" /\ ~progress => \A g \in Gates \ gateDone : g < gi => ~IsReady(g)
    /\ pc \in {"dangling", "done"} => gateDone = Gates

Refused == pc = "error" => ~WellFormed(nl)

BuildInv == Typed /\ BeforePasses /\ Passes /\ Refused

LEMMA GatesAre ==
  ASSUME nl \in Netlists
  PROVE  /\ IsNetlist(nl) /\ AllGates \in Nat /\ Gates = 1 .. AllGates
         /\ \A g \in Gates : /\ nl.gates[g].out \in nl.nets /\ nl.gates[g].out \in Outs(nl)
                             /\ nl.gates[g].out \in NetsOf(nl)
                             /\ nl.gates[g].type \in GateTypes
                             /\ ReadBy(nl, g) \subseteq NetsOf(nl)
<1>1. IsNetlist(nl)
  BY BuildCktAssumption
<1>2. PICK T : T = [out : nl.nets, type : GateTypes, ins : Seq(nl.nets \union {0, 1})]
  OBVIOUS
<1>3. nl.gates \in Seq(T)
  BY <1>1, <1>2 DEF IsNetlist
<1>4. PICK gates : gates = nl.gates
  OBVIOUS
<1>5. gates \in Seq(T) => Len(gates) \in Nat /\ DOMAIN gates = 1 .. Len(gates)
  OBVIOUS
<1>6. AllGates \in Nat /\ Gates = 1 .. AllGates
  BY <1>3, <1>4, <1>5 DEF AllGates, Gates
<1>. QED BY <1>1, <1>6, GateTyped DEF Gates, NetsOf

LEMMA LoadedTyped ==
  ASSUME NEW n, IsNetlist(n), NEW k \in NetsOf(n)
  PROVE  /\ Loaded(n, k) \in Values(n)
         /\ k \in DOMAIN n.pis \union {0, 1} => Loaded(n, k) # Unset
<1>1. NoNet \notin Patterns(n)
  BY DEF IsNetlist, NoNet, Patterns
<1>2. \A f : f \subseteq Patterns(n) => f \in Values(n) /\ f # Unset
  BY <1>1 DEF Values, Unset
<1>3. Const(n, k) \subseteq Patterns(n)
  BY DEF Const
<1>4. k \in DOMAIN n.pis => n.pis[k] \subseteq Patterns(n)
  BY DEF IsNetlist, Patterns
<1>5. Unset \in Values(n)
  BY DEF Values
<1>. QED BY <1>2, <1>3, <1>4, <1>5 DEF Loaded

LEMMA InitBuild == Init => BuildInv
<1>. SUFFICES ASSUME Init PROVE BuildInv
  OBVIOUS
<1>1. /\ nl \in Netlists /\ gi = 1 /\ gateDone = {} /\ progress = TRUE /\ pc = "inputs"
      /\ netLit = [n \in nl.nets \union {0, 1} |-> Unset] /\ DOMAIN driverOf = {}
  BY DEF Init
<1>2. netLit \in [NetsOf(nl) -> Values(nl)]
  BY <1>1 DEF NetsOf, Values
<1>3. Typed
  BY <1>1, <1>2, GatesAre DEF Typed
<1>. QED BY <1>1, <1>3 DEF BuildInv, BeforePasses, Passes, Refused

LEMMA LoadInputsBuild == BuildInv /\ LoadInputs => BuildInv'
<1>. SUFFICES ASSUME BuildInv, LoadInputs PROVE BuildInv'
  OBVIOUS
<1>1. /\ pc = "inputs" /\ pc' = "drivers" /\ nl' = nl /\ driverOf' = driverOf /\ gi' = gi
      /\ gateDone' = gateDone /\ progress' = progress
      /\ netLit' = [n \in DOMAIN netLit |->
                      IF n \in {0, 1} THEN Const(nl, n)
                      ELSE IF n \in DOMAIN nl.pis THEN nl.pis[n] ELSE Unset]
  BY DEF LoadInputs
<1>2. /\ nl \in Netlists /\ DOMAIN netLit = NetsOf(nl) /\ gi = 1 /\ gateDone = {}
      /\ DOMAIN driverOf = {} /\ progress \in BOOLEAN
  BY <1>1 DEF BuildInv, Typed, BeforePasses
<1>3. netLit' = [k \in NetsOf(nl) |-> Loaded(nl, k)]
  BY <1>1, <1>2 DEF Loaded
<1>4. \A k \in NetsOf(nl) : netLit'[k] = Loaded(nl, k) /\ Loaded(nl, k) \in Values(nl)
  BY <1>2, <1>3, GatesAre, LoadedTyped
<1>5. netLit' \in [NetsOf(nl) -> Values(nl)]
  BY <1>3, <1>4
<1>6. Typed'
  BY <1>1, <1>2, <1>5, GatesAre DEF Typed, AllGates, Gates
<1>7. BeforePasses'
  BY <1>1, <1>2, <1>4 DEF BeforePasses
<1>. QED BY <1>1, <1>6, <1>7 DEF BuildInv, Passes, Refused

(* A throw keeps everything but the position.                              *)
LEMMA ThrowBuild ==
  ASSUME NEW what, BuildInv, Throw(what), ~WellFormed(nl)
  PROVE  BuildInv'
<1>1. /\ pc' = "error" /\ nl' = nl /\ netLit' = netLit /\ driverOf' = driverOf /\ gi' = gi
      /\ gateDone' = gateDone /\ progress' = progress
  BY DEF Throw
<1>2. Typed'
  BY <1>1 DEF BuildInv, Typed, AllGates, Gates
<1>. QED BY <1>1, <1>2 DEF BuildInv, BeforePasses, Passes, Refused

LEMMA RegisterBuild == BuildInv /\ Register => BuildInv'
<1>. SUFFICES ASSUME BuildInv, Register PROVE BuildInv'
  OBVIOUS
<1>1. /\ pc = "drivers" /\ gi <= AllGates
      /\ nl \in Netlists /\ netLit \in [NetsOf(nl) -> Values(nl)] /\ gi \in 1 .. AllGates + 1
      /\ gateDone = {} /\ progress \in BOOLEAN
      /\ \A k \in NetsOf(nl) : netLit[k] = Loaded(nl, k)
      /\ DOMAIN driverOf = {nl.gates[g].out : g \in 1 .. gi - 1}
      /\ \A g, h \in 1 .. gi - 1 :
           /\ nl.gates[g].out \notin DOMAIN nl.pis
           /\ nl.gates[g].out = nl.gates[h].out => g = h
  BY DEF BuildInv, Typed, BeforePasses, Register
<1>2. /\ IsNetlist(nl) /\ AllGates \in Nat /\ Gates = 1 .. AllGates /\ gi \in Gates
      /\ gi - 1 \in Nat /\ 1 .. gi - 1 \subseteq Gates
      /\ Gate.out \in nl.nets /\ Gate.out \in NetsOf(nl) /\ Gate.out > 1
  <2>1. gi \in Gates /\ IsNetlist(nl) /\ AllGates \in Nat /\ Gates = 1 .. AllGates
    BY <1>1, GatesAre
  <2>2. Gate.out \in nl.nets /\ Gate.out \in NetsOf(nl)
    BY <1>1, <2>1, GatesAre DEF Gate
  <2>3. Gate.out > 1
    BY <2>1, <2>2 DEF IsNetlist
  <2>. QED BY <1>1, <2>1, <2>2, <2>3
<1>3. CASE HasDriver
  <2>1. PICK g \in 1 .. gi - 1 : nl.gates[g].out = Gate.out
    BY <1>1, <1>3 DEF HasDriver
  <2>2. g \in Gates /\ gi \in Gates /\ g # gi /\ nl.gates[g].out = nl.gates[gi].out
    BY <1>2, <2>1 DEF Gate
  <2>3. ~SingleDrivers(nl)
    BY <2>2 DEF SingleDrivers, Gates
  <2>. QED BY <1>3, <2>3, ThrowBuild DEF Register, WellFormed
<1>4. CASE ~HasDriver /\ netLit[Gate.out] # Unset
  <2>1. Gate.out \in DOMAIN nl.pis
    BY <1>1, <1>2, <1>4 DEF Loaded
  <2>2. ~SingleDrivers(nl)
    BY <1>2, <2>1 DEF SingleDrivers, Gate, Gates
  <2>. QED BY <1>2, <1>4, <2>2, ThrowBuild DEF Register, WellFormed
<1>5. CASE ~HasDriver /\ netLit[Gate.out] = Unset
  <2>1. /\ driverOf' = [n \in DOMAIN driverOf \union {Gate.out} |->
                          IF n = Gate.out THEN gi ELSE driverOf[n]]
        /\ gi' = gi + 1 /\ nl' = nl /\ netLit' = netLit /\ gateDone' = gateDone
        /\ progress' = progress /\ pc' = pc
    BY <1>5 DEF Register
  <2>2. DOMAIN driverOf' = {nl.gates[g].out : g \in 1 .. gi' - 1}
    <3>1. DOMAIN driverOf' = DOMAIN driverOf \union {Gate.out}
      BY <2>1
    <3>2. 1 .. gi' - 1 = (1 .. gi - 1) \union {gi}
      BY <1>1, <1>2, <2>1
    <3>. QED BY <1>1, <3>1, <3>2 DEF Gate
  <2>3. Gate.out \notin DOMAIN nl.pis
    BY <1>1, <1>2, <1>5, LoadedTyped
  <2>4. \A g \in 1 .. gi - 1 : nl.gates[g].out # nl.gates[gi].out
    BY <1>1, <1>5 DEF HasDriver, Gate
  <2>5. \A g, h \in 1 .. gi' - 1 :
          /\ nl.gates[g].out \notin DOMAIN nl.pis
          /\ nl.gates[g].out = nl.gates[h].out => g = h
    <3>1. 1 .. gi' - 1 = (1 .. gi - 1) \union {gi}
      BY <1>1, <1>2, <2>1
    <3>. QED BY <1>1, <2>3, <2>4, <3>1 DEF Gate
  <2>6. Typed'
    BY <1>1, <1>2, <2>1 DEF Typed, AllGates, Gates
  <2>7. BeforePasses'
    BY <1>1, <2>1, <2>2, <2>5 DEF BeforePasses
  <2>. QED BY <1>1, <2>1, <2>6, <2>7 DEF BuildInv, Passes, Refused
<1>. QED BY <1>3, <1>4, <1>5

LEMMA RegisteredBuild == BuildInv /\ Registered => BuildInv'
<1>. SUFFICES ASSUME BuildInv, Registered PROVE BuildInv'
  OBVIOUS
<1>1. /\ pc = "drivers" /\ gi > AllGates /\ nl' = nl /\ netLit' = netLit
      /\ driverOf' = driverOf /\ gateDone' = gateDone
      /\ \/ AllGates = 0 /\ pc' = "dangling" /\ gi' = gi /\ progress' = progress
         \/ pc' = "pass" /\ gi' = 1 /\ progress' = FALSE
  BY DEF Registered, EnterPass
<1>2. /\ nl \in Netlists /\ netLit \in [NetsOf(nl) -> Values(nl)] /\ gi \in 1 .. AllGates + 1
      /\ gateDone = {} /\ progress \in BOOLEAN
      /\ \A k \in NetsOf(nl) : netLit[k] = Loaded(nl, k)
      /\ \A g, h \in 1 .. gi - 1 :
           /\ nl.gates[g].out \notin DOMAIN nl.pis
           /\ nl.gates[g].out = nl.gates[h].out => g = h
  BY <1>1 DEF BuildInv, Typed, BeforePasses
<1>3. /\ IsNetlist(nl) /\ AllGates \in Nat /\ Gates = 1 .. AllGates /\ 1 .. gi - 1 = Gates
      /\ \A g \in Gates : nl.gates[g].out \in nl.nets /\ nl.gates[g].out \in NetsOf(nl)
  BY <1>1, <1>2, GatesAre
<1>4. SingleDrivers(nl)
  BY <1>2, <1>3 DEF SingleDrivers, Gates
<1>5. RightFor(nl, Evaluation(nl))
  BY <1>3, <1>4, EvaluationRight
<1>6. \A k \in NetsOf(nl) : netLit[k] # Unset => netLit[k] = Evaluation(nl)[k]
  <2>1. PICK v : v = Evaluation(nl)
    OBVIOUS
  <2>2. RightFor(nl, v)
    BY <1>5, <2>1
  <2>3. v[0] = Const(nl, 0) /\ v[1] = Const(nl, 1) /\ \A k \in DOMAIN nl.pis : v[k] = nl.pis[k]
    BY <2>2 DEF RightFor
  <2>. QED BY <1>2, <2>1, <2>3 DEF Loaded
<1>7. \A g \in Gates : netLit[nl.gates[g].out] = Unset
  <2>. SUFFICES ASSUME NEW g \in Gates PROVE netLit[nl.gates[g].out] = Unset
    OBVIOUS
  <2>1. nl.gates[g].out \notin DOMAIN nl.pis \union {0, 1}
    BY <1>3, <1>4 DEF SingleDrivers, Gates, IsNetlist
  <2>. QED BY <1>2, <1>3, <2>1 DEF Loaded
<1>8. Typed'
  <2>1. gi' \in 1 .. AllGates + 1
    <3>1. 1 \in 1 .. AllGates + 1
      BY <1>3
    <3>. QED BY <1>1, <1>2, <3>1
  <2>2. progress' \in BOOLEAN
    BY <1>1, <1>2
  <2>. QED BY <1>1, <1>2, <2>1, <2>2 DEF Typed, AllGates, Gates
<1>9. AllGates = 0 => Gates = {}
  BY <1>3
<1>10. Passes'
  BY <1>1, <1>2, <1>3, <1>4, <1>6, <1>7, <1>9 DEF Passes, Gates, IsReady
<1>. QED BY <1>1, <1>8, <1>10 DEF BuildInv, BeforePasses, Refused

LEMMA VisitBuild == BuildInv /\ Visit => BuildInv'
<1>. SUFFICES ASSUME BuildInv, Visit PROVE BuildInv'
  OBVIOUS
<1>1. /\ pc = "pass" /\ gi <= AllGates /\ gi' = gi + 1 /\ nl' = nl /\ pc' = pc
  BY DEF Visit
<1>2. /\ nl \in Netlists /\ netLit \in [NetsOf(nl) -> Values(nl)] /\ gi \in 1 .. AllGates + 1
      /\ gateDone \subseteq Gates /\ progress \in BOOLEAN
      /\ SingleDrivers(nl)
      /\ \A k \in NetsOf(nl) : netLit[k] # Unset => netLit[k] = Evaluation(nl)[k]
      /\ \A k \in NetsOf(nl) \ Outs(nl) : netLit[k] = Loaded(nl, k)
      /\ \A g \in Gates : g \in gateDone <=> netLit[nl.gates[g].out] # Unset
      /\ \A g \in gateDone : IsReady(g)
      /\ ~progress => \A g \in Gates \ gateDone : g < gi => ~IsReady(g)
  BY <1>1 DEF BuildInv, Typed, Passes
<1>3. /\ IsNetlist(nl) /\ AllGates \in Nat /\ Gates = 1 .. AllGates /\ gi \in Gates
      /\ \A g \in Gates : /\ nl.gates[g].out \in NetsOf(nl) /\ nl.gates[g].out \in Outs(nl)
                          /\ ReadBy(nl, g) \subseteq NetsOf(nl)
  BY <1>1, <1>2, GatesAre
<1>4. CASE ~(gi \notin gateDone /\ IsReady(gi))
  <2>1. netLit' = netLit /\ gateDone' = gateDone /\ progress' = progress
    BY <1>4 DEF Visit
  <2>2. ~progress => \A g \in Gates \ gateDone : g < gi + 1 => ~IsReady(g)
    BY <1>2, <1>3, <1>4
  <2>3. Typed'
    BY <1>1, <1>2, <1>3, <2>1 DEF Typed, AllGates, Gates
  <2>4. Passes'
    BY <1>1, <1>2, <2>1, <2>2 DEF Passes, Gates, IsReady
  <2>. QED BY <1>1, <2>3, <2>4 DEF BuildInv, BeforePasses, Refused
<1>5. CASE gi \notin gateDone /\ IsReady(gi)
  <2>1. PICK v : v = Evaluation(nl)
    OBVIOUS
  <2>2. PICK k : k = Gate.out
    OBVIOUS
  <2>3. PICK lit : lit = GateFn(nl, Gate.type,
                                [i \in DOMAIN Gate.ins |-> netLit[Gate.ins[i]]])
    OBVIOUS
  <2>4. /\ netLit' = [netLit EXCEPT ![k] = lit] /\ gateDone' = gateDone \union {gi}
        /\ progress' = TRUE
    BY <1>5, <2>2, <2>3 DEF Visit
  <2>5. RightFor(nl, v)
    BY <1>2, <1>3, <2>1, EvaluationRight
  <2>6. k = nl.gates[gi].out /\ k \in NetsOf(nl) /\ k \in Outs(nl)
    BY <1>3, <2>2 DEF Gate
  <2>7. \A m \in ReadBy(nl, gi) : netLit[m] # Unset /\ netLit[m] = v[m]
    BY <1>2, <1>3, <1>5, <2>1 DEF IsReady
  <2>8. v[k] # Unset /\ v[k] = GateFn(nl, nl.gates[gi].type,
                              [i \in DOMAIN nl.gates[gi].ins |-> v[nl.gates[gi].ins[i]]])
    <3>1. \A m \in ReadBy(nl, gi) : v[m] # Unset
      BY <2>7
    <3>. QED BY <1>3, <2>5, <2>6, <3>1 DEF RightFor, Gates
  <2>9. lit = v[k]
    <3>1. \A i \in DOMAIN nl.gates[gi].ins : netLit[nl.gates[gi].ins[i]] = v[nl.gates[gi].ins[i]]
      BY <2>7 DEF ReadBy
    <3>2. [i \in DOMAIN nl.gates[gi].ins |-> netLit[nl.gates[gi].ins[i]]]
            = [i \in DOMAIN nl.gates[gi].ins |-> v[nl.gates[gi].ins[i]]]
      BY <3>1
    <3>. QED BY <2>3, <2>8, <3>2 DEF Gate
  <2>10. v[k] \in Values(nl)
    BY <2>5, <2>6 DEF RightFor
  <2>11. \A m \in NetsOf(nl) : netLit'[m] = IF m = k THEN v[k] ELSE netLit[m]
    BY <1>2, <2>4, <2>9
  <2>12. \A m \in NetsOf(nl) : netLit[m] # Unset => netLit'[m] # Unset
    BY <2>8, <2>11
  <2>13. \A g \in Gates : nl.gates[g].out = k => g = gi
    BY <1>2, <1>3, <2>6 DEF SingleDrivers, Gates
  <2>14. netLit' \in [NetsOf(nl) -> Values(nl)]
    BY <1>2, <2>4, <2>6, <2>9, <2>10
  <2>15. Typed'
    BY <1>1, <1>2, <1>3, <2>4, <2>14 DEF Typed, AllGates, Gates
  <2>16. \A g \in gateDone' : \A m \in ReadBy(nl, g) : netLit'[m] # Unset
    <3>1. \A g \in gateDone : \A m \in ReadBy(nl, g) : netLit[m] # Unset
      BY <1>2 DEF IsReady
    <3>. QED BY <1>2, <1>3, <2>4, <2>7, <2>12, <3>1
  <2>17. \A g \in Gates : g \in gateDone' <=> netLit'[nl.gates[g].out] # Unset
    BY <1>2, <1>3, <2>4, <2>6, <2>8, <2>11, <2>13
  <2>18. \A m \in NetsOf(nl) : netLit'[m] # Unset => netLit'[m] = Evaluation(nl)[m]
    BY <1>2, <2>1, <2>11
  <2>19. \A m \in NetsOf(nl) \ Outs(nl) : netLit'[m] = Loaded(nl, m)
    BY <1>2, <2>6, <2>11
  <2>20. Passes'
    BY <1>1, <1>2, <2>4, <2>16, <2>17, <2>18, <2>19 DEF Passes, Gates, IsReady
  <2>. QED BY <1>1, <2>15, <2>20 DEF BuildInv, BeforePasses, Refused
<1>. QED BY <1>4, <1>5

LEMMA EndPassBuild == BuildInv /\ EndPass => BuildInv'
<1>. SUFFICES ASSUME BuildInv, EndPass PROVE BuildInv'
  OBVIOUS
<1>1. pc = "pass" /\ gi > AllGates
  BY DEF EndPass
<1>2. /\ nl \in Netlists /\ netLit \in [NetsOf(nl) -> Values(nl)] /\ gi \in 1 .. AllGates + 1
      /\ gateDone \subseteq Gates /\ progress \in BOOLEAN
      /\ SingleDrivers(nl)
      /\ \A k \in NetsOf(nl) : netLit[k] # Unset => netLit[k] = Evaluation(nl)[k]
      /\ \A k \in NetsOf(nl) \ Outs(nl) : netLit[k] = Loaded(nl, k)
      /\ \A g \in Gates : g \in gateDone <=> netLit[nl.gates[g].out] # Unset
      /\ \A g \in gateDone : IsReady(g)
      /\ ~progress => \A g \in Gates \ gateDone : g < gi => ~IsReady(g)
  BY <1>1 DEF BuildInv, Typed, Passes
<1>3. /\ IsNetlist(nl) /\ AllGates \in Nat /\ Gates = 1 .. AllGates
      /\ \A g \in Gates : /\ nl.gates[g].out \in Outs(nl)
                          /\ ReadBy(nl, g) \subseteq NetsOf(nl)
  BY <1>2, GatesAre
<1>4. CASE gateDone = Gates /\ pc' = "dangling"
           /\ UNCHANGED <<nl, netLit, driverOf, gi, gateDone, progress, error>>
  <2>1. Typed'
    BY <1>2, <1>4 DEF Typed, AllGates, Gates
  <2>2. Passes'
    BY <1>2, <1>4 DEF Passes, Gates, IsReady
  <2>. QED BY <1>4, <2>1, <2>2 DEF BuildInv, BeforePasses, Refused
<1>5. CASE EnterPass
  <2>1. /\ gi' = 1 /\ progress' = FALSE /\ pc' = "pass" /\ nl' = nl /\ netLit' = netLit
        /\ gateDone' = gateDone
    BY <1>5 DEF EnterPass
  <2>2. Typed'
    <3>1. gi' \in 1 .. AllGates + 1
      BY <1>3, <2>1
    <3>. QED BY <1>2, <2>1, <3>1 DEF Typed, AllGates, Gates
  <2>3. \A g \in Gates : ~(g < 1)
    BY <1>3
  <2>4. Passes'
    BY <1>2, <2>1, <2>3 DEF Passes, Gates, IsReady
  <2>. QED BY <2>1, <2>2, <2>4 DEF BuildInv, BeforePasses, Refused
<1>6. CASE gateDone # Gates /\ ~Goes /\ Throw("combinational cycle")
  <2>. SUFFICES ASSUME NoDangling(nl) PROVE ~NoCycle(nl)
    BY <1>6, ThrowBuild DEF WellFormed
  <2>. DEFINE U == {nl.gates[g].out : g \in Gates \ gateDone}
  <2>1. U \in SUBSET Outs(nl) /\ U # {}
    <3>1. \A g \in Gates : nl.gates[g].out \in Outs(nl)
      BY <1>3
    <3>2. \E g \in Gates : g \notin gateDone
      BY <1>2, <1>6
    <3>. QED BY <3>1, <3>2
  <2>2. ASSUME NEW u \in U PROVE \E m \in U : u \in Readers(nl, m)
    <3>1. PICK g \in Gates \ gateDone : u = nl.gates[g].out
      OBVIOUS
    <3>2. ~IsReady(g)
      <4>1. g < gi
        BY <1>1, <1>2, <1>3, <3>1
      <4>2. ~progress
        BY <1>6 DEF Goes
      <4>. QED BY <1>2, <3>1, <4>1, <4>2
    <3>3. PICK m \in ReadBy(nl, g) : netLit[m] = Unset
      BY <3>2 DEF IsReady
    <3>4. m \in NetsOf(nl) /\ m \in Outs(nl) \union DOMAIN nl.pis \union {0, 1}
      BY <1>3, <3>1, <3>3 DEF NoDangling, Gates
    <3>5. m \in Outs(nl)
      BY <1>2, <1>3, <3>3, <3>4, LoadedTyped
    <3>6. PICK h \in Gates : m = nl.gates[h].out
      BY <3>5 DEF Outs, Gates
    <3>7. m \in U
      BY <1>2, <3>3, <3>6
    <3>8. u \in Readers(nl, m)
      BY <3>1, <3>3 DEF Readers, Gates
    <3>. QED BY <3>7, <3>8
  <2>. HIDE DEF U
  <2>. QED BY <1>3, <2>1, <2>2, WaitingCycle
<1>. QED BY <1>4, <1>5, <1>6 DEF EndPass

LEMMA DanglingBuild == BuildInv /\ Dangling => BuildInv'
<1>. SUFFICES ASSUME BuildInv, Dangling PROVE BuildInv'
  OBVIOUS
<1>1. /\ pc = "dangling" /\ pc' = "done" /\ nl' = nl /\ driverOf' = driverOf /\ gi' = gi
      /\ gateDone' = gateDone /\ progress' = progress
  BY DEF Dangling
<1>2. PICK lit : netLit' = [n \in DOMAIN netLit |->
                   IF netLit[n] = Unset /\ \E g \in Gates : n \in ReadBy(nl, g)
                   THEN lit ELSE netLit[n]]
  BY DEF Dangling
<1>3. /\ netLit \in [NetsOf(nl) -> Values(nl)] /\ gateDone = Gates
      /\ \A g \in gateDone : IsReady(g)
  BY <1>1 DEF BuildInv, Typed, Passes
<1>4. \A n \in DOMAIN netLit : ~(netLit[n] = Unset /\ \E g \in Gates : n \in ReadBy(nl, g))
  BY <1>3 DEF IsReady
<1>5. netLit' = [n \in DOMAIN netLit |-> netLit[n]]
  BY <1>2, <1>4
<1>6. netLit' = netLit
  BY <1>3, <1>5
<1>7. Typed'
  BY <1>1, <1>6 DEF BuildInv, Typed, AllGates, Gates
<1>8. Passes'
  BY <1>1, <1>6 DEF BuildInv, Passes, Gates, IsReady
<1>. QED BY <1>1, <1>7, <1>8 DEF BuildInv, BeforePasses, Refused

LEMMA BuildStep == BuildInv /\ [Next]_vars => BuildInv'
<1>. SUFFICES ASSUME BuildInv, [Next]_vars PROVE BuildInv'
  OBVIOUS
<1>1. CASE UNCHANGED vars
  <2>1. Typed' /\ BeforePasses' /\ Refused'
    BY <1>1 DEF vars, BuildInv, Typed, BeforePasses, Refused, AllGates, Gates
  <2>2. Passes'
    BY <1>1 DEF vars, BuildInv, Passes, Gates, IsReady
  <2>. QED BY <2>1, <2>2 DEF BuildInv
<1>2. CASE Step
  BY <1>2, LoadInputsBuild, RegisterBuild, RegisteredBuild, VisitBuild, EndPassBuild,
     DanglingBuild DEF Step
<1>. QED BY <1>1, <1>2 DEF Next, Finished

-----------------------------------------------------------------------------
(* The theorems.                                                           *)

NothingLoose == pc = "done" => NoDangling(nl)

LEMMA BuildRight == BuildInv => BuiltAsEvaluated /\ RefusedRightly /\ NothingLoose
<1>. SUFFICES ASSUME BuildInv PROVE BuiltAsEvaluated /\ RefusedRightly /\ NothingLoose
  OBVIOUS
<1>1. CASE pc = "done"
  <2>1. PICK v : v = Evaluation(nl)
    OBVIOUS
  <2>2. /\ nl \in Netlists /\ netLit \in [NetsOf(nl) -> Values(nl)] /\ gateDone = Gates
        /\ SingleDrivers(nl)
        /\ \A k \in NetsOf(nl) : netLit[k] # Unset => netLit[k] = v[k]
        /\ \A k \in NetsOf(nl) \ Outs(nl) : netLit[k] = Loaded(nl, k)
        /\ \A g \in Gates : g \in gateDone <=> netLit[nl.gates[g].out] # Unset
        /\ \A g \in gateDone : IsReady(g)
    BY <1>1, <2>1 DEF BuildInv, Typed, Passes
  <2>3. /\ IsNetlist(nl)
        /\ \A g \in Gates : nl.gates[g].out \in NetsOf(nl) /\ ReadBy(nl, g) \subseteq NetsOf(nl)
    BY <2>2, GatesAre
  <2>4. RightFor(nl, v)
    BY <2>1, <2>2, <2>3, EvaluationRight
  <2>5. \A k \in NetsOf(nl) : netLit[k] = v[k]
    <3>. SUFFICES ASSUME NEW k \in NetsOf(nl), netLit[k] = Unset PROVE v[k] = Unset
      BY <2>2
    <3>1. k \notin Outs(nl)
      BY <2>2 DEF Outs, Gates
    <3>2. k \notin DOMAIN nl.pis \union {0, 1}
      BY <2>2, <2>3, <3>1, LoadedTyped
    <3>3. k \in nl.nets \ (DOMAIN nl.pis \union Outs(nl))
      BY <3>1, <3>2 DEF NetsOf
    <3>. QED BY <2>4, <3>3 DEF RightFor
  <2>6. netLit = v
    <3>1. v \in [NetsOf(nl) -> Values(nl)]
      BY <2>4 DEF RightFor
    <3>. QED BY <2>2, <2>5, <3>1
  <2>7. NoCycle(nl)
    <3>1. \A g \in DOMAIN nl.gates : v[nl.gates[g].out] # Unset
      BY <2>2, <2>6 DEF Gates
    <3>. QED BY <2>3, <2>4, <3>1, ValuedNoCycle
  <2>8. NoDangling(nl)
    <3>. SUFFICES ASSUME NEW g \in DOMAIN nl.gates, NEW m \in ReadBy(nl, g), m \notin Outs(nl)
                  PROVE  m \in DOMAIN nl.pis \union {0, 1}
      BY DEF NoDangling
    <3>1. netLit[m] # Unset /\ m \in NetsOf(nl)
      BY <2>2, <2>3 DEF IsReady, Gates
    <3>2. Loaded(nl, m) # Unset
      BY <2>2, <3>1
    <3>. QED BY <3>2 DEF Loaded
  <2>. QED BY <1>1, <2>1, <2>2, <2>6, <2>7, <2>8 DEF BuiltAsEvaluated, RefusedRightly, NothingLoose
<1>2. CASE pc # "done"
  BY <1>2 DEF BuildInv, Refused, BuiltAsEvaluated, RefusedRightly, NothingLoose
<1>. QED BY <1>1, <1>2

LEMMA BuildInvariance == Spec => []BuildInv
<1>. QED BY InitBuild, BuildStep, PTL DEF Spec

(* Whatever the order of the gates, buildCkt (main.cpp:75) gives the nets  *)
(* the literals evalInto gives them.                                       *)
THEOREM BuildEvaluates == Spec => []BuiltAsEvaluated
<1>. QED BY BuildInvariance, BuildRight, PTL

(* It never takes a netlist with a net of two drivers, a driven input or a *)
(* cycle, and throws for none without such a fault or a net that is read   *)
(* and not driven, whatever the order of the gates.                        *)
THEOREM BuildRefuses == Spec => []RefusedRightly
<1>. QED BY BuildInvariance, BuildRight, PTL

(* No netlist is taken in which a net is read and not driven: the code     *)
(* that makes an input of such a net (main.cpp:130) never finds one.       *)
THEOREM DanglingRefused == Spec => []NothingLoose
<1>. QED BY BuildInvariance, BuildRight, PTL
=============================================================================
