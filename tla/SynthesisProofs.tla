-------------------------- MODULE SynthesisProofs --------------------------
(***************************************************************************)
(* Theorems about Synthesis, for all problems and bounds: the places kept  *)
(* for patterns are enough, each refinement learns something, the truth    *)
(* table never contradicts itself, each of the four ways of filling it     *)
(* says what the table says, and what comes out is a function that         *)
(* Synthesized of Circuit allows - which the Rectifier takes for granted.  *)
(*                                                                         *)
(* Cells are patterns over the ports alone: a literal says X if it means   *)
(* X (Means of PatchProofs) when each port is 1 on the cells it is in.     *)
(***************************************************************************)
EXTENDS Synthesis, PatchProofs, FiniteSetTheorems, TLAPS

Stages == {"ones", "zeros", "scan", "cover", "check", "tableOnes",
           "tableZeros", "fill", "done", "failed"}
Early == {"ones", "zeros", "scan"}
Tabling == {"tableOnes", "tableZeros", "fill"}

(* The places P hold patterns of bad: one of the first n slots of mem, or  *)
(* a pattern of the simulation ran.                                        *)
HoldsIn(P, bad, mem, n, ran) ==
  \A e \in P : \/ \E k \in 0..(n - 1) : e = <<"slot", k>> /\ mem[k] \in bad
               \/ \E q \in ran : e = <<"sim", q>> /\ q \in bad
Holds(P, bad) == HoldsIn(P, bad, slots, counter, sim)

(* How many slots have been used at most.                                  *)
CounterInv ==
  /\ counter \in Nat /\ iter \in 0..MaxIter
  /\ IsFiniteSet(blocked) /\ blocked \subseteq Patterns(problem.c)
  /\ pc \in Early => iter = 0
  /\ pc \in {"ones", "zeros"} => Cardinality(blocked) <= Cap
  /\ pc = "ones" => counter = Cardinality(blocked)
  /\ pc = "zeros" => counter <= Cap + Cardinality(blocked)
  /\ pc \notin {"ones", "zeros"} => counter <= 2 * Cap + 2 * iter
  /\ pc = "check" => iter < MaxIter

SampleInv ==
  /\ slots \in [0..(Slots - 1) -> Patterns(problem.c)]
  /\ Holds(p1, problem.bad0) /\ Holds(p0, problem.bad1)
  /\ pc \notin Early \union {"failed"} => p1 \union p0 # {}
  /\ pc = "check" => Open = {}

Cells(bad) == {Cell(problem, S, q) : q \in bad}
Ones == Cells(problem.bad0)
Zeros == Cells(problem.bad1)

(* S tells bad0 and bad1 apart.                                            *)
Separated ==
  /\ Cardinality(S) <= MaxSup
  /\ \A q1 \in problem.bad0, q0 \in problem.bad1 : ~Agree(q1, q0)

TableInv ==
  /\ S \subseteq Ports(problem)
  /\ pc \in Tabling => Separated
  /\ pc \notin Tabling \union {"done"} => one = {} /\ zero = {}
  /\ pc = "tableOnes" => zero = {}
  /\ one \subseteq Ones /\ zero \subseteq Zeros
  /\ pc \in {"tableZeros", "fill"} => one = Ones
  /\ pc = "fill" => zero = Zeros
  /\ pc = "done" => Separated /\ one = Ones /\ zero = Zeros

ResultFilled == pc = "done" => result \in Filled(S, one, zero)

Inv ==
  /\ problem \in Problems /\ sim \in problem.sims /\ pc \in Stages
  /\ CounterInv /\ SampleInv /\ TableInv /\ ResultFilled

-----------------------------------------------------------------------------
(* Ports.                                                                  *)

LEMMA PortsTyped ==
  ASSUME NEW p \in Problems
  PROVE  /\ Ports(p) \subseteq p.c.nets \union {-p.t}
         /\ IsFiniteSet(Ports(p)) /\ p.t \in Nat \ {0} /\ p.c.nets \subseteq Nat \ {0}
<1>1. p.t \in Nat \ {0} /\ p.c.nets \subseteq Nat \ {0} /\ IsFiniteSet(p.c.nets)
  BY SynthesisAssumption
<1>2. Ports(p) \subseteq p.c.nets \union {-p.t}
  BY DEF Ports, Divisors
<1>3. IsFiniteSet(p.c.nets \union {-p.t})
  BY <1>1, FS_AddElement
<1> QED
  BY <1>1, <1>2, <1>3, FS_Subset

(* Each port is the port of one divisor, whose function DivVal gives.      *)
LEMMA PortsDivide ==
  ASSUME NEW p \in Problems, NEW d \in Ports(p)
  PROVE  [port |-> d, val |-> DivVal(p, d)]
           \in Divisors(p.T, p.cur, p.t, p.tfo, p.c.nets)
<1>1. p.t \in Nat \ {0} /\ p.c.nets \subseteq Nat \ {0}
  BY PortsTyped
<1>2. PICK x \in Divisors(p.T, p.cur, p.t, p.tfo, p.c.nets) : d = x.port
  BY DEF Ports
<1>3. CASE x = [port |-> -p.t, val |-> p.cur[p.t]]
  <2>1. ~(d > 0) /\ -d = p.t
    BY <1>1, <1>2, <1>3
  <2>2. DivVal(p, d) = p.cur[p.t]
    BY <2>1 DEF DivVal
  <2> QED
    BY <1>2, <1>3, <2>2
<1>4. CASE \E n \in {m \in p.c.nets \ (p.tfo \union p.T) : p.cur[m] # Unset} :
             x = [port |-> n, val |-> p.cur[n]]
  <2>1. PICK n \in p.c.nets : x = [port |-> n, val |-> p.cur[n]]
    BY <1>4
  <2>2. d = n /\ d > 0
    BY <1>1, <1>2, <2>1
  <2> QED
    BY <1>2, <2>1, <2>2 DEF DivVal
<1> QED
  BY <1>2, <1>3, <1>4 DEF Divisors

-----------------------------------------------------------------------------
(* Literals over the ports of a table.                                     *)

(* Any order of the ports sup.                                             *)
Ordered(s, sup) == s \in Orders(sup) /\ IsFiniteSet(sup) /\ sup \subseteq Int

(* The ports of an order are those of the table.                           *)
LEMMA OrderedIs ==
  ASSUME NEW s, NEW sup, Ordered(s, sup)
  PROVE  /\ PortSet(s) = sup /\ DOMAIN s = 1 .. Len(s) /\ Len(s) \in Nat
         /\ \A k \in 1 .. Len(s) : s[k] \in sup /\ s[k] \in Int
         /\ \A p \in sup : \E k \in 1 .. Len(s) : s[k] = p
<1>1. PICK n : n = Cardinality(sup)
  OBVIOUS
<1>2. n \in Nat /\ s \in [1 .. n -> sup] /\ PortSet(s) = sup /\ sup \subseteq Int
  BY <1>1, FS_CardinalityType DEF Ordered, Orders
<1>3. Len(s) = n /\ DOMAIN s = 1 .. n
  BY <1>2
<1>4. \A p \in sup : \E k \in 1 .. n : s[k] = p
  BY <1>2, <1>3 DEF PortSet
<1>. QED BY <1>2, <1>3, <1>4

(* The cells where a port is 1; the literal l is 1 on the cells X.         *)
PortCells(sup) == [p \in sup |-> {x \in SUBSET sup : p \in x}]
SaysOver(sup, P, l, X) == Means(SUBSET sup, PortCells(sup), P, l, X)
Says(sup, l, X) == SaysOver(sup, sup, l, X)

(* Constants and ports.                                                    *)
LEMMA SaysLeaf ==
  ASSUME NEW sup, sup \subseteq Int, NEW P, P \subseteq sup
  PROVE  /\ SaysOver(sup, P, Zero, {}) /\ SaysOver(sup, P, One, SUBSET sup)
         /\ \A p \in P : SaysOver(sup, P, Port(p), {x \in SUBSET sup : p \in x})
<1>1. \A q \in P : PortCells(sup)[q] = {x \in SUBSET sup : q \in x}
  BY DEF PortCells
<1>2. \A q \in P : PortCells(sup)[q] \subseteq SUBSET sup
  BY <1>1
<1>3. /\ Means(SUBSET sup, PortCells(sup), P, Zero, {})
      /\ Means(SUBSET sup, PortCells(sup), P, One, SUBSET sup)
      /\ \A p \in P \intersect Int : Means(SUBSET sup, PortCells(sup), P, Port(p), PortCells(sup)[p])
  BY ONLY <1>2, MeansLeaf
<1>. QED BY <1>1, <1>3 DEF SaysOver

(* A literal that says something is one that mkAnd makes.                  *)
LEMMA SaysLit ==
  ASSUME NEW sup, NEW P, NEW l, NEW X, SaysOver(sup, P, l, X)
  PROVE  l \in Lits /\ PortsOf(l) \subseteq P /\ X \subseteq SUBSET sup
<1>1. Means(SUBSET sup, PortCells(sup), P, l, X)
  BY DEF SaysOver
<1>. QED BY ONLY <1>1, MeansSuited

(* Fewer ports will do.                                                    *)
LEMMA SaysWider ==
  ASSUME NEW sup, NEW P, P \subseteq sup, NEW l, NEW X, SaysOver(sup, P, l, X)
  PROVE  Says(sup, l, X)
<1>1. \A q \in sup : PortCells(sup)[q] \subseteq SUBSET sup
  BY DEF PortCells
<1>. QED BY <1>1 DEF Says, SaysOver, Means

(* What the literals say that are made of others.                          *)
LEMMA SaysNot ==
  ASSUME NEW sup, NEW P, NEW l, NEW X, SaysOver(sup, P, l, X)
  PROVE  SaysOver(sup, P, Not(l), (SUBSET sup) \ X)
BY MeansNot DEF SaysOver

LEMMA SaysAnd ==
  ASSUME NEW sup, NEW P, NEW a, NEW X, SaysOver(sup, P, a, X), NEW b, NEW Y, SaysOver(sup, P, b, Y)
  PROVE  SaysOver(sup, P, And(a, b), X \intersect Y)
BY MeansAnd DEF SaysOver

LEMMA SaysOr ==
  ASSUME NEW sup, NEW P, NEW a, NEW X, SaysOver(sup, P, a, X), NEW b, NEW Y, SaysOver(sup, P, b, Y)
  PROVE  /\ SaysOver(sup, P, Or(a, b), X \union Y)
         /\ PortsOf(Or(a, b)) \subseteq PortsOf(a) \union PortsOf(b)
<1>1. SaysOver(sup, P, Not(a), (SUBSET sup) \ X) /\ SaysOver(sup, P, Not(b), (SUBSET sup) \ Y)
  BY SaysNot
<1>2. SaysOver(sup, P, And(Not(a), Not(b)), ((SUBSET sup) \ X) \intersect ((SUBSET sup) \ Y))
  BY ONLY <1>1, SaysAnd
<1>3. SaysOver(sup, P, Or(a, b), (SUBSET sup) \ (((SUBSET sup) \ X) \intersect ((SUBSET sup) \ Y)))
  BY <1>2, SaysNot DEF Or
<1>4. X \subseteq SUBSET sup /\ Y \subseteq SUBSET sup /\ a \in Lits /\ b \in Lits
  BY SaysLit
<1>5. (SUBSET sup) \ (((SUBSET sup) \ X) \intersect ((SUBSET sup) \ Y)) = X \union Y
  BY <1>4
<1>6. /\ Suited(SUBSET sup, PortCells(sup), a) /\ Suited(SUBSET sup, PortCells(sup), b)
  BY MeansSuited DEF SaysOver
<1>7. PortsOf(Or(a, b)) \subseteq PortsOf(a) \union PortsOf(b)
  BY ONLY <1>4, <1>6, TermOr
<1>. QED BY <1>3, <1>5, <1>7

LEMMA SaysMux ==
  ASSUME NEW sup, NEW P, NEW t, NEW Z, SaysOver(sup, P, t, Z),
         NEW a, NEW X, SaysOver(sup, P, a, X), NEW b, NEW Y, SaysOver(sup, P, b, Y)
  PROVE  SaysOver(sup, P, Mux(t, a, b), (Z \intersect X) \union (Y \ Z))
BY MeansMux DEF SaysOver

LEMMA SaysFlip ==
  ASSUME NEW sup, NEW P, NEW l, NEW X, SaysOver(sup, P, l, X)
  PROVE  SaysOver(sup, P, Flip(l, 0), X) /\ SaysOver(sup, P, Flip(l, 1), (SUBSET sup) \ X)
<1>1. l \in Lits /\ l # NoLit
  BY SaysLit, LitsMade
<1>2. Flip(l, 0) = l /\ Flip(l, 1) = Not(l)
  BY <1>1 DEF Flip
<1>3. SaysOver(sup, P, Not(l), (SUBSET sup) \ X)
  BY SaysNot
<1>. QED BY <1>2, <1>3

-----------------------------------------------------------------------------
(* Cubes.                                                                  *)

(* More free ports, more cells.                                            *)
LEMMA CubeGrows ==
  ASSUME NEW m, NEW F, NEW G, F \subseteq G
  PROVE  CubeCells(m, F) \subseteq CubeCells(m, G)
<1>1. ASSUME NEW x \in CubeCells(m, F) PROVE x \in CubeCells(m, G)
  <2>1. PICK y \in SUBSET F : x = (m \ F) \union y
    BY <1>1 DEF CubeCells
  <2>2. (m \intersect (G \ F)) \union y \in SUBSET G
    OBVIOUS
  <2>3. x = (m \ G) \union ((m \intersect (G \ F)) \union y)
    BY <2>1
  <2>. QED BY <2>2, <2>3 DEF CubeCells
<1>. QED BY <1>1

(* The cells of a cube agree on the ports that are not free.               *)
LEMMA CubeIs ==
  ASSUME NEW sup, NEW m \in SUBSET sup, NEW F \in SUBSET sup
  PROVE  /\ m \in CubeCells(m, F) /\ CubeCells(m, F) \subseteq SUBSET sup
         /\ CubeCells(m, F) = {x \in SUBSET sup : \A p \in sup \ F : p \in x <=> p \in m}
<1>1. m \in CubeCells(m, F)
  <2>1. m \intersect F \in SUBSET F /\ m = (m \ F) \union (m \intersect F)
    OBVIOUS
  <2>. QED BY <2>1 DEF CubeCells
<1>2. CubeCells(m, F) \subseteq SUBSET sup
  BY DEF CubeCells
<1>3. ASSUME NEW x \in CubeCells(m, F), NEW p \in sup \ F PROVE p \in x <=> p \in m
  BY <1>3 DEF CubeCells
<1>4. ASSUME NEW x \in SUBSET sup, \A p \in sup \ F : p \in x <=> p \in m PROVE x \in CubeCells(m, F)
  <2>1. x \intersect F \in SUBSET F /\ x = (m \ F) \union (x \intersect F)
    BY <1>4
  <2>. QED BY <2>1 DEF CubeCells
<1>. QED BY <1>1, <1>2, <1>3, <1>4

(* F is free around m: no cell of avoid comes in, and any of the first k   *)
(* ports that is not free would let one in.                                *)
FreedAs(s, m, avoid, F, k) ==
  /\ CubeCells(m, F) \intersect avoid = {}
  /\ \A i \in 1 .. k : s[i] \in F \/ CubeCells(m, F \union {s[i]}) \intersect avoid # {}

LEMMA FreedStep ==
  ASSUME NEW s, NEW sup, Ordered(s, sup), NEW m \in SUBSET sup, NEW avoid,
         NEW F \in SUBSET sup, NEW k \in 1 .. Len(s), FreedAs(s, m, avoid, F, k - 1),
         NEW G, G = FreeToo(m, avoid, F, s[k])
  PROVE  G \in SUBSET sup /\ FreedAs(s, m, avoid, G, k)
<1>1. /\ Len(s) \in Nat /\ s[k] \in sup
      /\ \A i \in 1 .. k : s[i] \in sup /\ (i = k \/ i \in 1 .. (k - 1))
  <2>1. Len(s) \in Nat /\ \A i \in 1 .. Len(s) : s[i] \in sup
    BY OrderedIs
  <2>. QED BY <2>1
<1>2. G \in SUBSET sup /\ F \subseteq G
  BY <1>1 DEF FreeToo
<1>3. CubeCells(m, G) \intersect avoid = {}
  BY DEF FreeToo, FreedAs
<1>4. ASSUME NEW i \in 1 .. k, s[i] \notin G PROVE CubeCells(m, G \union {s[i]}) \intersect avoid # {}
  <2>1. CASE i = k
    BY <1>4, <2>1 DEF FreeToo
  <2>2. CASE i # k
    <3>1. CubeCells(m, F \union {s[i]}) \intersect avoid # {}
      BY <1>1, <1>2, <1>4, <2>2 DEF FreedAs
    <3>2. PICK A, B : A = F \union {s[i]} /\ B = G \union {s[i]}
      OBVIOUS
    <3>3. A \in SUBSET sup /\ B \in SUBSET sup /\ A \subseteq B
      BY <1>1, <1>2, <3>2
    <3>4. CubeCells(m, A) \subseteq CubeCells(m, B)
      BY ONLY <3>3, CubeGrows
    <3>5. CubeCells(m, A) \intersect avoid # {}
      BY ONLY <3>1, <3>2
    <3>6. CubeCells(m, B) \intersect avoid # {}
      BY ONLY <3>4, <3>5
    <3>. QED BY ONLY <3>2, <3>6
  <2>. QED BY <2>1, <2>2
<1>. QED BY <1>2, <1>3, <1>4 DEF FreedAs

(* The cube that sopBuild takes: no more ports can be freed.               *)
LEMMA FreedIs ==
  ASSUME NEW s, NEW sup, Ordered(s, sup), NEW m \in SUBSET sup, NEW avoid, m \notin avoid,
         NEW F, F = Freed(s, m, avoid)
  PROVE  F \in SUBSET sup /\ FreedAs(s, m, avoid, F, Len(s))
<1>. DEFINE n == Len(s)
            V == SUBSET sup
            Is(g) == g = [k \in 0 .. n |-> IF k = 0 THEN {} ELSE FreeToo(m, avoid, g[k - 1], s[k])]
            K == [k \in 1 .. n |-> [G \in V |-> FreeToo(m, avoid, G, s[k])]]
<1>1. n \in Nat /\ \A k \in 1 .. n : s[k] \in sup
  BY OrderedIs
<1>2. \A k \in 1 .. n, G \in V : FreeToo(m, avoid, G, s[k]) \in V
  BY <1>1 DEF FreeToo
<1>3. K \in [1 .. n -> [V -> V]]
  <2>. HIDE DEF V, n
  <2>. QED BY <1>2
<1>4. PICK f : IsSteps(f, {}, K, V, n)
  <2>1. {} \in V
    OBVIOUS
  <2>. HIDE DEF K, n, V
  <2>. QED BY ONLY <1>1, <1>3, <2>1, StepsExist
<1>5. f \in [0 .. n -> V] /\ f[0] = {} /\ \A k \in 1 .. n : f[k] = K[k][f[k - 1]]
  BY <1>4 DEF IsSteps
<1>6. \A k \in 1 .. n : f[k] = FreeToo(m, avoid, f[k - 1], s[k])
  <2>1. \A k \in 1 .. n : k - 1 \in 0 .. n
    BY <1>1
  <2>. HIDE DEF V, n
  <2>. QED BY <1>5, <2>1
<1>7. Is(f)
  <2>. HIDE DEF n
  <2>. QED BY <1>1, <1>5, <1>6
<1>8. PICK g : g = CHOOSE h : Is(h)
  OBVIOUS
<1>9. Is(g)
  BY <1>7, <1>8
<1>10. F = g[n]
  BY <1>8 DEF Freed
<1>11. g[0] = {} /\ \A k \in 1 .. n : g[k] = FreeToo(m, avoid, g[k - 1], s[k])
  <2>. HIDE DEF n
  <2>1. \A k \in 0 .. n : g[k] = IF k = 0 THEN {} ELSE FreeToo(m, avoid, g[k - 1], s[k])
    BY ONLY <1>9
  <2>2. 0 \in 0 .. n /\ \A k \in 1 .. n : k \in 0 .. n /\ k # 0
    BY ONLY <1>1
  <2>. QED BY ONLY <2>1, <2>2
<1>. DEFINE T == {k \in 0 .. n : g[k] \in V /\ FreedAs(s, m, avoid, g[k], k)}
<1>12. 0 \in T
  <2>1. CubeCells(m, {}) = {m}
    BY DEF CubeCells
  <2>2. FreedAs(s, m, avoid, {}, 0)
    BY <2>1 DEF FreedAs
  <2>3. 0 \in 0 .. n /\ g[0] = {} /\ {} \in V
    BY <1>1, <1>11
  <2>. HIDE DEF n, V
  <2>. QED BY <2>2, <2>3
<1>13. ASSUME NEW k \in 1 .. n, k - 1 \in T PROVE k \in T
  <2>1. g[k - 1] \in SUBSET sup /\ FreedAs(s, m, avoid, g[k - 1], k - 1)
    BY <1>13
  <2>2. g[k] = FreeToo(m, avoid, g[k - 1], s[k])
    BY <1>11
  <2>3. g[k] \in SUBSET sup /\ FreedAs(s, m, avoid, g[k], k)
    BY ONLY Ordered(s, sup), m \in SUBSET sup, k \in 1 .. n, <2>1, <2>2, FreedStep
  <2>. QED BY <1>1, <2>3
<1>14. 0 .. n \subseteq T
  <2>. HIDE DEF T, n
  <2>. QED BY <1>1, <1>12, <1>13, UpTo
<1>. QED BY <1>1, <1>10, <1>14

(* The literal of a cube has no other ports than those that are not free.  *)
LEMMA CubeSays ==
  ASSUME NEW s, NEW sup, Ordered(s, sup), NEW m \in SUBSET sup, NEW F \in SUBSET sup
  PROVE  SaysOver(sup, sup \ F, Cube(s, m, F), CubeCells(m, F))
<1>. DEFINE n == Len(s)
            V == Lits
            Is(g) == g = [k \in 0 .. n |-> IF k = 0 THEN One ELSE WithPort(m, F, g[k - 1], s[k])]
            K == [k \in 1 .. n |-> [l \in V |-> WithPort(m, F, l, s[k])]]
            X(k) == {x \in SUBSET sup : \A i \in 1 .. k : s[i] \in F \/ (s[i] \in x <=> s[i] \in m)}
<1>1. /\ n \in Nat /\ (\A k \in 1 .. n : s[k] \in sup /\ s[k] \in Int) /\ sup \subseteq Int
      /\ \A p \in sup : \E k \in 1 .. n : s[k] = p
  BY OrderedIs DEF Ordered
<1>2. \A k \in 1 .. n, l \in V : WithPort(m, F, l, s[k]) \in V
  BY <1>1, LitsMade, LitsAnd DEF WithPort
<1>3. K \in [1 .. n -> [V -> V]]
  <2>. HIDE DEF V, n
  <2>. QED BY <1>2
<1>4. PICK f : IsSteps(f, One, K, V, n)
  <2>1. One \in V
    BY LitsMade
  <2>. HIDE DEF K, n, V
  <2>. QED BY ONLY <1>1, <1>3, <2>1, StepsExist
<1>5. f \in [0 .. n -> V] /\ f[0] = One /\ \A k \in 1 .. n : f[k] = K[k][f[k - 1]]
  BY <1>4 DEF IsSteps
<1>6. \A k \in 1 .. n : f[k] = WithPort(m, F, f[k - 1], s[k])
  <2>1. \A k \in 1 .. n : k - 1 \in 0 .. n
    BY <1>1
  <2>. HIDE DEF V, n
  <2>. QED BY <1>5, <2>1
<1>7. Is(f)
  <2>. HIDE DEF n
  <2>. QED BY <1>1, <1>5, <1>6
<1>8. PICK g : g = CHOOSE h : Is(h)
  OBVIOUS
<1>9. Is(g)
  BY <1>7, <1>8
<1>10. Cube(s, m, F) = g[n]
  BY <1>8 DEF Cube
<1>11. g[0] = One /\ \A k \in 1 .. n : g[k] = WithPort(m, F, g[k - 1], s[k])
  <2>. HIDE DEF n
  <2>. QED BY <1>1, <1>9
<1>. DEFINE T == {k \in 0 .. n : SaysOver(sup, sup \ F, g[k], X(k))}
<1>12. 0 \in T
  <2>1. X(0) = SUBSET sup
    OBVIOUS
  <2>2. SaysOver(sup, sup \ F, One, SUBSET sup)
    BY <1>1, SaysLeaf
  <2>3. 0 \in 0 .. n /\ g[0] = One
    BY <1>1, <1>11
  <2>. HIDE DEF X, n
  <2>. QED BY <2>1, <2>2, <2>3
<1>13. ASSUME NEW k \in 1 .. n, k - 1 \in T PROVE k \in T
  <2>1. SaysOver(sup, sup \ F, g[k - 1], X(k - 1)) /\ g[k] = WithPort(m, F, g[k - 1], s[k])
    BY <1>11, <1>13
  <2>2. \A i : i \in 1 .. k <=> i = k \/ i \in 1 .. (k - 1)
    BY <1>1
  <2>3. CASE s[k] \in F
    <3>1. X(k) = X(k - 1)
      BY <2>2, <2>3
    <3>2. g[k] = g[k - 1]
      BY <2>1, <2>3 DEF WithPort
    <3>. HIDE DEF X
    <3>. QED BY <1>1, <2>1, <3>1, <3>2
  <2>4. CASE s[k] \notin F
    <3>1. PICK p, q : p = s[k] /\ q = IF p \in m THEN 0 ELSE 1
      OBVIOUS
    <3>2. PICK Y : Y = {x \in SUBSET sup : p \in x <=> p \in m}
      OBVIOUS
    <3>3. p \in sup \ F
      BY <1>1, <2>4, <3>1
    <3>4. SaysOver(sup, sup \ F, Port(p), {x \in SUBSET sup : p \in x})
      BY <1>1, <3>3, SaysLeaf
    <3>5. /\ SaysOver(sup, sup \ F, Flip(Port(p), 0), {x \in SUBSET sup : p \in x})
          /\ SaysOver(sup, sup \ F, Flip(Port(p), 1), (SUBSET sup) \ {x \in SUBSET sup : p \in x})
      BY ONLY <3>4, SaysFlip
    <3>6. SaysOver(sup, sup \ F, Flip(Port(p), q), Y)
      <4>1. CASE p \in m
        <5>1. Y = {x \in SUBSET sup : p \in x} /\ q = 0
          BY <3>1, <3>2, <4>1
        <5>. QED BY <3>5, <5>1
      <4>2. CASE p \notin m
        <5>1. Y = (SUBSET sup) \ {x \in SUBSET sup : p \in x} /\ q = 1
          BY <3>1, <3>2, <4>2
        <5>. QED BY <3>5, <5>1
      <4>. QED BY <4>1, <4>2
    <3>7. g[k] = And(g[k - 1], Flip(Port(p), q))
      BY <2>1, <2>4, <3>1 DEF WithPort
    <3>8. SaysOver(sup, sup \ F, g[k], X(k - 1) \intersect Y)
      <4>. HIDE DEF X
      <4>. QED BY ONLY <2>1, <3>6, <3>7, SaysAnd
    <3>9. X(k) = X(k - 1) \intersect Y
      BY <2>2, <2>4, <3>1, <3>2
    <3>10. k \in 0 .. n
      BY <1>1
    <3>. HIDE DEF X, n
    <3>. QED BY <3>8, <3>9, <3>10
  <2>. QED BY <2>3, <2>4
<1>14. 0 .. n \subseteq T
  <2>. HIDE DEF T, n
  <2>. QED BY <1>1, <1>12, <1>13, UpTo
<1>15. X(n) = {x \in SUBSET sup : \A p \in sup \ F : p \in x <=> p \in m}
  <2>. HIDE DEF n
  <2>. QED BY <1>1
<1>16. X(n) = CubeCells(m, F)
  <2>1. CubeCells(m, F) = {x \in SUBSET sup : \A p \in sup \ F : p \in x <=> p \in m}
    BY CubeIs
  <2>. HIDE DEF X
  <2>. QED BY ONLY <1>15, <2>1
<1>17. n \in T
  <2>1. n \in 0 .. n
    BY <1>1
  <2>. HIDE DEF T, n
  <2>. QED BY ONLY <1>14, <2>1
<1>18. SaysOver(sup, sup \ F, g[n], X(n))
  <2>. HIDE DEF X, n
  <2>. QED BY ONLY <1>17
<1>. QED BY <1>10, <1>16, <1>18

-----------------------------------------------------------------------------
(* The cover.                                                              *)

(* One port more.                                                          *)
LEMMA DoubledIs ==
  ASSUME NEW sup, NEW cells \in Seq(SUBSET sup), NEW p \in sup, NEW D, D = Doubled(cells, p)
  PROVE  /\ D \in Seq(SUBSET sup)
         /\ \A i \in DOMAIN cells : cells[i] \in PortSet(D) /\ cells[i] \union {p} \in PortSet(D)
<1>1. PICK n, more : n = Len(cells) /\ more = [i \in DOMAIN cells |-> cells[i] \union {p}]
  OBVIOUS
<1>2. n \in Nat /\ DOMAIN cells = 1 .. n /\ \A i \in 1 .. n : cells[i] \in SUBSET sup
  BY <1>1
<1>3. more \in Seq(SUBSET sup) /\ Len(more) = n /\ \A i \in 1 .. n : more[i] = cells[i] \union {p}
  BY <1>1, <1>2
<1>4. D = cells \o more
  BY <1>1 DEF Doubled
<1>5. D \in Seq(SUBSET sup) /\ DOMAIN D = 1 .. n + n
  BY <1>1, <1>3, <1>4
<1>6. ASSUME NEW i \in 1 .. n
      PROVE  i \in DOMAIN D /\ D[i] = cells[i] /\ n + i \in DOMAIN D /\ D[n + i] = more[i]
  <2>1. i \in DOMAIN D /\ n + i \in DOMAIN D
    BY <1>2, <1>5
  <2>. QED BY <1>1, <1>2, <1>3, <1>4, <2>1
<1>. QED BY <1>2, <1>3, <1>5, <1>6 DEF PortSet

ListsCells(L, sup) == L \in Seq(SUBSET sup) /\ \A x \in SUBSET sup : \E i \in DOMAIN L : L[i] = x

(* Every cell is in the list.                                              *)
LEMMA CellListIs ==
  ASSUME NEW s, NEW sup, Ordered(s, sup)
  PROVE  ListsCells(CellList(s), sup)
<1>. DEFINE L == CellList(s)
            n == Len(s)
            V == Seq(SUBSET sup)
            Is(g) == g = [k \in 0 .. n |-> IF k = 0 THEN <<{}>> ELSE Doubled(g[k - 1], s[k])]
            K == [k \in 1 .. n |-> [c \in V |-> Doubled(c, s[k])]]
            Low(k) == {s[i] : i \in 1 .. k}
<1>1. n \in Nat /\ (\A k \in 1 .. n : s[k] \in sup) /\ \A p \in sup : \E k \in 1 .. n : s[k] = p
  BY OrderedIs
<1>2. \A k \in 1 .. n, c \in V : Doubled(c, s[k]) \in V
  BY <1>1, DoubledIs
<1>3. K \in [1 .. n -> [V -> V]]
  <2>. HIDE DEF V, n
  <2>. QED BY <1>2
<1>4. <<{}>> \in V
  OBVIOUS
<1>5. PICK f : IsSteps(f, <<{}>>, K, V, n)
  <2>. HIDE DEF K, n, V
  <2>. QED BY ONLY <1>1, <1>3, <1>4, StepsExist
<1>6. f \in [0 .. n -> V] /\ f[0] = <<{}>> /\ \A k \in 1 .. n : f[k] = K[k][f[k - 1]]
  BY <1>5 DEF IsSteps
<1>7. \A k \in 1 .. n : f[k] = Doubled(f[k - 1], s[k])
  <2>1. \A k \in 1 .. n : k - 1 \in 0 .. n
    BY <1>1
  <2>. HIDE DEF V, n
  <2>. QED BY <1>6, <2>1
<1>8. Is(f)
  <2>1. \A k \in 0 .. n : k # 0 => k \in 1 .. n
    BY <1>1
  <2>. HIDE DEF n, V
  <2>2. PICK c0 : c0 = <<{}>>
    OBVIOUS
  <2>3. f = [k \in 0 .. n |-> f[k]] /\ f[0] = c0
    BY ONLY <1>6, <2>2
  <2>4. \A k \in 0 .. n : f[k] = IF k = 0 THEN c0 ELSE Doubled(f[k - 1], s[k])
    BY ONLY <1>7, <2>1, <2>3
  <2>5. f = [k \in 0 .. n |-> IF k = 0 THEN c0 ELSE Doubled(f[k - 1], s[k])]
    BY ONLY <2>3, <2>4
  <2>. QED BY ONLY <2>2, <2>5
<1>9. PICK g : g = CHOOSE h : Is(h)
  OBVIOUS
<1>10. Is(g)
  BY <1>8, <1>9
<1>11. L = g[n]
  BY <1>9 DEF CellList
<1>12. g[0] = <<{}>> /\ \A k \in 1 .. n : g[k] = Doubled(g[k - 1], s[k])
  <2>. HIDE DEF n
  <2>1. \A k \in 0 .. n : g[k] = IF k = 0 THEN <<{}>> ELSE Doubled(g[k - 1], s[k])
    BY ONLY <1>10
  <2>2. 0 \in 0 .. n /\ \A k \in 1 .. n : k \in 0 .. n /\ k # 0
    BY ONLY <1>1
  <2>. QED BY ONLY <2>1, <2>2
<1>. DEFINE T == {k \in 0 .. n : g[k] \in V /\ SUBSET Low(k) \subseteq PortSet(g[k])}
<1>13. 0 \in T
  <2>1. Low(0) = {}
    OBVIOUS
  <2>2. PortSet(<<{}>>) = {{}}
    BY DEF PortSet
  <2>3. SUBSET Low(0) = {{}}
    BY <2>1
  <2>4. 0 \in 0 .. n
    BY <1>1
  <2>. HIDE DEF V, n, Low
  <2>. QED BY <1>4, <1>12, <2>2, <2>3, <2>4
<1>14. ASSUME NEW k \in 1 .. n, k - 1 \in T PROVE k \in T
  <2>1. PICK c, D, p : c = g[k - 1] /\ D = g[k] /\ p = s[k]
    OBVIOUS
  <2>2. c \in V /\ SUBSET Low(k - 1) \subseteq PortSet(c) /\ D = Doubled(c, p) /\ p \in sup
    <3>. HIDE DEF V, Low
    <3>. QED BY <1>1, <1>12, <1>14, <2>1
  <2>3. /\ D \in V
        /\ \A i \in DOMAIN c : c[i] \in PortSet(D) /\ c[i] \union {p} \in PortSet(D)
    BY <2>2, DoubledIs
  <2>4. Low(k) = Low(k - 1) \union {p}
    <3>1. \A i : i \in 1 .. k <=> i = k \/ i \in 1 .. (k - 1)
      BY <1>1
    <3>. QED BY <2>1, <3>1
  <2>5. ASSUME NEW x \in SUBSET Low(k) PROVE x \in PortSet(D)
    <3>1. PICK y : y = x \ {p}
      OBVIOUS
    <3>2. y \in SUBSET Low(k - 1)
      <4>. HIDE DEF Low
      <4>. QED BY <2>4, <2>5, <3>1
    <3>3. PICK i \in DOMAIN c : c[i] = y
      <4>. HIDE DEF Low
      <4>. QED BY <2>2, <3>2 DEF PortSet
    <3>4. x = y \/ x = y \union {p}
      BY <3>1
    <3>5. y \in PortSet(D) /\ y \union {p} \in PortSet(D)
      BY ONLY <2>3, <3>3
    <3>. QED BY ONLY <3>4, <3>5
  <2>6. k \in 0 .. n
    BY <1>1
  <2>. HIDE DEF V, n, Low
  <2>. QED BY <2>1, <2>3, <2>5, <2>6
<1>15. 0 .. n \subseteq T
  <2>. HIDE DEF T, n
  <2>. QED BY <1>1, <1>13, <1>14, UpTo
<1>16. n \in T
  <2>. HIDE DEF T, n
  <2>. QED BY <1>1, <1>15
<1>17. Low(n) = sup
  <2>. HIDE DEF n
  <2>. QED BY <1>1
<1>18. g[n] \in V /\ SUBSET sup \subseteq PortSet(g[n])
  <2>. HIDE DEF V, n, Low
  <2>. QED BY <1>16, <1>17
<1>. QED BY <1>11, <1>18 DEF PortSet, ListsCells

(* What the cover knows after some cells: its literal is 1 on what is      *)
(* covered, no cell of avoid among it, and each port of the literal        *)
(* matters: there is a cell that is covered, and one of avoid, that only   *)
(* differ in this port.                                                    *)
Toggled(x, p) == IF p \in x THEN x \ {p} ELSE x \union {p}
Matters(X, avoid, p) == \E x \in X : Toggled(x, p) \in avoid

CoverStates(sup) == [covered : SUBSET SUBSET sup, lit : Lits]
Covering(sup, avoid, st) ==
  /\ Says(sup, st.lit, st.covered) /\ st.covered \intersect avoid = {}
  /\ \A p \in PortsOf(st.lit) : Matters(st.covered, avoid, p)

(* A port that is not free matters.                                        *)
LEMMA FixedMatters ==
  ASSUME NEW s, NEW sup, Ordered(s, sup), NEW m \in SUBSET sup, NEW avoid,
         NEW F \in SUBSET sup, FreedAs(s, m, avoid, F, Len(s)), NEW p \in sup \ F
  PROVE  Matters(CubeCells(m, F), avoid, p)
<1>1. PICK k \in 1 .. Len(s) : s[k] = p
  BY OrderedIs
<1>2. CubeCells(m, F \union {p}) \intersect avoid # {} /\ CubeCells(m, F) \intersect avoid = {}
  BY <1>1 DEF FreedAs
<1>3. PICK z \in CubeCells(m, F \union {p}) : z \in avoid
  BY <1>2
<1>4. PICK G : G = F \union {p}
  OBVIOUS
<1>5. G \in SUBSET sup
  BY <1>4
<1>6. /\ CubeCells(m, F) = {x \in SUBSET sup : \A q \in sup \ F : q \in x <=> q \in m}
      /\ CubeCells(m, G) = {x \in SUBSET sup : \A q \in sup \ G : q \in x <=> q \in m}
  BY ONLY <1>5, m \in SUBSET sup, F \in SUBSET sup, CubeIs
<1>7. z \in SUBSET sup /\ \A q \in sup \ G : q \in z <=> q \in m
  BY <1>3, <1>4, <1>6
<1>8. (p \in z) # (p \in m)
  <2>. SUFFICES ASSUME (p \in z) <=> (p \in m) PROVE FALSE
    OBVIOUS
  <2>1. z \in CubeCells(m, F)
    BY <1>4, <1>6, <1>7
  <2>. QED BY <1>2, <1>3, <2>1
<1>9. PICK x : x = Toggled(z, p)
  OBVIOUS
<1>10. x \in SUBSET sup /\ Toggled(x, p) = z /\ \A q \in sup \ F : q \in x <=> q \in m
  BY <1>4, <1>7, <1>8, <1>9 DEF Toggled
<1>11. x \in CubeCells(m, F)
  BY <1>6, <1>10
<1>. QED BY <1>3, <1>10, <1>11 DEF Matters

(* A cube more: what is known of the cover stays true.                     *)
LEMMA WithCubeIs ==
  ASSUME NEW s, NEW sup, Ordered(s, sup), NEW on, NEW avoid, on \intersect avoid = {},
         NEW st \in CoverStates(sup), NEW m \in SUBSET sup,
         NEW t, t = WithCube(s, on, avoid, st, m)
  PROVE  /\ t \in CoverStates(sup) /\ st.covered \subseteq t.covered
         /\ m \in on => m \in t.covered
         /\ Covering(sup, avoid, st) => Covering(sup, avoid, t)
<1>1. CASE m \notin on \ st.covered
  <2>1. t = st
    BY <1>1 DEF WithCube
  <2>. QED BY <1>1, <2>1
<1>2. CASE m \in on \ st.covered
  <2>1. PICK F, cells, l : F = Freed(s, m, avoid) /\ cells = CubeCells(m, F) /\ l = Cube(s, m, F)
    OBVIOUS
  <2>2. t = [covered |-> st.covered \union cells, lit |-> Or(st.lit, l)]
    BY <1>2, <2>1 DEF WithCube
  <2>3. m \notin avoid
    BY <1>2
  <2>4. F \in SUBSET sup /\ FreedAs(s, m, avoid, F, Len(s))
    BY ONLY <2>1, <2>3, Ordered(s, sup), m \in SUBSET sup, FreedIs
  <2>5. SaysOver(sup, sup \ F, l, cells)
    BY ONLY <2>1, <2>4, Ordered(s, sup), m \in SUBSET sup, CubeSays
  <2>6. m \in cells /\ cells \subseteq SUBSET sup
    BY ONLY <2>1, <2>4, m \in SUBSET sup, CubeIs
  <2>7. Says(sup, l, cells) /\ l \in Lits /\ PortsOf(l) \subseteq sup \ F
    <3>1. sup \ F \subseteq sup
      OBVIOUS
    <3>. QED BY ONLY <2>5, <3>1, SaysWider, SaysLit
  <2>8. st.covered \in SUBSET SUBSET sup /\ st.lit \in Lits
    BY DEF CoverStates
  <2>9. Or(st.lit, l) \in Lits
    BY <2>7, <2>8, LitsOr
  <2>10. /\ t \in CoverStates(sup) /\ st.covered \subseteq t.covered /\ m \in t.covered
         /\ t.covered = st.covered \union cells /\ t.lit = Or(st.lit, l)
    BY ONLY <2>2, <2>6, <2>8, <2>9 DEF CoverStates
  <2>11. ASSUME Covering(sup, avoid, st) PROVE Covering(sup, avoid, t)
    <3>1. Says(sup, st.lit, st.covered) /\ st.covered \intersect avoid = {}
      BY <2>11 DEF Covering
    <3>2. Says(sup, t.lit, t.covered) /\ PortsOf(t.lit) \subseteq PortsOf(st.lit) \union PortsOf(l)
      BY ONLY <2>7, <2>10, <3>1, SaysOr DEF Says
    <3>3. t.covered \intersect avoid = {}
      BY <2>1, <2>4, <2>10, <3>1 DEF FreedAs
    <3>4. ASSUME NEW p \in PortsOf(t.lit) PROVE Matters(t.covered, avoid, p)
      <4>1. CASE p \in PortsOf(st.lit)
        <5>1. Matters(st.covered, avoid, p)
          BY <2>11, <4>1 DEF Covering
        <5>. QED BY <2>10, <5>1 DEF Matters
      <4>2. CASE p \in PortsOf(l)
        <5>1. p \in sup \ F
          BY <2>7, <4>2
        <5>2. Matters(cells, avoid, p)
          BY ONLY <2>1, <2>4, <5>1, Ordered(s, sup), m \in SUBSET sup, FixedMatters
        <5>. QED BY <2>10, <5>2 DEF Matters
      <4>. QED BY <3>2, <4>1, <4>2
    <3>. QED BY <3>2, <3>3, <3>4 DEF Covering
  <2>. QED BY <2>10, <2>11
<1>. QED BY <1>1, <1>2

(* The cover of the whole table.                                           *)
LEMMA SopBuildIs ==
  ASSUME NEW s, NEW sup, Ordered(s, sup), NEW on \in SUBSET SUBSET sup, NEW avoid,
         on \intersect avoid = {}
  PROVE  \E st \in CoverStates(sup) : /\ SopBuild(s, on, avoid) = st.lit
                                      /\ Covering(sup, avoid, st) /\ on \subseteq st.covered
<1>. DEFINE cells == CellList(s)
            n == Len(cells)
            V == CoverStates(sup)
            none == [covered |-> {}, lit |-> Zero]
            Is(g) == g = [i \in 0 .. n |-> IF i = 0 THEN none
                                           ELSE WithCube(s, on, avoid, g[i - 1], cells[i])]
            K == [i \in 1 .. n |-> [st \in V |-> WithCube(s, on, avoid, st, cells[i])]]
<1>1. cells \in Seq(SUBSET sup) /\ \A x \in SUBSET sup : \E i \in DOMAIN cells : cells[i] = x
  BY CellListIs DEF ListsCells
<1>2. n \in Nat /\ DOMAIN cells = 1 .. n /\ \A i \in 1 .. n : cells[i] \in SUBSET sup
  <2>. HIDE DEF cells
  <2>. QED BY <1>1
<1>3. ASSUME NEW i \in 1 .. n, NEW st \in V, NEW t, t = WithCube(s, on, avoid, st, cells[i])
      PROVE  /\ t \in V /\ st.covered \subseteq t.covered
             /\ cells[i] \in on => cells[i] \in t.covered
             /\ Covering(sup, avoid, st) => Covering(sup, avoid, t)
  <2>1. PICK m : m = cells[i]
    OBVIOUS
  <2>2. m \in SUBSET sup /\ t = WithCube(s, on, avoid, st, m)
    <3>. HIDE DEF cells, n
    <3>. QED BY <1>2, <1>3, <2>1
  <2>3. /\ t \in CoverStates(sup) /\ st.covered \subseteq t.covered
        /\ m \in on => m \in t.covered
        /\ Covering(sup, avoid, st) => Covering(sup, avoid, t)
    BY ONLY <2>2, st \in V, Ordered(s, sup), on \intersect avoid = {}, WithCubeIs
  <2>. QED BY <2>1, <2>3
<1>4. none \in V /\ none.covered = {} /\ none.lit = Zero
  BY LitsMade DEF CoverStates
<1>. HIDE DEF cells, V, none
<1>5. K \in [1 .. n -> [V -> V]]
  <2>. HIDE DEF n
  <2>. QED BY <1>3
<1>6. PICK f : IsSteps(f, none, K, V, n)
  <2>. HIDE DEF K, n
  <2>. QED BY ONLY <1>2, <1>4, <1>5, StepsExist
<1>7. f \in [0 .. n -> V] /\ f[0] = none /\ \A i \in 1 .. n : f[i] = K[i][f[i - 1]]
  BY <1>6 DEF IsSteps
<1>8. \A i \in 1 .. n : f[i] = WithCube(s, on, avoid, f[i - 1], cells[i])
  <2>1. \A i \in 1 .. n : i - 1 \in 0 .. n
    BY <1>2
  <2>. HIDE DEF n
  <2>. QED BY <1>7, <2>1
<1>9. Is(f)
  <2>. HIDE DEF n
  <2>. QED BY <1>2, <1>7, <1>8
<1>10. PICK g : g = CHOOSE h : Is(h)
  OBVIOUS
<1>11. Is(g)
  BY <1>9, <1>10
<1>12. SopBuild(s, on, avoid) = g[n].lit
  BY <1>10 DEF SopBuild, cells, none
<1>13. g[0] = none /\ \A i \in 1 .. n : g[i] = WithCube(s, on, avoid, g[i - 1], cells[i])
  <2>. HIDE DEF n
  <2>1. \A i \in 0 .. n : g[i] = IF i = 0 THEN none ELSE WithCube(s, on, avoid, g[i - 1], cells[i])
    BY ONLY <1>11
  <2>2. 0 \in 0 .. n /\ \A i \in 1 .. n : i \in 0 .. n /\ i # 0
    BY ONLY <1>2
  <2>. QED BY ONLY <2>1, <2>2
<1>. DEFINE T == {i \in 0 .. n : /\ g[i] \in V /\ Covering(sup, avoid, g[i])
                                 /\ \A j \in 1 .. i : cells[j] \in on => cells[j] \in g[i].covered}
<1>14. 0 \in T
  <2>1. sup \subseteq Int /\ sup \subseteq sup
    BY DEF Ordered
  <2>2. SaysOver(sup, sup, Zero, {})
    BY ONLY <2>1, SaysLeaf
  <2>3. Covering(sup, avoid, none)
    BY <1>4, <2>2, PortsAre DEF Covering, Says
  <2>4. 0 \in 0 .. n /\ g[0] = none /\ none \in V
    BY <1>2, <1>4, <1>13
  <2>. HIDE DEF n
  <2>. QED BY <2>3, <2>4
<1>15. ASSUME NEW i \in 1 .. n, i - 1 \in T PROVE i \in T
  <2>1. /\ g[i - 1] \in V /\ Covering(sup, avoid, g[i - 1])
        /\ \A j \in 1 .. (i - 1) : cells[j] \in on => cells[j] \in g[i - 1].covered
    BY <1>15
  <2>2. g[i] = WithCube(s, on, avoid, g[i - 1], cells[i])
    BY <1>13
  <2>3. /\ g[i] \in V /\ g[i - 1].covered \subseteq g[i].covered
        /\ cells[i] \in on => cells[i] \in g[i].covered
        /\ Covering(sup, avoid, g[i])
    <3>. HIDE DEF n
    <3>. QED BY ONLY i \in 1 .. n, <1>3, <2>1, <2>2
  <2>4. i \in 0 .. n /\ \A j : j \in 1 .. i <=> j = i \/ j \in 1 .. (i - 1)
    BY <1>2
  <2>5. \A j \in 1 .. i : cells[j] \in on => cells[j] \in g[i].covered
    BY ONLY <2>1, <2>3, <2>4
  <2>. HIDE DEF n
  <2>. QED BY <2>3, <2>4, <2>5
<1>16. 0 .. n \subseteq T
  <2>. HIDE DEF T, n
  <2>. QED BY <1>2, <1>14, <1>15, UpTo
<1>17. n \in 0 .. n
  BY <1>2
<1>18. n \in T
  <2>. HIDE DEF T, n
  <2>. QED BY <1>16, <1>17
<1>19. /\ g[n] \in V /\ Covering(sup, avoid, g[n])
       /\ \A j \in 1 .. n : cells[j] \in on => cells[j] \in g[n].covered
  <2>. HIDE DEF n
  <2>. QED BY <1>18
<1>20. ASSUME NEW x \in on PROVE x \in g[n].covered
  <2>1. x \in SUBSET sup
    OBVIOUS
  <2>2. PICK j \in DOMAIN cells : cells[j] = x
    BY ONLY <1>1, <2>1
  <2>3. j \in 1 .. n
    BY ONLY <1>2, <2>2
  <2>4. cells[j] \in g[n].covered
    BY ONLY <1>19, <1>20, <2>2, <2>3
  <2>. QED BY ONLY <2>2, <2>4
<1>21. on \subseteq g[n].covered
  BY <1>20
<1>. QED BY <1>12, <1>19, <1>21 DEF V

-----------------------------------------------------------------------------
(* The Shannon expansion.                                                  *)

(* The ports split last, and the cells for which the part where the ports  *)
(* high are 1 is 1.                                                        *)
LastPorts(s, k) == {s[i] : i \in 1 .. k}
Rest(s, on, k, high) == {x \in SUBSET PortSet(s) : high \union (x \intersect LastPorts(s, k)) \in on}

(* The literal of a part, from those of its halves.                        *)
PartLit(s, on, k, h, high) ==
  IF Part(s, k, high) \intersect on = {} THEN Zero
  ELSE IF Part(s, k, high) \subseteq on THEN One
  ELSE Mux(Port(s[k]), h[high \union {s[k]}], h[high])
PartStart(s, on) == [high \in SUBSET PortSet(s) |-> IF high \in on THEN One ELSE Zero]

(* A part that is constant.                                                *)
LEMMA PartIs ==
  ASSUME NEW s, NEW sup, Ordered(s, sup), NEW on, NEW k, NEW high \in SUBSET sup
  PROVE  /\ Part(s, k, high) \intersect on = {} => Rest(s, on, k, high) = {}
         /\ Part(s, k, high) \subseteq on => Rest(s, on, k, high) = SUBSET sup
<1>1. PortSet(s) = sup
  BY OrderedIs
<1>2. ASSUME NEW x PROVE high \union (x \intersect LastPorts(s, k)) \in Part(s, k, high)
  <2>1. x \intersect LastPorts(s, k) \in SUBSET LastPorts(s, k)
    OBVIOUS
  <2>2. Part(s, k, high) = {high \union low : low \in SUBSET LastPorts(s, k)}
    BY DEF Part, LastPorts
  <2>. QED BY ONLY <2>1, <2>2
<1>. QED BY <1>1, <1>2 DEF Rest

(* Parts of one cell.                                                      *)
LEMMA PartStarts ==
  ASSUME NEW s, NEW sup, Ordered(s, sup), NEW on, NEW high \in SUBSET sup, NEW h
  PROVE  /\ PartLit(s, on, 0, h, high) = PartStart(s, on)[high]
         /\ Says(sup, PartStart(s, on)[high], Rest(s, on, 0, high))
<1>1. PortSet(s) = sup /\ sup \subseteq Int
  BY OrderedIs DEF Ordered
<1>2. LastPorts(s, 0) = {} /\ Part(s, 0, high) = {high}
  <2>1. LastPorts(s, 0) = {}
    BY DEF LastPorts
  <2>2. Part(s, 0, high) = {high \union low : low \in SUBSET LastPorts(s, 0)}
    BY DEF Part, LastPorts
  <2>3. SUBSET LastPorts(s, 0) = {{}}
    BY <2>1
  <2>4. high \union {} = high
    OBVIOUS
  <2>5. {high \union low : low \in {{}}} = {high}
    BY <2>4
  <2>6. Part(s, 0, high) = {high \union low : low \in {{}}}
    BY ONLY <2>2, <2>3
  <2>. QED BY ONLY <2>1, <2>5, <2>6
<1>3. PartStart(s, on)[high] = IF high \in on THEN One ELSE Zero
  BY <1>1 DEF PartStart
<1>4. PartLit(s, on, 0, h, high) = IF high \in on THEN One ELSE Zero
  <2>1. (Part(s, 0, high) \intersect on = {}) <=> (high \notin on)
    BY <1>2
  <2>2. (Part(s, 0, high) \subseteq on) <=> (high \in on)
    BY <1>2
  <2>. QED BY ONLY <2>1, <2>2 DEF PartLit
<1>5. Says(sup, Zero, {}) /\ Says(sup, One, SUBSET sup)
  <2>1. sup \subseteq sup
    OBVIOUS
  <2>. QED BY ONLY <1>1, <2>1, SaysLeaf DEF Says
<1>6. CASE high \in on
  <2>1. Rest(s, on, 0, high) = SUBSET sup
    BY <1>2, <1>6, PartIs
  <2>. QED BY <1>3, <1>4, <1>5, <1>6, <2>1
<1>7. CASE high \notin on
  <2>1. Rest(s, on, 0, high) = {}
    BY <1>2, <1>7, PartIs
  <2>. QED BY <1>3, <1>4, <1>5, <1>7, <2>1
<1>. QED BY <1>6, <1>7

(* A part, from its halves.                                                *)
LEMMA PartSays ==
  ASSUME NEW s, NEW sup, Ordered(s, sup), NEW on, NEW k \in 1 .. Len(s),
         NEW h, \A z \in SUBSET sup : Says(sup, h[z], Rest(s, on, k - 1, z)),
         NEW high \in SUBSET sup
  PROVE  Says(sup, PartLit(s, on, k, h, high), Rest(s, on, k, high))
<1>1. PortSet(s) = sup /\ sup \subseteq Int /\ s[k] \in sup /\ Len(s) \in Nat
  BY OrderedIs DEF Ordered
<1>2. Says(sup, Zero, {}) /\ Says(sup, One, SUBSET sup)
  <2>1. sup \subseteq sup
    OBVIOUS
  <2>. QED BY ONLY <1>1, <2>1, SaysLeaf DEF Says
<1>3. CASE Part(s, k, high) \intersect on = {}
  BY <1>2, <1>3, PartIs DEF PartLit
<1>4. CASE Part(s, k, high) \intersect on # {} /\ Part(s, k, high) \subseteq on
  BY <1>2, <1>4, PartIs DEF PartLit
<1>5. CASE Part(s, k, high) \intersect on # {} /\ ~(Part(s, k, high) \subseteq on)
  <2>1. PICK p, X, Y, Z : /\ p = s[k] /\ Z = {x \in SUBSET sup : p \in x}
                          /\ X = Rest(s, on, k - 1, high \union {p}) /\ Y = Rest(s, on, k - 1, high)
    OBVIOUS
  <2>2. PICK a, b : a = h[high \union {p}] /\ b = h[high]
    OBVIOUS
  <2>3. p \in sup /\ high \union {p} \in SUBSET sup
    BY <1>1, <2>1
  <2>4. Says(sup, a, X) /\ Says(sup, b, Y)
    BY <2>1, <2>2, <2>3
  <2>5. Says(sup, Port(p), Z)
    <3>1. sup \subseteq sup
      OBVIOUS
    <3>2. SaysOver(sup, sup, Port(p), {x \in SUBSET sup : p \in x})
      BY ONLY <1>1, <2>3, <3>1, SaysLeaf
    <3>. QED BY <2>1, <3>2 DEF Says
  <2>6. Says(sup, Mux(Port(p), a, b), (Z \intersect X) \union (Y \ Z))
    BY ONLY <2>4, <2>5, SaysMux DEF Says
  <2>7. PartLit(s, on, k, h, high) = Mux(Port(p), a, b)
    BY ONLY <1>5, <2>1, <2>2 DEF PartLit
  <2>8. LastPorts(s, k) = LastPorts(s, k - 1) \union {p}
    <3>1. \A i : i \in 1 .. k <=> i = k \/ i \in 1 .. (k - 1)
      BY <1>1
    <3>. QED BY <2>1, <3>1 DEF LastPorts
  <2>9. ASSUME NEW x \in SUBSET sup
        PROVE  x \in Rest(s, on, k, high) <=> x \in (Z \intersect X) \union (Y \ Z)
    <3>1. PICK L, M : L = LastPorts(s, k - 1) /\ M = LastPorts(s, k)
      OBVIOUS
    <3>2. x \in Rest(s, on, k, high) <=> high \union (x \intersect M) \in on
      BY <1>1, <3>1 DEF Rest
    <3>3. x \in X <=> (high \union {p}) \union (x \intersect L) \in on
      BY <1>1, <2>1, <3>1 DEF Rest
    <3>4. x \in Y <=> high \union (x \intersect L) \in on
      BY <1>1, <2>1, <3>1 DEF Rest
    <3>5. M = L \union {p}
      BY ONLY <2>8, <3>1
    <3>6. CASE p \in x
      <4>1. high \union (x \intersect M) = (high \union {p}) \union (x \intersect L)
        BY ONLY <3>5, <3>6
      <4>2. x \in Z
        BY <2>1, <3>6
      <4>. QED BY ONLY <3>2, <3>3, <4>1, <4>2
    <3>7. CASE p \notin x
      <4>1. high \union (x \intersect M) = high \union (x \intersect L)
        BY ONLY <3>5, <3>7
      <4>2. x \notin Z
        BY <2>1, <3>7
      <4>. QED BY ONLY <3>2, <3>4, <4>1, <4>2
    <3>. QED BY <3>6, <3>7
  <2>10. Rest(s, on, k, high) = (Z \intersect X) \union (Y \ Z)
    <3>1. Rest(s, on, k, high) \subseteq SUBSET sup
      BY <1>1 DEF Rest
    <3>2. Y \subseteq SUBSET sup /\ Z \subseteq SUBSET sup
      BY <1>1, <2>1 DEF Rest
    <3>. QED BY ONLY <2>9, <3>1, <3>2
  <2>. QED BY <2>6, <2>7, <2>10
<1>. QED BY <1>3, <1>4, <1>5

(* The expansion says what the cells say, and is a constant when it may be.*)
LEMMA ShannonSays ==
  ASSUME NEW s, NEW sup, Ordered(s, sup), NEW on \in SUBSET SUBSET sup
  PROVE  /\ Says(sup, Shannon(s, on), on)
         /\ on \in {{}, SUBSET sup} => Shannon(s, on) \in {Zero, One}
<1>. DEFINE n == Len(s)
            D == SUBSET PortSet(s)
            V == [D -> Lits]
            Is(g) == g = [k \in 0 .. n |->
                           [high \in SUBSET PortSet(s) |->
                              IF Part(s, k, high) \intersect on = {} THEN Zero
                              ELSE IF Part(s, k, high) \subseteq on THEN One
                              ELSE Mux(Port(s[k]), g[k - 1][high \union {s[k]}], g[k - 1][high])]]
            K == [k \in 1 .. n |-> [h \in V |-> [high \in D |-> PartLit(s, on, k, h, high)]]]
<1>1. /\ n \in Nat /\ (\A k \in 1 .. n : s[k] \in sup /\ s[k] \in Int)
      /\ PortSet(s) = sup /\ D = SUBSET sup
  BY OrderedIs
<1>2. \A k \in 1 .. n, h \in V, high \in D : PartLit(s, on, k, h, high) \in Lits
  <2>. SUFFICES ASSUME NEW k \in 1 .. n, NEW h \in V, NEW high \in D
                PROVE  PartLit(s, on, k, h, high) \in Lits
    OBVIOUS
  <2>1. high \in D /\ high \union {s[k]} \in D
    BY <1>1
  <2>2. h[high] \in Lits /\ h[high \union {s[k]}] \in Lits
    BY ONLY <2>1, h \in V
  <2>3. Zero \in Lits /\ One \in Lits /\ Port(s[k]) \in Lits /\ Not(Port(s[k])) \in Lits
    BY <1>1, LitsMade
  <2>4. Mux(Port(s[k]), h[high \union {s[k]}], h[high]) \in Lits
    <3>. QED BY ONLY <2>2, <2>3, LitsOr
  <2>. QED BY ONLY <2>3, <2>4 DEF PartLit
<1>3. K \in [1 .. n -> [V -> V]]
  <2>. HIDE DEF D, n
  <2>. QED BY <1>2
<1>4. PartStart(s, on) \in V
  BY LitsMade DEF PartStart
<1>5. PICK f : IsSteps(f, PartStart(s, on), K, V, n)
  <2>. HIDE DEF K, n, V
  <2>. QED BY ONLY <1>1, <1>3, <1>4, StepsExist
<1>6. f \in [0 .. n -> V] /\ f[0] = PartStart(s, on) /\ \A k \in 1 .. n : f[k] = K[k][f[k - 1]]
  BY <1>5 DEF IsSteps
<1>7. \A k \in 1 .. n : f[k] = [high \in D |-> PartLit(s, on, k, f[k - 1], high)]
  <2>1. \A k \in 1 .. n : k - 1 \in 0 .. n
    BY <1>1
  <2>. HIDE DEF V, n, D
  <2>. QED BY <1>6, <2>1
<1>8. f[0] = [high \in D |-> PartLit(s, on, 0, f[0 - 1], high)]
  <2>1. PICK h : h = f[0 - 1]
    OBVIOUS
  <2>2. \A high \in D : PartLit(s, on, 0, h, high) = PartStart(s, on)[high]
    BY ONLY <1>1, Ordered(s, sup), PartStarts
  <2>3. f[0] = [high \in D |-> PartStart(s, on)[high]]
    BY <1>6 DEF PartStart
  <2>. HIDE DEF D
  <2>. QED BY ONLY <2>1, <2>2, <2>3
<1>9. Is(f)
  <2>1. \A k \in 0 .. n : k = 0 \/ k \in 1 .. n
    BY <1>1
  <2>. HIDE DEF n, V
  <2>2. \A k \in 0 .. n : f[k] = [high \in D |-> PartLit(s, on, k, f[k - 1], high)]
    BY ONLY <1>7, <1>8, <2>1
  <2>3. f = [k \in 0 .. n |-> f[k]]
    BY ONLY <1>6
  <2>4. f = [k \in 0 .. n |-> [high \in D |-> PartLit(s, on, k, f[k - 1], high)]]
    BY ONLY <2>2, <2>3
  <2>. QED BY ONLY <2>4 DEF PartLit
<1>10. PICK g : g = CHOOSE h : Is(h)
  OBVIOUS
<1>11. Is(g)
  BY <1>9, <1>10
<1>12. Shannon(s, on) = g[n][{}]
  BY <1>10 DEF Shannon
<1>13. \A k \in 0 .. n : g[k] = [high \in D |-> PartLit(s, on, k, g[k - 1], high)]
  <2>. HIDE DEF n
  <2>. QED BY ONLY <1>11 DEF PartLit
<1>. DEFINE T == {k \in 0 .. n : \A high \in D : Says(sup, g[k][high], Rest(s, on, k, high))}
<1>14. 0 \in T
  <2>1. PICK h : h = g[0 - 1]
    OBVIOUS
  <2>2. 0 \in 0 .. n
    BY <1>1
  <2>3. ASSUME NEW high \in D PROVE Says(sup, g[0][high], Rest(s, on, 0, high))
    <3>1. g[0][high] = PartLit(s, on, 0, h, high)
      <4>. HIDE DEF D, n
      <4>. QED BY <1>13, <2>1, <2>2
    <3>2. high \in SUBSET sup
      BY <1>1
    <3>. QED BY ONLY Ordered(s, sup), <3>1, <3>2, PartStarts
  <2>. HIDE DEF D, n
  <2>. QED BY <2>2, <2>3
<1>15. ASSUME NEW k \in 1 .. n, k - 1 \in T PROVE k \in T
  <2>1. k \in 0 .. n
    BY <1>1
  <2>2. PICK h : h = g[k - 1]
    OBVIOUS
  <2>3. \A z \in SUBSET sup : Says(sup, h[z], Rest(s, on, k - 1, z))
    <3>. HIDE DEF n, D
    <3>. QED BY <1>1, <1>15, <2>2
  <2>4. ASSUME NEW high \in D PROVE Says(sup, g[k][high], Rest(s, on, k, high))
    <3>1. g[k][high] = PartLit(s, on, k, h, high)
      <4>. HIDE DEF D, n
      <4>. QED BY <1>13, <2>1, <2>2
    <3>2. high \in SUBSET sup
      BY <1>1
    <3>. QED BY ONLY Ordered(s, sup), k \in 1 .. n, <2>3, <3>1, <3>2, PartSays
  <2>. HIDE DEF D, n
  <2>. QED BY <2>1, <2>4
<1>16. 0 .. n \subseteq T
  <2>. HIDE DEF T, n
  <2>. QED BY <1>1, <1>14, <1>15, UpTo
<1>17. Says(sup, g[n][{}], Rest(s, on, n, {}))
  <2>1. n \in T /\ {} \in D
    BY <1>1, <1>16
  <2>. HIDE DEF D, n
  <2>. QED BY <2>1
<1>18. LastPorts(s, n) = sup
  BY <1>1 DEF LastPorts, PortSet
<1>19. Rest(s, on, n, {}) = on
  <2>1. \A x \in SUBSET sup : {} \union (x \intersect sup) = x
    OBVIOUS
  <2>. HIDE DEF n
  <2>. QED BY <1>1, <1>18, <2>1 DEF Rest
<1>20. on \in {{}, SUBSET sup} => g[n][{}] \in {Zero, One}
  <2>1. PICK h : h = g[n - 1]
    OBVIOUS
  <2>2. g[n][{}] = PartLit(s, on, n, h, {})
    <3>1. n \in 0 .. n /\ {} \in D
      BY <1>1
    <3>. HIDE DEF D, n
    <3>. QED BY <1>13, <2>1, <3>1
  <2>3. Part(s, n, {}) \subseteq SUBSET sup
    <3>1. Part(s, n, {}) = {{} \union low : low \in SUBSET LastPorts(s, n)}
      BY DEF Part, LastPorts
    <3>. HIDE DEF n
    <3>. QED BY <1>18, <3>1
  <2>. HIDE DEF n
  <2>. QED BY <2>2, <2>3 DEF PartLit
<1>. QED BY <1>12, <1>17, <1>19, <1>20

-----------------------------------------------------------------------------
(* The cheapest of some literals.                                          *)

(* Nodes have operands of lower levels, two at most.                       *)
LEMMA ConeFinite ==
  \A l \in Lits : IsFiniteSet(Cone(l))
<1>. DEFINE T == {l.node.level : l \in {m \in Lits : ~IsFiniteSet(Cone(m))}}
<1>1. SUFFICES ASSUME T # {} PROVE FALSE
  OBVIOUS
<1>2. PICK k \in T : \A j \in T : k <= j
  <2>1. T \subseteq Nat
    BY LitIs, NodeLevel
  <2>. HIDE DEF T
  <2>. QED BY <1>1, <2>1, Smallest
<1>3. PICK l \in Lits : ~IsFiniteSet(Cone(l)) /\ k = l.node.level
  OBVIOUS
<1>4. l.node \in Nodes /\ l = Lit(l.node, l.ph) /\ l.ph \in {0, 1}
  BY <1>3, LitIs
<1>5. CASE Operands(l.node) = {}
  <2>1. Cone(l) = {l.node}
    BY <1>3, <1>5, ConeLeaf
  <2>. QED BY <1>3, <2>1, FS_Singleton
<1>6. CASE Operands(l.node) # {}
  <2>1. l.node.op = "and"
    BY <1>6 DEF Operands
  <2>2. PICK a, b : AndOver(l.node, a, b)
    BY <1>4, <2>1, NodeOps
  <2>3. /\ a \in Lits /\ b \in Lits /\ l.node.level \in Nat
        /\ a.node.level \in Nat /\ a.node.level < l.node.level
        /\ b.node.level \in Nat /\ b.node.level < l.node.level
    BY <2>2, AndFields
  <2>4. Cone(l) = {l.node} \union Cone(a) \union Cone(b)
    BY ONLY <1>4, <2>2, ConeSub
  <2>5. \A m \in Lits : m.node.level \in Nat /\ m.node.level < k => IsFiniteSet(Cone(m))
    <3>. SUFFICES ASSUME NEW m \in Lits, m.node.level \in Nat, m.node.level < k, ~IsFiniteSet(Cone(m))
                  PROVE  FALSE
      OBVIOUS
    <3>1. m.node.level \in T
      OBVIOUS
    <3>2. k <= m.node.level /\ k \in Nat
      BY <1>2, <1>3, <2>3, <3>1
    <3>. QED BY <3>2
  <2>6. IsFiniteSet(Cone(a)) /\ IsFiniteSet(Cone(b))
    BY <1>3, <2>3, <2>5
  <2>7. IsFiniteSet({l.node} \union Cone(a))
    BY <2>6, FS_Singleton, FS_Union
  <2>8. IsFiniteSet(({l.node} \union Cone(a)) \union Cone(b))
    BY ONLY <2>6, <2>7, FS_Union
  <2>. QED BY <1>3, <2>4, <2>8
<1>. QED BY <1>5, <1>6

(* The cheapest of some literals is one of them.                           *)
LEMMA CheapestIs ==
  ASSUME NEW ls, NEW n \in Nat, n # 0, DOMAIN ls = 1 .. n, \A i \in 1 .. n : ls[i] \in Lits
  PROVE  \E i \in 1 .. n : Cheapest(ls) = ls[i]
<1>. DEFINE size(i) == ConeSize(ls[i])
            T == {size(i) : i \in 1 .. n}
<1>1. \A i \in 1 .. n : size(i) \in Nat
  <2>. SUFFICES ASSUME NEW i \in 1 .. n PROVE ConeSize(ls[i]) \in Nat
    OBVIOUS
  <2>1. IsFiniteSet(Cone(ls[i]))
    BY ConeFinite
  <2>2. IsFiniteSet({x \in Cone(ls[i]) : x.op # "const"})
    BY <2>1, FS_Subset
  <2>. QED BY <2>2, FS_CardinalityType DEF ConeSize
<1>. HIDE DEF size
<1>2. PICK k \in T : \A j \in T : k <= j
  <2>1. T \subseteq Nat /\ T # {}
    BY <1>1
  <2>. HIDE DEF T
  <2>. QED BY <2>1, Smallest
<1>. DEFINE U == {i \in 1 .. n : size(i) = k}
<1>3. PICK i \in U : \A j \in U : i <= j
  <2>1. U \subseteq Nat /\ U # {}
    BY <1>2
  <2>. HIDE DEF U
  <2>. QED BY <2>1, Smallest
<1>4. i \in 1 .. n /\ size(i) = k
  BY <1>3
<1>5. ASSUME NEW j \in 1 .. n PROVE size(i) <= size(j) /\ (j < i => size(i) < size(j))
  <2>1. k <= size(j) /\ k \in Nat /\ size(j) \in Nat
    BY <1>1, <1>2, <1>4
  <2>2. j < i => size(j) # k
    BY <1>3
  <2>. QED BY <1>4, <2>1, <2>2
<1>. DEFINE IsLeast(m) == \A j \in DOMAIN ls :
                            /\ ConeSize(ls[m]) <= ConeSize(ls[j])
                            /\ j < m => ConeSize(ls[m]) < ConeSize(ls[j])
<1>6. IsLeast(i)
  BY <1>5 DEF size
<1>7. PICK m : m = CHOOSE h \in DOMAIN ls : IsLeast(h)
  OBVIOUS
<1>8. m \in DOMAIN ls
  <2>. HIDE DEF IsLeast
  <2>. QED BY <1>4, <1>6, <1>7
<1>9. Cheapest(ls) = ls[m]
  BY <1>7 DEF Cheapest
<1>. QED BY <1>8, <1>9

-----------------------------------------------------------------------------
(* The function of a literal.                                              *)

(* Pattern q1 of one set is to val what q2 of another is to w.             *)
PortsAlike(val, q1, w, q2, D) ==
  \A x \in D : x.op = "port" => (q1 \in val[x.port] <=> q2 \in w[x.port])

LEMMA BasesAlike ==
  ASSUME NEW P1, NEW val, NEW D, NEW f, Fits(P1, val, D, f), NEW q1 \in P1,
         NEW P2, NEW w, NEW E, NEW g, Fits(P2, w, E, g), NEW q2 \in P2,
         PortsAlike(val, q1, w, q2, D), NEW x, x \in D, x \in E
  PROVE  q1 \in f[x] <=> q2 \in g[x]
<1>. USE DEF Fits
<1>. DEFINE Alike(y) == q1 \in f[y] <=> q2 \in g[y]
            T == {y.level : y \in {z \in D \intersect E : ~Alike(z)}}
<1>1. SUFFICES ASSUME T # {} PROVE FALSE
  OBVIOUS
<1>2. PICK k \in T : \A j \in T : k <= j
  <2>1. T \subseteq Nat
    BY NodeLevel
  <2>. HIDE DEF T
  <2>. QED BY <1>1, <2>1, Smallest
<1>3. PICK y \in D \intersect E : ~Alike(y) /\ k = y.level
  OBVIOUS
<1>4. y \in Nodes /\ Operands(y) \subseteq D \intersect E
  BY <1>3 DEF Downward
<1>5. \A z \in Operands(y) : Alike(z)
  <2>. SUFFICES ASSUME NEW z \in Operands(y), ~Alike(z) PROVE FALSE
    OBVIOUS
  <2>1. z.level \in T
    BY <1>4
  <2>2. z.level \in Nat /\ y.level \in Nat /\ z.level < y.level
    BY <1>4, OperandsNodes
  <2>. QED BY <1>2, <1>3, <2>1, <2>2
<1>6. y.op = "and" => \A i \in y.ins : Alike(i.node)
  BY <1>5 DEF Operands
<1>7. f[y] = NodeValue(P1, val, f, y) /\ g[y] = NodeValue(P2, w, g, y)
  BY <1>3 DEF IsTerm
<1>8. CASE y.op = "and"
  <2>1. /\ q1 \in f[y] <=> \A i \in y.ins : q1 \in Phased(P1, f[i.node], i.ph)
        /\ q2 \in g[y] <=> \A i \in y.ins : q2 \in Phased(P2, g[i.node], i.ph)
    BY <1>7, <1>8 DEF NodeValue
  <2>2. ASSUME NEW i \in y.ins
        PROVE  q1 \in Phased(P1, f[i.node], i.ph) <=> q2 \in Phased(P2, g[i.node], i.ph)
    BY <1>6, <1>8 DEF Phased
  <2>. QED BY ONLY <1>3, <2>1, <2>2 DEF Alike
<1>9. CASE y.op = "port"
  <2>1. f[y] = val[y.port] /\ g[y] = w[y.port]
    BY <1>7, <1>9 DEF NodeValue
  <2>2. q1 \in val[y.port] <=> q2 \in w[y.port]
    BY <1>3, <1>9 DEF PortsAlike
  <2>. QED BY ONLY <1>3, <2>1, <2>2 DEF Alike
<1>10. CASE y.op = "const"
  <2>1. f[y] = {} /\ g[y] = {}
    BY <1>7, <1>10 DEF NodeValue
  <2>. QED BY ONLY <1>3, <2>1 DEF Alike
<1>. QED BY <1>4, <1>8, <1>9, <1>10, NodeOps

(* The value on a pattern only depends on that of the ports on it.         *)
LEMMA TermAlike ==
  ASSUME NEW l \in Lits, NEW P1, NEW val, Suited(P1, val, l), NEW q1 \in P1,
         NEW P2, NEW w, Suited(P2, w, l), NEW q2 \in P2,
         \A p \in PortsOf(l) : q1 \in val[p] <=> q2 \in w[p]
  PROVE  q1 \in TermValue(P1, val, l) <=> q2 \in TermValue(P2, w, l)
<1>1. PICK f : IsTerm(P1, val, Cone(l), f) /\ TermValue(P1, val, l) = Phased(P1, f[l.node], l.ph)
  BY TermBase
<1>2. PICK g : IsTerm(P2, w, Cone(l), g) /\ TermValue(P2, w, l) = Phased(P2, g[l.node], l.ph)
  BY TermBase
<1>3. PortsAlike(val, q1, w, q2, Cone(l))
  BY DEF PortsAlike, PortsOf
<1>4. Fits(P1, val, Cone(l), f) /\ Fits(P2, w, Cone(l), g) /\ l.node \in Cone(l)
  BY <1>1, <1>2, ConeIs DEF Fits
<1>5. q1 \in f[l.node] <=> q2 \in g[l.node]
  BY ONLY <1>3, <1>4, q1 \in P1, q2 \in P2, BasesAlike
<1>. QED BY <1>1, <1>2, <1>5 DEF Phased

(* FnOf gives the cells that the literal is 1 on, as far as its ports go.  *)
IsFnOf(f, sup, X) ==
  /\ f.sup \subseteq sup /\ f.on \subseteq SUBSET f.sup
  /\ \A x \in SUBSET sup : x \intersect f.sup \in f.on <=> x \in X

LEMMA FnOfIs ==
  ASSUME NEW sup, NEW l, NEW X, Says(sup, l, X)
  PROVE  IsFnOf(FnOf(l), sup, X) /\ FnOf(l).sup = PortsOf(l)
<1>1. PICK P, val, f : P = PortsOf(l) /\ f = FnOf(l) /\ val = [p \in P |-> {x \in SUBSET P : p \in x}]
  OBVIOUS
<1>2. f.sup = P /\ f.on = TermValue(SUBSET P, val, l)
  BY <1>1 DEF FnOf
<1>3. Means(SUBSET sup, PortCells(sup), sup, l, X)
  BY DEF Says, SaysOver
<1>4. l \in Lits /\ P \subseteq sup /\ Suited(SUBSET sup, PortCells(sup), l)
  BY <1>1, <1>3, MeansSuited
<1>5. TermValue(SUBSET sup, PortCells(sup), l) = X
  BY <1>3 DEF Means
<1>6. Suited(SUBSET P, val, l)
  BY <1>1 DEF Suited
<1>7. f.on \subseteq SUBSET P
  BY ONLY <1>2, <1>4, <1>6, TermTyped
<1>8. ASSUME NEW x \in SUBSET sup PROVE x \intersect P \in f.on <=> x \in X
  <2>1. PICK y : y = x \intersect P
    OBVIOUS
  <2>2. y \in SUBSET P
    BY <2>1
  <2>3. \A p \in P : y \in val[p] <=> x \in PortCells(sup)[p]
    <3>1. \A p \in P : val[p] = {z \in SUBSET P : p \in z}
      BY <1>1
    <3>2. \A p \in P : PortCells(sup)[p] = {z \in SUBSET sup : p \in z}
      BY <1>4 DEF PortCells
    <3>. QED BY ONLY <2>1, <2>2, <3>1, <3>2, x \in SUBSET sup
  <2>4. y \in TermValue(SUBSET P, val, l) <=> x \in TermValue(SUBSET sup, PortCells(sup), l)
    BY ONLY <1>1, <1>4, <1>6, <2>2, <2>3, x \in SUBSET sup, TermAlike
  <2>. QED BY <1>2, <1>5, <2>1, <2>4
<1>. QED BY <1>1, <1>2, <1>4, <1>7, <1>8 DEF IsFnOf

(* A function of which every port changes some cell: only the constants    *)
(* without ports are constant.                                             *)
Essential(f) == \A p \in f.sup : ~Idle(f.sup, f.on, p)

LEMMA EssentialVaries ==
  ASSUME NEW f, Essential(f), IsConstant(f)
  PROVE  f.sup = {}
<1>1. SUFFICES ASSUME NEW p \in f.sup PROVE FALSE
  OBVIOUS
<1>2. \A cell \in SUBSET (f.sup \ {p}) : cell \in f.on <=> (cell \union {p}) \in f.on
  BY DEF IsConstant
<1>. QED BY <1>2 DEF Essential, Idle

(* The cells of a constant.                                                *)
LEMMA ConstantCells ==
  ASSUME NEW f, NEW sup, NEW X \in SUBSET SUBSET sup, IsFnOf(f, sup, X), IsConstant(f)
  PROVE  X \in {{}, SUBSET sup}
<1>1. \A x \in SUBSET sup : x \in X <=> x \intersect f.sup \in f.on
  BY DEF IsFnOf
<1>2. CASE f.on = {}
  BY <1>1, <1>2
<1>3. CASE f.on = SUBSET f.sup
  BY <1>1, <1>3
<1>. QED BY <1>2, <1>3 DEF IsConstant

LEMMA EssentialIs ==
  ASSUME NEW sup, NEW f, NEW X, IsFnOf(f, sup, X),
         \A p \in f.sup : \E x \in SUBSET sup : (x \in X) # (Toggled(x, p) \in X)
  PROVE  Essential(f)
<1>1. ASSUME NEW p \in f.sup
      PROVE  ~Idle(f.sup, f.on, p)
  <2>1. PICK x \in SUBSET sup : (x \in X) # (Toggled(x, p) \in X)
    OBVIOUS
  <2>2. PICK z : z = Toggled(x, p)
    OBVIOUS
  <2>3. PICK cell : cell = (x \intersect f.sup) \ {p}
    OBVIOUS
  <2>4. p \in sup /\ z \in SUBSET sup
    BY <2>2 DEF IsFnOf, Toggled
  <2>5. PICK u, v : u = x \intersect f.sup /\ v = z \intersect f.sup
    OBVIOUS
  <2>6. (u \in f.on <=> x \in X) /\ (v \in f.on <=> z \in X)
    BY <2>4, <2>5 DEF IsFnOf
  <2>7. {u, v} = {cell, cell \union {p}}
    <3>1. CASE p \in x
      <4>1. u = cell \union {p}
        BY <2>3, <2>5, <3>1
      <4>2. v = cell
        BY <2>2, <2>3, <2>5, <3>1 DEF Toggled
      <4>. QED BY ONLY <4>1, <4>2
    <3>2. CASE p \notin x
      <4>1. u = cell
        BY <2>3, <2>5, <3>2
      <4>2. v = cell \union {p}
        BY <2>2, <2>3, <2>5, <3>2 DEF Toggled
      <4>. QED BY ONLY <4>1, <4>2
    <3>. QED BY <3>1, <3>2
  <2>8. (u \in f.on) # (v \in f.on)
    BY ONLY <2>1, <2>2, <2>6
  <2>9. PICK cell2 : cell2 = cell \union {p}
    OBVIOUS
  <2>10. (cell \in f.on) # (cell2 \in f.on)
    <3>1. (u = cell /\ v = cell2) \/ (u = cell2 /\ v = cell)
      BY ONLY <2>7, <2>8, <2>9
    <3>. QED BY ONLY <2>8, <3>1
  <2>11. cell \in SUBSET (f.sup \ {p})
    BY <2>3
  <2>. QED BY <2>9, <2>10, <2>11 DEF Idle
<1>. QED BY <1>1 DEF Essential

-----------------------------------------------------------------------------
(* The table.                                                              *)

(* A table over the ports sup.                                             *)
IsTable(sup, ones, zeros) ==
  /\ IsFiniteSet(sup) /\ sup \subseteq Int
  /\ ones \in SUBSET SUBSET sup /\ zeros \in SUBSET SUBSET sup /\ ones \intersect zeros = {}

(* Literal l says what the table says.                                     *)
SaysTable(sup, ones, zeros, l) ==
  \E X : Says(sup, l, X) /\ ones \subseteq X /\ X \intersect zeros = {}

(* All four ways of filling the table are right.                           *)
LEMMA FormsSay ==
  ASSUME NEW sup, NEW ones, NEW zeros, IsTable(sup, ones, zeros), NEW s \in Orders(sup),
         NEW i \in 1 .. 4
  PROVE  SaysTable(sup, ones, zeros, Forms(s, ones, zeros)[i])
<1>1. /\ ones \in SUBSET SUBSET sup /\ zeros \in SUBSET SUBSET sup
      /\ ones \intersect zeros = {} /\ zeros \intersect ones = {} /\ Ordered(s, sup)
  BY DEF IsTable, Ordered
<1>2. PortSet(s) = sup
  BY <1>1, OrderedIs
<1>3. SaysTable(sup, ones, zeros, Shannon(s, ones))
  <2>1. Says(sup, Shannon(s, ones), ones)
    BY <1>1, ShannonSays
  <2>. QED BY <1>1, <2>1 DEF SaysTable
<1>4. SaysTable(sup, ones, zeros, Shannon(s, (SUBSET PortSet(s)) \ zeros))
  <2>1. PICK X : X = (SUBSET sup) \ zeros
    OBVIOUS
  <2>2. X \in SUBSET SUBSET sup /\ ones \subseteq X /\ X \intersect zeros = {}
    BY <1>1, <2>1
  <2>3. Says(sup, Shannon(s, X), X)
    BY ONLY <1>1, <2>2, ShannonSays
  <2>. QED BY <1>2, <2>1, <2>2, <2>3 DEF SaysTable
<1>5. SaysTable(sup, ones, zeros, SopBuild(s, ones, zeros))
  <2>1. PICK st \in CoverStates(sup) : /\ SopBuild(s, ones, zeros) = st.lit
                                       /\ Covering(sup, zeros, st) /\ ones \subseteq st.covered
    BY ONLY <1>1, SopBuildIs
  <2>. QED BY <2>1 DEF SaysTable, Covering
<1>6. SaysTable(sup, ones, zeros, Not(SopBuild(s, zeros, ones)))
  <2>1. PICK st \in CoverStates(sup) : /\ SopBuild(s, zeros, ones) = st.lit
                                       /\ Covering(sup, ones, st) /\ zeros \subseteq st.covered
    BY ONLY <1>1, SopBuildIs
  <2>2. Says(sup, Not(st.lit), (SUBSET sup) \ st.covered)
    BY <2>1, SaysNot DEF Covering, Says
  <2>3. /\ ones \subseteq (SUBSET sup) \ st.covered
        /\ ((SUBSET sup) \ st.covered) \intersect zeros = {}
    BY <1>1, <2>1 DEF Covering
  <2>. QED BY <2>1, <2>2, <2>3 DEF SaysTable
<1>. QED BY <1>3, <1>4, <1>5, <1>6 DEF Forms

(* One of them is taken.                                                   *)
LEMMA FilledForm ==
  ASSUME NEW sup, NEW ones, NEW zeros, IsTable(sup, ones, zeros), NEW s \in Orders(sup)
  PROVE  \E i \in 1 .. 4 : Cheapest(Forms(s, ones, zeros)) = Forms(s, ones, zeros)[i]
<1>1. PICK ls : ls = Forms(s, ones, zeros)
  OBVIOUS
<1>2. \A i \in 1 .. 4 : SaysTable(sup, ones, zeros, ls[i])
  BY <1>1, FormsSay
<1>3. \A i \in 1 .. 4 : ls[i] \in Lits
  BY <1>2, SaysLit DEF SaysTable, Says
<1>4. DOMAIN ls = 1 .. 4
  BY <1>1 DEF Forms
<1>5. \E i \in 1 .. 4 : Cheapest(ls) = ls[i]
  <2>1. 4 \in Nat /\ 4 # 0
    OBVIOUS
  <2>. QED BY ONLY <1>3, <1>4, <2>1, CheapestIs
<1>. QED BY ONLY <1>1, <1>5

(* Whatever is the cheapest, it is over the ports, 1 on the ONEs and 0 on  *)
(* the ZEROs of the table (the end of synthesize, rectify.hpp:822).        *)
THEOREM FilledRight ==
  ASSUME NEW sup, NEW ones, NEW zeros, IsTable(sup, ones, zeros),
         NEW f \in Filled(sup, ones, zeros)
  PROVE  /\ f.sup \subseteq sup /\ f.on \subseteq SUBSET f.sup
         /\ \A x \in ones : x \intersect f.sup \in f.on
         /\ \A x \in zeros : x \intersect f.sup \notin f.on
<1>1. PICK s \in Orders(sup) : f = FnOf(Cheapest(Forms(s, ones, zeros)))
  BY DEF Filled
<1>2. PICK i \in 1 .. 4 : Cheapest(Forms(s, ones, zeros)) = Forms(s, ones, zeros)[i]
  BY FilledForm
<1>3. PICK l : l = Forms(s, ones, zeros)[i]
  OBVIOUS
<1>4. PICK X : Says(sup, l, X) /\ ones \subseteq X /\ X \intersect zeros = {}
  BY <1>3, FormsSay DEF SaysTable
<1>5. IsFnOf(f, sup, X)
  BY ONLY <1>1, <1>2, <1>3, <1>4, FnOfIs
<1>6. ones \subseteq SUBSET sup /\ zeros \subseteq SUBSET sup
  BY DEF IsTable
<1>. QED BY <1>4, <1>5, <1>6 DEF IsFnOf

(* A cover has no port that does not matter: cubes are expanded as far as  *)
(* they go (sopBuild, rectify.hpp:862).                                    *)
THEOREM CubesMatter ==
  ASSUME NEW sup, NEW ones, NEW zeros, IsTable(sup, ones, zeros), NEW s \in Orders(sup)
  PROVE  /\ Essential(FnOf(SopBuild(s, ones, zeros)))
         /\ Essential(FnOf(Not(SopBuild(s, zeros, ones))))
<1>1. ASSUME NEW on \in SUBSET SUBSET sup, NEW avoid, on \intersect avoid = {}
      PROVE  /\ Essential(FnOf(SopBuild(s, on, avoid)))
             /\ Essential(FnOf(Not(SopBuild(s, on, avoid))))
  <2>1. Ordered(s, sup)
    BY DEF IsTable, Ordered
  <2>2. PICK st \in CoverStates(sup) : /\ SopBuild(s, on, avoid) = st.lit
                                       /\ Covering(sup, avoid, st) /\ on \subseteq st.covered
    BY ONLY <1>1, <2>1, SopBuildIs
  <2>3. PICK X, Y, l : X = st.covered /\ Y = (SUBSET sup) \ X /\ l = st.lit
    OBVIOUS
  <2>4. Says(sup, l, X) /\ Says(sup, Not(l), Y)
    BY <2>2, <2>3, SaysNot DEF Covering, Says
  <2>5. l \in Lits /\ PortsOf(l) \subseteq sup /\ X \subseteq SUBSET sup
    BY ONLY <2>4, SaysLit DEF Says
  <2>6. ASSUME NEW p \in PortsOf(l)
        PROVE  \E x \in SUBSET sup : x \in X /\ Toggled(x, p) \notin X /\ Toggled(x, p) \in SUBSET sup
    <3>1. PICK x \in X : Toggled(x, p) \in avoid
      BY <2>2, <2>3, <2>6 DEF Covering, Matters
    <3>2. Toggled(x, p) \notin X
      BY <2>2, <2>3, <3>1 DEF Covering
    <3>3. Toggled(x, p) \in SUBSET sup
      BY <2>5, <3>1 DEF Toggled
    <3>. QED BY <2>5, <3>1, <3>2, <3>3
  <2>7. IsFnOf(FnOf(l), sup, X) /\ FnOf(l).sup = PortsOf(l)
    BY ONLY <2>4, FnOfIs
  <2>8. IsFnOf(FnOf(Not(l)), sup, Y) /\ FnOf(Not(l)).sup = PortsOf(l)
    <3>1. FnOf(Not(l)).sup = PortsOf(Not(l)) /\ IsFnOf(FnOf(Not(l)), sup, Y)
      BY ONLY <2>4, FnOfIs
    <3>. QED BY ONLY <2>5, <3>1, PortsAre
  <2>9. Essential(FnOf(l))
    <3>1. \A p \in FnOf(l).sup : \E x \in SUBSET sup : (x \in X) # (Toggled(x, p) \in X)
      BY <2>6, <2>7
    <3>. QED BY ONLY <2>7, <3>1, EssentialIs
  <2>10. Essential(FnOf(Not(l)))
    <3>1. \A p \in FnOf(Not(l)).sup : \E x \in SUBSET sup : (x \in Y) # (Toggled(x, p) \in Y)
      BY <2>3, <2>6, <2>8
    <3>. QED BY ONLY <2>8, <3>1, EssentialIs
  <2>. QED BY <2>2, <2>3, <2>9, <2>10
<1>2. zeros \intersect ones = {}
  BY DEF IsTable
<1>. QED BY <1>1, <1>2 DEF IsTable

(* None of the four fillings is a constant in disguise.                    *)
LEMMA FormsPlain ==
  ASSUME NEW sup, NEW ones, NEW zeros, IsTable(sup, ones, zeros), NEW s \in Orders(sup),
         NEW i \in 1 .. 4, NEW l, l = Forms(s, ones, zeros)[i], IsConstant(FnOf(l))
  PROVE  FnOf(l).sup = {}
<1>1. Ordered(s, sup) /\ ones \in SUBSET SUBSET sup /\ zeros \in SUBSET SUBSET sup
  BY DEF IsTable, Ordered
<1>2. PortSet(s) = sup
  BY <1>1, OrderedIs
<1>3. ASSUME NEW on \in SUBSET SUBSET sup, l = Shannon(s, on)
      PROVE  FnOf(l).sup = {}
  <2>1. Says(sup, l, on) /\ (on \in {{}, SUBSET sup} => l \in {Zero, One})
    BY ONLY <1>1, <1>3, ShannonSays
  <2>2. IsFnOf(FnOf(l), sup, on) /\ FnOf(l).sup = PortsOf(l)
    BY ONLY <2>1, FnOfIs
  <2>3. on \in {{}, SUBSET sup}
    BY <2>2, ConstantCells
  <2>. QED BY <2>1, <2>2, <2>3, PortsAre
<1>4. CASE i = 1
  BY <1>1, <1>3, <1>4 DEF Forms
<1>5. CASE i = 2
  <2>1. PICK on : on = (SUBSET sup) \ zeros
    OBVIOUS
  <2>2. on \in SUBSET SUBSET sup /\ l = Shannon(s, on)
    BY <1>2, <1>5, <2>1 DEF Forms
  <2>. QED BY <1>3, <2>2
<1>6. CASE i = 3
  <2>1. l = SopBuild(s, ones, zeros)
    BY <1>6 DEF Forms
  <2>2. Essential(FnOf(l))
    BY <2>1, CubesMatter
  <2>. QED BY <2>2, EssentialVaries
<1>7. CASE i = 4
  <2>1. l = Not(SopBuild(s, zeros, ones))
    BY <1>7 DEF Forms
  <2>2. Essential(FnOf(l))
    BY <2>1, CubesMatter
  <2>. QED BY <2>2, EssentialVaries
<1>. QED BY <1>4, <1>5, <1>6, <1>7

-----------------------------------------------------------------------------
(* The sample.                                                             *)

Write(mem, n, q) == [mem EXCEPT ![n % Slots] = q]

(* A pattern written into the next slot leaves those before it alone.      *)
LEMMA Written ==
  ASSUME NEW pats, NEW mem \in [0..(Slots - 1) -> pats], NEW ran,
         NEW n \in Nat, n < Slots, NEW q \in pats,
         NEW P, NEW bad, HoldsIn(P, bad, mem, n, ran)
  PROVE  /\ Write(mem, n, q) \in [0..(Slots - 1) -> pats]
         /\ Write(mem, n, q)[n] = q
         /\ HoldsIn(P, bad, Write(mem, n, q), n + 1, ran)
         /\ q \in bad => HoldsIn(P \union {<<"slot", n % Slots>>}, bad,
                                Write(mem, n, q), n + 1, ran)
<1>1. Slots \in Nat \ {0} /\ n % Slots = n /\ n \in 0..(Slots - 1)
  BY SynthesisAssumption
<1>2. Write(mem, n, q) \in [0..(Slots - 1) -> pats] /\ Write(mem, n, q)[n] = q
      /\ \A k \in 0..(n - 1) : Write(mem, n, q)[k] = mem[k]
  BY <1>1 DEF Write
<1>3. HoldsIn(P, bad, Write(mem, n, q), n + 1, ran)
  <2>1. SUFFICES ASSUME NEW e \in P, NEW k \in 0..(n - 1),
                        e = <<"slot", k>>, mem[k] \in bad
                 PROVE  \E j \in 0..n : e = <<"slot", j>> /\ Write(mem, n, q)[j] \in bad
    BY DEF HoldsIn
  <2>2. k \in 0..n /\ Write(mem, n, q)[k] \in bad
    BY <1>2, <2>1
  <2> QED
    BY <2>1, <2>2
<1>4. ASSUME q \in bad
      PROVE  HoldsIn(P \union {<<"slot", n % Slots>>}, bad, Write(mem, n, q), n + 1, ran)
  <2>1. n \in 0..n /\ <<"slot", n % Slots>> = <<"slot", n>> /\ Write(mem, n, q)[n] \in bad
    BY <1>1, <1>2, <1>4
  <2> QED
    BY <1>3, <2>1 DEF HoldsIn
<1> QED
  BY <1>2, <1>3, <1>4

(* The bounds a slot is counted by.                                        *)
LEMMA Bounds ==
  /\ Cap \in Nat /\ MaxIter \in Nat /\ Slots \in Nat \ {0} /\ MaxSup \in Nat
  /\ 2 * Cap + 2 * MaxIter <= Slots
BY SynthesisAssumption

LEMMA OfProblem ==
  ASSUME NEW p \in Problems
  PROVE  /\ p.bad0 \subseteq Patterns(p.c) /\ p.bad1 \subseteq Patterns(p.c)
         /\ p.sims \subseteq SUBSET Patterns(p.c)
         /\ (CHOOSE q \in Patterns(p.c) : TRUE) \in Patterns(p.c)
BY SynthesisAssumption

-----------------------------------------------------------------------------
(* The invariant.                                                          *)

LEMMA InitInv == Init => Inv
<1> SUFFICES ASSUME Init PROVE Inv
  OBVIOUS
<1> USE DEF Init
<1>1. CounterInv
  BY Bounds, FS_EmptySet DEF CounterInv, Early
<1>2. SampleInv
  BY OfProblem DEF SampleInv, Early, Holds, HoldsIn
<1>3. TableInv
  BY DEF TableInv, Tabling
<1> QED
  BY <1>1, <1>2, <1>3 DEF Inv, Stages, ResultFilled

(* A step that leaves S and the tables alone, outside the tabling stages.  *)
LEMMA KeepTable ==
  ASSUME TableInv, problem' = problem, S' = S, one' = one, zero' = zero,
         pc \notin Tabling \union {"done"}, pc' \notin Tabling \union {"done"}
  PROVE  TableInv'
BY DEF TableInv, Tabling, Ones, Zeros, Cells, Cell

LEMMA EnumerateOneInv == Inv /\ EnumerateOne => Inv'
<1> SUFFICES ASSUME Inv, EnumerateOne PROVE Inv'
  OBVIOUS
<1> USE DEF EnumerateOne
<1>1. PICK q \in problem.bad0 :
        /\ Another(problem.bad0, q) /\ Inject(q)
        /\ p1' = p1 \union {<<"slot", counter % Slots>>}
  OBVIOUS
<1>2. /\ problem \in Problems /\ pc = "ones" /\ pc' = "ones" /\ q \in Patterns(problem.c)
      /\ counter' = counter + 1 /\ blocked' = blocked \union {q} /\ q \notin blocked
      /\ Cardinality(blocked) < Cap
  BY <1>1, OfProblem DEF Inv, Another, Inject
<1>3. CounterInv /\ counter \in Nat /\ counter < Slots
  BY <1>2, Bounds DEF Inv, CounterInv
<1>4. IsFiniteSet(blocked') /\ Cardinality(blocked') = Cardinality(blocked) + 1
  BY <1>2, <1>3, FS_AddElement DEF CounterInv
<1>5. CounterInv'
  BY <1>2, <1>3, <1>4, Bounds DEF CounterInv, Early
<1>6. SampleInv'
  <2>1. /\ slots \in [0..(Slots - 1) -> Patterns(problem.c)]
        /\ HoldsIn(p1, problem.bad0, slots, counter, sim)
        /\ HoldsIn(p0, problem.bad1, slots, counter, sim)
    BY DEF Inv, SampleInv, Holds
  <2>2. slots' = Write(slots, counter, q)
    BY <1>1 DEF Inject, Write
  <2>3. slots' \in [0..(Slots - 1) -> Patterns(problem.c)]
        /\ HoldsIn(p1', problem.bad0, slots', counter + 1, sim)
    BY <1>1, <1>2, <1>3, <2>1, <2>2, Written
  <2>4. HoldsIn(p0, problem.bad1, slots', counter + 1, sim)
    BY <1>2, <1>3, <2>1, <2>2, Written
  <2> QED
    BY <1>2, <2>3, <2>4 DEF SampleInv, Holds, Early
<1>7. TableInv'
  BY <1>2, KeepTable DEF Inv, Tabling, tableVars
<1> QED
  BY <1>2, <1>5, <1>6, <1>7 DEF Inv, ResultFilled, Stages

LEMMA EndOnesInv == Inv /\ EndOnes => Inv'
<1> SUFFICES ASSUME Inv, EndOnes PROVE Inv'
  OBVIOUS
<1> USE DEF EndOnes
<1>1. CounterInv /\ SampleInv /\ pc = "ones" /\ pc' = "zeros"
  BY DEF Inv
<1>2. CounterInv'
  BY <1>1, Bounds, FS_EmptySet DEF CounterInv, Early
<1>3. SampleInv'
  BY <1>1 DEF SampleInv, Early, Holds
<1>4. TableInv'
  BY <1>1, KeepTable DEF Inv, Tabling, tableVars
<1> QED
  BY <1>1, <1>2, <1>3, <1>4 DEF Inv, ResultFilled, Stages

LEMMA EnumerateZeroInv == Inv /\ EnumerateZero => Inv'
<1> SUFFICES ASSUME Inv, EnumerateZero PROVE Inv'
  OBVIOUS
<1> USE DEF EnumerateZero
<1>1. PICK q \in problem.bad1 :
        /\ Another(problem.bad1, q) /\ Inject(q)
        /\ p0' = p0 \union {<<"slot", counter % Slots>>}
  OBVIOUS
<1>2. /\ problem \in Problems /\ pc = "zeros" /\ pc' = "zeros" /\ q \in Patterns(problem.c)
      /\ counter' = counter + 1 /\ blocked' = blocked \union {q} /\ q \notin blocked
      /\ Cardinality(blocked) < Cap
  BY <1>1, OfProblem DEF Inv, Another, Inject
<1>3. CounterInv /\ counter \in Nat /\ counter < Slots /\ Cardinality(blocked) \in Nat
  BY <1>2, Bounds, FS_CardinalityType DEF Inv, CounterInv
<1>4. IsFiniteSet(blocked') /\ Cardinality(blocked') = Cardinality(blocked) + 1
  BY <1>2, <1>3, FS_AddElement DEF CounterInv
<1>5. CounterInv'
  BY <1>2, <1>3, <1>4, Bounds DEF CounterInv, Early
<1>6. SampleInv'
  <2>1. /\ slots \in [0..(Slots - 1) -> Patterns(problem.c)]
        /\ HoldsIn(p1, problem.bad0, slots, counter, sim)
        /\ HoldsIn(p0, problem.bad1, slots, counter, sim)
    BY DEF Inv, SampleInv, Holds
  <2>2. slots' = Write(slots, counter, q)
    BY <1>1 DEF Inject, Write
  <2>3. slots' \in [0..(Slots - 1) -> Patterns(problem.c)]
        /\ HoldsIn(p0', problem.bad1, slots', counter + 1, sim)
    BY <1>1, <1>2, <1>3, <2>1, <2>2, Written
  <2>4. HoldsIn(p1, problem.bad0, slots', counter + 1, sim)
    BY <1>2, <1>3, <2>1, <2>2, Written
  <2> QED
    BY <1>2, <2>3, <2>4 DEF SampleInv, Holds, Early
<1>7. TableInv'
  BY <1>2, KeepTable DEF Inv, Tabling, tableVars
<1> QED
  BY <1>2, <1>5, <1>6, <1>7 DEF Inv, ResultFilled, Stages

LEMMA EndZerosInv == Inv /\ EndZeros => Inv'
<1> SUFFICES ASSUME Inv, EndZeros PROVE Inv'
  OBVIOUS
<1> USE DEF EndZeros
<1>1. CounterInv /\ SampleInv /\ pc = "zeros" /\ pc' = "scan"
  BY DEF Inv
<1>2. CounterInv'
  BY <1>1, Bounds, FS_EmptySet, FS_CardinalityType DEF CounterInv, Early
<1>3. SampleInv'
  BY <1>1 DEF SampleInv, Early, Holds
<1>4. TableInv'
  BY <1>1, KeepTable DEF Inv, Tabling, tableVars
<1> QED
  BY <1>1, <1>2, <1>3, <1>4 DEF Inv, ResultFilled, Stages

LEMMA ScanInv == Inv /\ Scan => Inv'
<1> SUFFICES ASSUME Inv, Scan PROVE Inv'
  OBVIOUS
<1> USE DEF Scan
<1>1. CounterInv /\ SampleInv /\ pc = "scan" /\ pc' \in {"failed", "cover"}
      /\ (pc' = "failed" <=> p1' = {} /\ p0' = {})
  BY DEF Inv
<1>2. CounterInv'
  BY <1>1, Bounds DEF CounterInv, Early
<1>3. SampleInv'
  BY <1>1 DEF SampleInv, Early, Holds, HoldsIn
<1>4. TableInv'
  BY <1>1, KeepTable DEF Inv, Tabling, tableVars
<1> QED
  BY <1>1, <1>2, <1>3, <1>4 DEF Inv, ResultFilled, Stages

(* After the scan, a step that leaves the sample alone.                    *)
LEMMA KeepSample ==
  ASSUME SampleInv, problem' = problem, UNCHANGED sampleVars,
         pc \notin Early \union {"failed"}, pc' \notin Early, pc' = "check" => Open' = {}
  PROVE  SampleInv'
BY DEF SampleInv, Holds, HoldsIn, sampleVars

LEMMA KeepCounter ==
  ASSUME CounterInv, problem' = problem, UNCHANGED sampleVars, iter' = iter,
         pc \notin Early, pc' \notin Early, pc' = "check" => iter < MaxIter
  PROVE  CounterInv'
BY DEF CounterInv, sampleVars, Early

LEMMA PickInv == Inv /\ Pick => Inv'
<1> SUFFICES ASSUME Inv, Pick PROVE Inv'
  OBVIOUS
<1>1. PICK d \in Ports(problem) : S' = S \union {d}
  BY DEF Pick
<1>2. pc = "cover" /\ pc' \in {"failed", "cover"} /\ problem' = problem
      /\ UNCHANGED <<sampleVars, iter, tableVars>>
  BY DEF Pick
<1>3. CounterInv'
  BY <1>2, KeepCounter DEF Inv, Early
<1>4. SampleInv'
  BY <1>2, KeepSample DEF Inv, Early
<1>5. TableInv'
  BY <1>1, <1>2 DEF Inv, TableInv, Tabling, tableVars
<1> QED
  BY <1>2, <1>3, <1>4, <1>5 DEF Inv, ResultFilled, Stages, sampleVars

LEMMA InseparableInv == Inv /\ (Inseparable \/ NoAnswer) => Inv'
<1> SUFFICES ASSUME Inv, Inseparable \/ NoAnswer PROVE Inv'
  OBVIOUS
<1>1. pc \in {"cover", "check"} /\ pc' = "failed" /\ problem' = problem
      /\ UNCHANGED <<sampleVars, S, iter, tableVars>>
  BY DEF Inseparable, NoAnswer
<1>2. CounterInv'
  BY <1>1, KeepCounter DEF Inv, Early
<1>3. SampleInv'
  BY <1>1, KeepSample DEF Inv, Early
<1>4. TableInv'
  BY <1>1, KeepTable DEF Inv, Tabling, tableVars
<1> QED
  BY <1>1, <1>2, <1>3, <1>4 DEF Inv, ResultFilled, Stages, sampleVars

LEMMA CoveredInv == Inv /\ Covered => Inv'
<1> SUFFICES ASSUME Inv, Covered PROVE Inv'
  OBVIOUS
<1>1. /\ pc = "cover" /\ Open = {} /\ pc' \in {"failed", "check"} /\ problem' = problem
      /\ pc' = "check" => iter # MaxIter
      /\ UNCHANGED <<sampleVars, S, iter, tableVars>>
  BY DEF Covered
<1>2. Open' = {}
  BY <1>1 DEF Open, Tells, PatternAt, sampleVars
<1>3. CounterInv'
  <2>1. pc' = "check" => iter < MaxIter
    BY <1>1, Bounds DEF Inv, CounterInv
  <2> QED
    BY <1>1, <2>1, KeepCounter DEF Inv, Early
<1>4. SampleInv'
  BY <1>1, <1>2, KeepSample DEF Inv, Early
<1>5. TableInv'
  BY <1>1, KeepTable DEF Inv, Tabling, tableVars
<1> QED
  BY <1>1, <1>3, <1>4, <1>5 DEF Inv, ResultFilled, Stages, sampleVars

(* The places of a refinement.                                             *)
LEMMA Refined ==
  ASSUME Inv, Refine
  PROVE  \E q1 \in problem.bad0, q0 \in problem.bad1 :
           /\ Agree(q1, q0)
           /\ counter \in Nat /\ counter + 1 < Slots
           /\ q1 \in Patterns(problem.c) /\ q0 \in Patterns(problem.c)
           /\ slots' = Write(Write(slots, counter, q1), counter + 1, q0)
<1>1. PICK q1 \in problem.bad0, q0 \in problem.bad1 :
        /\ Agree(q1, q0)
        /\ slots' = [slots EXCEPT ![counter % Slots] = q1,
                                  ![(counter + 1) % Slots] = q0]
  BY DEF Refine
<1>2. counter \in Nat /\ counter + 1 < Slots
  <2>1. /\ iter \in Nat /\ counter \in Nat /\ iter < MaxIter
        /\ counter <= 2 * Cap + 2 * iter
    BY Bounds DEF Inv, CounterInv, Refine
  <2> QED
    BY <2>1, Bounds
<1>3. slots' = Write(Write(slots, counter, q1), counter + 1, q0)
  BY <1>1 DEF Write
<1> QED
  BY <1>1, <1>2, <1>3, OfProblem DEF Inv

LEMMA RefineInv == Inv /\ Refine => Inv'
<1> SUFFICES ASSUME Inv, Refine PROVE Inv'
  OBVIOUS
<1>1. /\ pc = "check" /\ pc' = "cover" /\ problem' = problem /\ S' = {}
      /\ iter' = iter + 1 /\ counter' = counter + 2
      /\ p1' = p1 \union {<<"slot", counter % Slots>>}
      /\ p0' = p0 \union {<<"slot", (counter + 1) % Slots>>}
      /\ UNCHANGED <<sim, blocked, tableVars>>
  BY DEF Refine
<1>2. CounterInv'
  <2>1. /\ iter \in Nat /\ counter \in Nat /\ iter < MaxIter
        /\ counter <= 2 * Cap + 2 * iter
        /\ IsFiniteSet(blocked) /\ blocked \subseteq Patterns(problem.c)
    BY <1>1, Bounds DEF Inv, CounterInv
  <2> QED
    BY <1>1, <2>1, Bounds DEF CounterInv, Early
<1>3. SampleInv'
  <2>1. PICK q1 \in problem.bad0, q0 \in problem.bad1 :
           /\ counter \in Nat /\ counter + 1 < Slots /\ counter < Slots
           /\ q1 \in Patterns(problem.c) /\ q0 \in Patterns(problem.c)
           /\ slots' = Write(Write(slots, counter, q1), counter + 1, q0)
    BY Refined, Bounds
  <2>2. /\ slots \in [0..(Slots - 1) -> Patterns(problem.c)]
        /\ HoldsIn(p1, problem.bad0, slots, counter, sim)
        /\ HoldsIn(p0, problem.bad1, slots, counter, sim)
    BY DEF Inv, SampleInv, Holds
  <2> DEFINE mid == Write(slots, counter, q1)
  <2>3. /\ mid \in [0..(Slots - 1) -> Patterns(problem.c)]
        /\ HoldsIn(p1', problem.bad0, mid, counter + 1, sim)
        /\ HoldsIn(p0, problem.bad1, mid, counter + 1, sim)
    BY <1>1, <2>1, <2>2, Written
  <2> HIDE DEF mid
  <2>4. /\ slots' = Write(mid, counter + 1, q0) /\ counter + 1 \in Nat
        /\ (counter + 1) + 1 = counter'
    BY <1>1, <2>1 DEF mid
  <2>5. /\ slots' \in [0..(Slots - 1) -> Patterns(problem.c)]
        /\ HoldsIn(p1', problem.bad0, slots', counter', sim)
        /\ HoldsIn(p0', problem.bad1, slots', counter', sim)
    <3>1. HoldsIn(p1', problem.bad0, Write(mid, counter + 1, q0), (counter + 1) + 1, sim)
      BY <2>1, <2>3, <2>4, Written
    <3>2. /\ Write(mid, counter + 1, q0) \in [0..(Slots - 1) -> Patterns(problem.c)]
          /\ HoldsIn(p0 \union {<<"slot", (counter + 1) % Slots>>}, problem.bad1,
                     Write(mid, counter + 1, q0), (counter + 1) + 1, sim)
      BY <2>1, <2>3, <2>4, Written
    <3> QED
      BY <1>1, <2>4, <3>1, <3>2
  <2> QED
    BY <1>1, <2>5 DEF SampleInv, Holds
<1>4. TableInv'
  BY <1>1 DEF Inv, TableInv, Tabling, tableVars
<1> QED
  BY <1>1, <1>2, <1>3, <1>4 DEF Inv, ResultFilled, Stages

-----------------------------------------------------------------------------
(* The truth table.                                                        *)

LEMMA FiniteS == ASSUME Inv PROVE IsFiniteSet(S) /\ Cardinality(S) \in Nat
<1>1. S \in SUBSET Ports(problem) /\ IsFiniteSet(Ports(problem))
  BY PortsTyped DEF Inv, TableInv
<1> QED
  BY <1>1, FS_Subset, FS_CardinalityType

LEMMA SufficientInv == Inv /\ Sufficient => Inv'
<1> SUFFICES ASSUME Inv, Sufficient PROVE Inv'
  OBVIOUS
<1>1. /\ pc = "check" /\ pc' \in {"failed", "tableOnes"} /\ problem' = problem
      /\ \A q1 \in problem.bad0, q0 \in problem.bad1 : ~Agree(q1, q0)
      /\ pc' = "tableOnes" => Cardinality(S) <= MaxSup
      /\ UNCHANGED <<sampleVars, S, iter, tableVars>>
  BY FiniteS, Bounds DEF Sufficient
<1>2. CounterInv'
  BY <1>1, KeepCounter DEF Inv, Early
<1>3. SampleInv'
  BY <1>1, KeepSample DEF Inv, Early
<1>4. TableInv'
  BY <1>1 DEF Inv, TableInv, Tabling, Separated, tableVars, Agree, Ones, Zeros, Cells, Cell
<1> QED
  BY <1>1, <1>2, <1>3, <1>4 DEF Inv, ResultFilled, Stages, sampleVars

(* In the tabling stages only the table changes.                           *)
LEMMA KeepTabling ==
  ASSUME Inv, problem' = problem, UNCHANGED <<sampleVars, S, iter>>,
         pc \in Tabling, pc' \in Tabling
  PROVE  /\ CounterInv' /\ SampleInv'
         /\ problem' \in Problems /\ sim' \in problem'.sims /\ pc' \in Stages
         /\ ResultFilled'
         /\ S' \subseteq Ports(problem)' /\ Separated'
         /\ Ones' = Ones /\ Zeros' = Zeros
<1>1. CounterInv'
  BY KeepCounter DEF Inv, Early, Tabling
<1>2. SampleInv'
  BY KeepSample DEF Inv, Early, Tabling
<1>3. problem' \in Problems /\ sim' \in problem'.sims /\ pc' \in Stages /\ ResultFilled'
  BY DEF Inv, Tabling, Stages, ResultFilled, sampleVars
<1>4. S' \subseteq Ports(problem)'
  BY DEF Inv, TableInv
<1>5. Separated'
  <2>1. Separated
    BY DEF Inv, TableInv
  <2> QED
    BY <2>1 DEF Separated, Agree
<1>6. Ones' = Ones /\ Zeros' = Zeros
  BY DEF Ones, Zeros, Cells
<1> QED
  BY <1>1, <1>2, <1>3, <1>4, <1>5, <1>6

(* There are queries for all cells.                                        *)
LEMMA EnoughQueries ==
  ASSUME Inv, NEW seen, seen \subseteq SUBSET S
  PROVE  ~(Cardinality(seen) >= Queries)
<1>1. IsFiniteSet(SUBSET S) /\ Cardinality(SUBSET S) = 2^Cardinality(S)
  BY FiniteS, FS_SUBSET
<1>2. Cardinality(seen) <= Cardinality(SUBSET S)
      /\ Cardinality(seen) \in Nat /\ Cardinality(SUBSET S) \in Nat
  BY <1>1, FS_Subset, FS_CardinalityType
<1> QED
  BY <1>1, <1>2 DEF Queries

LEMMA CellsAre == Ones \subseteq SUBSET S /\ Zeros \subseteq SUBSET S
BY DEF Ones, Zeros, Cells, Cell

LEMMA TableOneInv == Inv /\ TableOne => Inv'
<1> SUFFICES ASSUME Inv, TableOne PROVE Inv'
  OBVIOUS
<1>1. /\ pc = "tableOnes" /\ pc' = "tableOnes" /\ problem' = problem /\ zero' = zero
      /\ \E q \in problem.bad0 : one' = one \union {Cell(problem, S, q)}
      /\ UNCHANGED <<sampleVars, S, iter>>
  BY DEF TableOne
<1>2. one' \subseteq Ones
  BY <1>1 DEF Inv, TableInv, Ones, Zeros, Cells
<1> QED
  BY <1>1, <1>2, KeepTabling DEF Inv, TableInv, Tabling

LEMMA EndTableOnesInv == Inv /\ EndTableOnes => Inv'
<1> SUFFICES ASSUME Inv, EndTableOnes PROVE Inv'
  OBVIOUS
<1>1. /\ pc = "tableOnes" /\ pc' = "tableZeros" /\ problem' = problem
      /\ \/ Ones \subseteq one
         \/ Cardinality(one) >= Queries
      /\ UNCHANGED <<sampleVars, S, iter, tableVars>>
  BY DEF EndTableOnes, Ones, Cells
<1>2. one \subseteq Ones
  BY DEF Inv, TableInv
<1>3. one = Ones
  BY <1>1, <1>2, CellsAre, EnoughQueries
<1> QED
  BY <1>1, <1>3, KeepTabling DEF Inv, TableInv, Tabling, tableVars

LEMMA TableZeroInv == Inv /\ TableZero => Inv'
<1> SUFFICES ASSUME Inv, TableZero PROVE Inv'
  OBVIOUS
<1>1. PICK q \in problem.bad1 :
        IF Cell(problem, S, q) \in one
        THEN pc' = "violated" /\ UNCHANGED zero
        ELSE zero' = zero \union {Cell(problem, S, q)} /\ UNCHANGED pc
  BY DEF TableZero
<1>2. /\ pc = "tableZeros" /\ problem' = problem /\ one' = one
      /\ UNCHANGED <<sampleVars, S, iter>>
  BY DEF TableZero
<1>3. Cell(problem, S, q) \notin one
  <2>1. \A q1 \in problem.bad0 : Cell(problem, S, q1) # Cell(problem, S, q)
    BY <1>2 DEF Inv, TableInv, Tabling, Separated, Agree
  <2> QED
    BY <2>1 DEF Inv, TableInv, Ones, Zeros, Cells
<1>4. pc' = pc /\ zero' \subseteq Zeros
  BY <1>1, <1>3 DEF Inv, TableInv, Ones, Zeros, Cells
<1> QED
  BY <1>2, <1>4, KeepTabling DEF Inv, TableInv, Tabling

LEMMA EndTableZerosInv == Inv /\ EndTableZeros => Inv'
<1> SUFFICES ASSUME Inv, EndTableZeros PROVE Inv'
  OBVIOUS
<1>1. /\ pc = "tableZeros" /\ pc' = "fill" /\ problem' = problem
      /\ \/ Zeros \subseteq zero
         \/ Cardinality(zero) >= Queries
      /\ UNCHANGED <<sampleVars, S, iter, tableVars>>
  BY DEF EndTableZeros, Zeros, Cells
<1>2. zero \subseteq Zeros
  BY DEF Inv, TableInv
<1>3. zero = Zeros
  BY <1>1, <1>2, CellsAre, EnoughQueries
<1> QED
  BY <1>1, <1>3, KeepTabling DEF Inv, TableInv, Tabling, tableVars

(* f is a function of some of the ports, 1 on the cells on and 0 on the    *)
(* cells off, and has no ports if it is constant.                          *)
FillOf(f, ports, on, off) ==
  /\ f.sup \subseteq ports /\ f.on \subseteq SUBSET f.sup
  /\ \A cell \in on : cell \intersect f.sup \in f.on
  /\ \A cell \in off : cell \intersect f.sup \notin f.on
  /\ IsConstant(f) => f.sup = {}

(* A function that fills the whole table is one of Synthesized: its own    *)
(* ports are a support that will do.                                       *)
LEMMA FillIsSynthesized ==
  ASSUME NEW p \in Problems, NEW s \in SUBSET Ports(p), Cardinality(s) <= MaxSup,
         NEW f, f = [sup |-> f.sup, on |-> f.on],
         FillOf(f, s, {Cell(p, s, q) : q \in p.bad0}, {Cell(p, s, q) : q \in p.bad1}),
         ~(p.bad0 = {} /\ p.bad1 = {})
  PROVE  f \in Synthesized(p.c, p.T, p.cur, p.t, p.tfo, p.bad0, p.bad1, MaxSup)
<1> DEFINE divs == Divisors(p.T, p.cur, p.t, p.tfo, p.c.nets)
           supports == {X \in SUBSET divs : Cardinality(X) <= MaxSup}
           cell(X, q) == {d.port : d \in {e \in X : q \in e.val}}
           ports(X) == {d.port : d \in X}
           ones(X) == {cell(X, q) : q \in p.bad0}
           zeros(X) == {cell(X, q) : q \in p.bad1}
           over(X) == IF ones(X) \intersect zeros(X) # {} THEN {}
                      ELSE {[sup |-> ports(X), on |-> ones(X) \union dc] :
                              dc \in SUBSET ((SUBSET ports(X)) \ (ones(X) \union zeros(X)))}
           D == {[port |-> d, val |-> DivVal(p, d)] : d \in f.sup}
<1>1. f.sup \subseteq s /\ f.sup \subseteq Ports(p) /\ f.on \subseteq SUBSET f.sup
      /\ (IsConstant(f) => f.sup = {})
  BY DEF FillOf
<1>2. D \in supports
  <2>1. D \subseteq divs
    BY <1>1, PortsDivide
  <2>2. IsFiniteSet(s) /\ IsFiniteSet(f.sup) /\ Cardinality(f.sup) <= Cardinality(s)
        /\ Cardinality(s) \in Nat /\ Cardinality(f.sup) \in Nat
    BY <1>1, PortsTyped, FS_Subset, FS_CardinalityType
  <2> DEFINE g == [d \in f.sup |-> [port |-> d, val |-> DivVal(p, d)]]
  <2>3. g \in Surjection(f.sup, D)
    BY DEF Surjection
  <2>4. IsFiniteSet(D) /\ Cardinality(D) <= Cardinality(f.sup)
    BY <2>2, <2>3, FS_Surjection
  <2> QED
    BY <2>1, <2>2, <2>4, FS_CardinalityType, Bounds
<1>3. \A d \in f.sup : \E e \in D : e.port = d /\ e.val = DivVal(p, d)
  <2> TAKE d \in f.sup
  <2> DEFINE e == [port |-> d, val |-> DivVal(p, d)]
  <2>1. e \in D
    OBVIOUS
  <2>2. e.port = d /\ e.val = DivVal(p, d)
    OBVIOUS
  <2> QED
    BY <2>1, <2>2
<1>4. \A e \in D : e.port \in f.sup /\ e.val = DivVal(p, e.port)
  <2> TAKE e \in D
  <2>1. PICK d \in f.sup : e = [port |-> d, val |-> DivVal(p, d)]
    OBVIOUS
  <2>2. e.port = d /\ e.val = DivVal(p, d)
    BY <2>1
  <2> QED
    BY <2>2
<1> HIDE DEF D
<1>5. ports(D) = f.sup
  BY <1>3, <1>4
<1>6. ASSUME NEW q PROVE cell(D, q) = Cell(p, s, q) \intersect f.sup
  <2>1. cell(D, q) = {d \in f.sup : q \in DivVal(p, d)}
    BY <1>3, <1>4
  <2> QED
    BY <1>1, <2>1 DEF Cell
<1>7. ones(D) \subseteq f.on /\ zeros(D) \intersect f.on = {}
  BY <1>6 DEF FillOf
<1>8. f \in over(D)
  <2> DEFINE dc == f.on \ ones(D)
  <2>1. dc \in SUBSET ((SUBSET ports(D)) \ (ones(D) \union zeros(D)))
    BY <1>1, <1>5, <1>7
  <2>2. f = [sup |-> ports(D), on |-> ones(D) \union dc]
    BY <1>5, <1>7
  <2> QED
    BY <1>7, <2>1, <2>2
<1>9. f \in UNION {over(X) : X \in supports}
  <2> HIDE DEF over, supports
  <2> QED
    BY <1>2, <1>8
<1>10. f \in {g \in UNION {over(X) : X \in supports} : IsConstant(g) => g.sup = {}}
  BY <1>1, <1>9
<1> QED
  BY <1>10, Zenon DEF Synthesized

LEMMA FillInv == Inv /\ Fill => Inv'
<1> SUFFICES ASSUME Inv, Fill PROVE Inv'
  OBVIOUS
<1>1. /\ pc = "fill" /\ pc' = "done" /\ problem' = problem
      /\ result' \in Filled(S, one, zero)
      /\ UNCHANGED <<sampleVars, S, iter, one, zero>>
  BY DEF Fill
<1>2. CounterInv'
  BY <1>1, KeepCounter DEF Inv, Early
<1>3. SampleInv'
  BY <1>1, KeepSample DEF Inv, Early
<1>4. TableInv'
  BY <1>1 DEF Inv, TableInv, Tabling, Separated, Agree, Ones, Zeros, Cells, Cell
<1>5. ResultFilled'
  BY <1>1 DEF ResultFilled
<1> QED
  BY <1>1, <1>2, <1>3, <1>4, <1>5 DEF Inv, Stages, sampleVars

(* In the end: a table of bad0 and bad1 over ports that tell them apart,   *)
(* and a function that fills it.                                           *)
LEMMA AtTheEnd ==
  ASSUME Inv, pc = "done"
  PROVE  /\ problem \in Problems /\ S \in SUBSET Ports(problem)
         /\ IsFiniteSet(S) /\ Cardinality(S) <= MaxSup
         /\ IsTable(S, Ones, Zeros) /\ result \in Filled(S, Ones, Zeros)
         /\ ~(problem.bad0 = {} /\ problem.bad1 = {})
<1>1. /\ problem \in Problems /\ S \in SUBSET Ports(problem) /\ Cardinality(S) <= MaxSup
      /\ one = Ones /\ zero = Zeros /\ result \in Filled(S, one, zero)
      /\ \A q1 \in problem.bad0, q0 \in problem.bad1 : ~Agree(q1, q0)
  BY DEF Inv, TableInv, Separated, ResultFilled
<1>2. IsFiniteSet(S) /\ S \subseteq Int
  <2>1. /\ Ports(problem) \subseteq problem.c.nets \union {-problem.t}
        /\ problem.t \in Nat \ {0} /\ problem.c.nets \subseteq Nat \ {0}
    BY <1>1, PortsTyped
  <2>2. Ports(problem) \subseteq Int
    BY <2>1
  <2> QED
    BY <1>1, <2>2, FiniteS
<1>3. Ones \in SUBSET SUBSET S /\ Zeros \in SUBSET SUBSET S
  BY CellsAre
<1>4. Ones \intersect Zeros = {}
  BY <1>1 DEF Ones, Zeros, Cells, Agree
<1>5. ~(problem.bad0 = {} /\ problem.bad1 = {})
  BY DEF Inv, SampleInv, Holds, HoldsIn, Early
<1> QED
  BY <1>1, <1>2, <1>3, <1>4, <1>5 DEF IsTable

-----------------------------------------------------------------------------
(* Theorems.                                                               *)

LEMMA StutterInv == Inv /\ UNCHANGED vars => Inv'
<1> SUFFICES ASSUME Inv, UNCHANGED vars PROVE Inv'
  OBVIOUS
<1> USE DEF vars, sampleVars, tableVars
<1>1. CounterInv'
  BY DEF Inv, CounterInv, Early
<1>2. SampleInv'
  BY DEF Inv, SampleInv, Early, Holds, HoldsIn, Open, Tells, PatternAt
<1>3. TableInv'
  BY DEF Inv, TableInv, Tabling, Separated, Agree, Ones, Zeros, Cells, Cell
<1> QED
  BY <1>1, <1>2, <1>3 DEF Inv, ResultFilled

(* The invariant of synthesize: how many slots are used, that the sample   *)
(* holds care patterns, and that the table is that of bad0 and bad1 over   *)
(* ports which tell them apart, which the result fills.                    *)
THEOREM InvHolds == Spec => []Inv
<1>1. Inv /\ [Next]_vars => Inv'
  BY EnumerateOneInv, EndOnesInv, EnumerateZeroInv, EndZerosInv, ScanInv, PickInv,
     InseparableInv, CoveredInv, RefineInv, SufficientInv, TableOneInv,
     EndTableOnesInv, TableZeroInv, EndTableZerosInv, FillInv, StutterInv
     DEF Next, Ended
<1> QED
  BY InitInv, <1>1, PTL DEF Spec

(* All ports, cells, places and counters stay in range: no slot is written *)
(* that does not exist and no refinement is made above their limit.        *)
THEOREM TypeCorrect == Spec => []TypeOK
<1>1. Inv => TypeOK
  <2> SUFFICES ASSUME Inv PROVE TypeOK
    OBVIOUS
  <2>1. /\ problem \in Problems /\ S \subseteq Ports(problem) /\ sim \subseteq Patterns(problem.c)
        /\ blocked \subseteq Patterns(problem.c) /\ iter \in 0..MaxIter
        /\ slots \in [0..(Slots - 1) -> Patterns(problem.c)]
    BY OfProblem DEF Inv, TableInv, CounterInv, SampleInv
  <2>2. counter \in 0..Slots
    <3>1. counter \in Nat /\ iter \in Nat /\ iter <= MaxIter /\ Cardinality(blocked) \in Nat
      BY Bounds, FS_CardinalityType DEF Inv, CounterInv
    <3>2. counter <= 2 * Cap + 2 * iter
      BY <3>1, Bounds DEF Inv, CounterInv
    <3> QED
      BY <3>1, <3>2, Bounds
  <2>3. p1 \union p0 \subseteq ({"slot"} \X (0..(Slots - 1))) \union ({"sim"} \X sim)
    <3>1. 0..(counter - 1) \subseteq 0..(Slots - 1)
      BY <2>2, Bounds
    <3> QED
      BY <3>1 DEF Inv, SampleInv, Holds, HoldsIn
  <2>4. one \subseteq SUBSET S /\ zero \subseteq SUBSET S
    BY CellsAre DEF Inv, TableInv
  <2> QED
    BY <2>1, <2>2, <2>3, <2>4 DEF Inv, Stages, TypeOK
<1> QED
  BY InvHolds, <1>1, PTL

(* The spare words are enough: no pattern of the sample is overwritten.    *)
THEOREM CareIsKept == Spec => []CareKept
<1>1. Inv => CareKept
  BY DEF Inv, SampleInv, Holds, HoldsIn, CareKept, PatternAt
<1> QED
  BY InvHolds, <1>1, PTL

(* The table never asks for a cell to be both 1 and 0, and every result is *)
(* a function of few divisors that is right on all care patterns, not on   *)
(* the sampled ones only, whichever of the four ways of filling the table  *)
(* was the cheapest.                                                       *)
THEOREM ResultsRight == Spec => []ResultRight
<1>1. Inv => ResultRight
  <2> SUFFICES ASSUME Inv, pc = "done"
               PROVE  /\ result.sup \subseteq Ports(problem) /\ Cardinality(result.sup) <= MaxSup
                      /\ result.on \subseteq SUBSET result.sup
                      /\ \A q \in problem.bad0 : Cell(problem, result.sup, q) \in result.on
                      /\ \A q \in problem.bad1 : Cell(problem, result.sup, q) \notin result.on
    BY DEF ResultRight, Inv, Stages
  <2>1. /\ problem \in Problems /\ S \in SUBSET Ports(problem)
        /\ IsFiniteSet(S) /\ Cardinality(S) <= MaxSup
        /\ IsTable(S, Ones, Zeros) /\ result \in Filled(S, Ones, Zeros)
    BY AtTheEnd
  <2>2. /\ result.sup \subseteq S /\ result.on \subseteq SUBSET result.sup
        /\ \A x \in Ones : x \intersect result.sup \in result.on
        /\ \A x \in Zeros : x \intersect result.sup \notin result.on
    BY ONLY <2>1, FilledRight
  <2>3. Cardinality(result.sup) <= MaxSup
    <3>1. /\ Cardinality(result.sup) <= Cardinality(S) /\ IsFiniteSet(result.sup)
      BY <2>1, <2>2, FS_Subset
    <3>2. Cardinality(result.sup) \in Nat /\ Cardinality(S) \in Nat /\ MaxSup \in Nat
      BY <2>1, <3>1, FS_CardinalityType, Bounds
    <3> QED
      BY <2>1, <3>1, <3>2
  <2>4. ASSUME NEW q
        PROVE  Cell(problem, result.sup, q) = Cell(problem, S, q) \intersect result.sup
    BY <2>2 DEF Cell
  <2>5. /\ \A q \in problem.bad0 : Cell(problem, S, q) \in Ones
        /\ \A q \in problem.bad1 : Cell(problem, S, q) \in Zeros
    BY DEF Ones, Zeros, Cells
  <2> QED
    BY <2>1, <2>2, <2>3, <2>4, <2>5
<1> QED
  BY InvHolds, <1>1, PTL

(* Only functions come out that the Rectifier module reckons with: over    *)
(* the divisors that it would take itself, 1 on all of bad0 and 0 on all   *)
(* of bad1, and without ports when they are constant.                      *)
ResultAllowed ==
  pc = "done" =>
    result \in Synthesized(problem.c, problem.T, problem.cur, problem.t,
                           problem.tfo, problem.bad0, problem.bad1, MaxSup)

(* What synthesize returns, whichever way of filling the table was the     *)
(* cheapest, is one of the functions that Rectifier.tla chooses from       *)
(* (the end of synthesize, rectify.hpp:822).                               *)
THEOREM ResultsAllowed == Spec => []ResultAllowed
<1>1. Inv => ResultAllowed
  <2> SUFFICES ASSUME Inv, pc = "done"
               PROVE  result \in Synthesized(problem.c, problem.T, problem.cur, problem.t,
                                            problem.tfo, problem.bad0, problem.bad1, MaxSup)
    BY DEF ResultAllowed
  <2>1. /\ problem \in Problems /\ S \in SUBSET Ports(problem) /\ Cardinality(S) <= MaxSup
        /\ IsTable(S, Ones, Zeros) /\ result \in Filled(S, Ones, Zeros)
        /\ ~(problem.bad0 = {} /\ problem.bad1 = {})
    BY AtTheEnd
  <2>2. /\ result.sup \subseteq S /\ result.on \subseteq SUBSET result.sup
        /\ \A x \in Ones : x \intersect result.sup \in result.on
        /\ \A x \in Zeros : x \intersect result.sup \notin result.on
    BY ONLY <2>1, FilledRight
  <2>3. IsConstant(result) => result.sup = {}
    <3>1. PICK s \in Orders(S) : result = FnOf(Cheapest(Forms(s, Ones, Zeros)))
      BY <2>1 DEF Filled
    <3>2. PICK i \in 1 .. 4 : Cheapest(Forms(s, Ones, Zeros)) = Forms(s, Ones, Zeros)[i]
      BY ONLY <2>1, <3>1, FilledForm
    <3>. QED BY ONLY <2>1, <3>1, <3>2, FormsPlain
  <2>4. result = [sup |-> result.sup, on |-> result.on]
    <3>1. PICK l : result = FnOf(l)
      BY <2>1 DEF Filled
    <3>2. PICK a, b : result = [sup |-> a, on |-> b]
      BY <3>1 DEF FnOf
    <3> QED
      BY <3>2
  <2>5. FillOf(result, S, Ones, Zeros)
    BY <2>2, <2>3 DEF FillOf
  <2> QED
    BY <2>1, <2>4, <2>5, FillIsSynthesized DEF Ones, Zeros, Cells
<1> QED
  BY InvHolds, <1>1, PTL

(* A refinement adds a pair that was not in the sample.                    *)
THEOREM RefinementLearns == Spec => Learns
<1> DEFINE Step == iter' > iter =>
                     \A e \in p1 \X p0 :
                       <<PatternAt(e[1]), PatternAt(e[2])>>
                         # <<slots'[counter % Slots], slots'[(counter + 1) % Slots]>>
<1>1. Inv /\ [Next]_vars => [Step]_vars
  <2> SUFFICES ASSUME Inv, [Next]_vars, iter' > iter PROVE Step
    OBVIOUS
  <2>1. iter' # iter
    BY Bounds DEF Inv, CounterInv
  <2>2. Refine
    BY <2>1 DEF Next, vars, EnumerateOne, EndOnes, EnumerateZero, EndZeros, Scan, Pick,
                Inseparable, Covered, Sufficient, NoAnswer, TableOne, EndTableOnes,
                TableZero, EndTableZeros, Fill, Ended
  <2>3. PICK q1 \in problem.bad0, q0 \in problem.bad1 :
           /\ Agree(q1, q0)
           /\ counter \in Nat /\ counter + 1 < Slots
           /\ q1 \in Patterns(problem.c) /\ q0 \in Patterns(problem.c)
           /\ slots' = Write(Write(slots, counter, q1), counter + 1, q0)
    BY <2>2, Refined
  <2>4. slots'[counter % Slots] = q1 /\ slots'[(counter + 1) % Slots] = q0
    <3>1. /\ counter % Slots = counter /\ (counter + 1) % Slots = counter + 1
          /\ counter \in 0..(Slots - 1) /\ counter + 1 \in 0..(Slots - 1)
      BY <2>3, Bounds
    <3>2. slots \in [0..(Slots - 1) -> Patterns(problem.c)]
      BY DEF Inv, SampleInv
    <3> QED
      BY <2>3, <3>1, <3>2 DEF Write
  <2>5. SUFFICES ASSUME NEW e \in p1 \X p0,
                        PatternAt(e[1]) = q1, PatternAt(e[2]) = q0
                 PROVE  FALSE
    BY <2>4
  <2>6. PICK d \in S : e \in Tells(d)
    BY <2>2 DEF Inv, SampleInv, Refine, Open
  <2>7. (q1 \in DivVal(problem, d)) # (q0 \in DivVal(problem, d))
    BY <2>5, <2>6 DEF Tells
  <2> QED
    BY <2>3, <2>7 DEF Agree, Cell
<1> QED
  BY InvHolds, <1>1, PTL DEF Spec, Learns
=============================================================================
