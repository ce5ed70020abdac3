----------------------------- MODULE SweepProofs -----------------------------
(***************************************************************************)
(* The union-find implements Classes and keeps values, for all graphs; and *)
(* the equivalence sweep, for all graphs, any number of patterns, rounds   *)
(* and counterexample slots, and whatever the hash of the words, keeps the *)
(* classes sound, never asks the solver again for a pair it refuted, names *)
(* every class by its first node, and finds all equal nodes unless it met  *)
(* a limit.                                                                *)
(*                                                                         *)
(* What find returns is defined by recursion along the parents, which are  *)
(* never above their children: facts about it are proved for the smallest  *)
(* node that would violate them.                                           *)
(***************************************************************************)
EXTENDS Sweep, CircuitProofs

-----------------------------------------------------------------------------
(* The union-find.                                                         *)

(* The fields of a literal, and what the two complementations do.          *)
LEMMA LitFields ==
  ASSUME NEW v, NEW neg
  PROVE  Lit(v, neg).var = v /\ Lit(v, neg).neg = neg
BY DEF Lit

LEMMA FlipLit ==
  ASSUME NEW l, NEW ph
  PROVE  Flip(l, ph) = Lit(l.var, IF ph = 0 THEN l.neg ELSE 1 - l.neg)
BY DEF Flip

LEMMA FlipFlip ==
  ASSUME NEW l, NEW a \in {0, 1}, NEW b \in {0, 1}, l.neg \in {0, 1}
  PROVE  Flip(Flip(l, a), b) = Flip(l, IF b = 0 THEN a ELSE 1 - a)
BY FlipLit, LitFields

(* Parents that find can follow.                                           *)
Below(par, n) ==
  /\ n \in Nat
  /\ DOMAIN par = 0 .. n
  /\ \A v \in 0 .. n :
       /\ par[v] = Lit(par[v].var, par[v].neg)
       /\ par[v].var \in 0 .. v /\ par[v].neg \in {0, 1}
       /\ par[v].var = v => par[v].neg = 0

(* f is what find computes up to node k.                                   *)
Finds(par, f, k) ==
  \A v \in 0 .. k :
    f[v] = IF par[v].var = v THEN Lit(v, 0) ELSE Flip(f[par[v].var], par[v].neg)

-----------------------------------------------------------------------------
(* Canon is a solution of its recursion.                                   *)
LEMMA CanonFinds ==
  ASSUME NEW par, NEW n, Below(par, n)
  PROVE  /\ Canon(par) = [v \in 0 .. n |-> Canon(par)[v]]
         /\ Finds(par, Canon(par), n)
<1>. DEFINE D == 0 .. n
            V == [var : 0 .. n, neg : {0, 1}]
            val(f, v) == IF par[v].var = v THEN Lit(v, 0)
                         ELSE Flip(f[par[v].var], par[v].neg)
            H == [v \in D |-> [f \in [D -> V] |-> val(f, v)]]
            C == CHOOSE c : c = [v \in DOMAIN par |-> val(c, v)]
<1>1. n \in Nat /\ DOMAIN par = 0 .. n
  BY DEF Below
<1>2. \A v \in D : par[v].var \in D /\ par[v].neg \in {0, 1} /\ (par[v].var < v \/ par[v].var = v)
  BY <1>1 DEF Below
<1>. DEFINE N == n + 1
<1>3. Recursive(H, D, V, N)
  <2>1. ASSUME NEW v \in D, NEW f \in [D -> V] PROVE val(f, v) \in V
    <3>1. \A u \in D : f[u].var \in 0 .. n /\ f[u].neg \in {0, 1}
      OBVIOUS
    <3>2. \A w \in 0 .. n, k \in {0, 1} : Lit(w, k) \in V
      BY DEF Lit
    <3>. HIDE DEF V
    <3>3. Flip(f[par[v].var], par[v].neg) \in V
      BY <1>2, <3>1, <3>2, FlipLit
    <3>. QED BY <3>2, <3>3
  <2>2. ASSUME NEW v \in D, NEW f \in [D -> V], NEW g \in [D -> V],
               \A u \in D : u < v => f[u] = g[u]
        PROVE  val(f, v) = val(g, v)
    <3>. HIDE DEF V
    <3>. QED BY <1>2, <2>2
  <2>3. D \subseteq Nat /\ (\A v \in D : v < N) /\ N \in Nat
    BY <1>1
  <2>4. [var |-> 0, neg |-> 0] \in V
    BY <1>1
  <2>. HIDE DEF val, V, D
  <2>. QED BY <2>1, <2>2, <2>3, <2>4 DEF Recursive
<1>4. PICK f \in [D -> V] : \A v \in D : f[v] = H[v][f]
  <2>. HIDE DEF D, V, H, N
  <2>. QED BY <1>3, RecursionSolved
<1>5. f = [v \in DOMAIN par |-> val(f, v)]
  <2>1. \A v \in D : f[v] = val(f, v)
    <3>. HIDE DEF val, V, D
    <3>. QED BY <1>4
  <2>. HIDE DEF val, V
  <2>. QED BY <1>1, <2>1
<1>6. C = [v \in DOMAIN par |-> val(C, v)]
  <2>. HIDE DEF val
  <2>. QED BY <1>5
<1>7. C = Canon(par)
  BY DEF Canon
<1>. QED BY <1>1, <1>6, <1>7 DEF Finds

(* What find computes: a literal of a root that is not above the node.     *)
LEMMA CanonType ==
  ASSUME NEW par, NEW n, Below(par, n), NEW v \in 0 .. n
  PROVE  LET c == Canon(par)[v] IN
         /\ c = Lit(c.var, c.neg) /\ c.var \in 0 .. v /\ c.neg \in {0, 1}
         /\ par[c.var] = Lit(c.var, 0) /\ Canon(par)[c.var] = Lit(c.var, 0)
<1>. DEFINE C == Canon(par)
            P(u) == /\ C[u] = Lit(C[u].var, C[u].neg)
                    /\ C[u].var \in 0 .. u /\ C[u].neg \in {0, 1}
                    /\ par[C[u].var] = Lit(C[u].var, 0)
                    /\ C[C[u].var] = Lit(C[u].var, 0)
            T == {u \in 0 .. n : ~P(u)}
<1>. SUFFICES ASSUME T # {} PROVE FALSE
  OBVIOUS
<1>. n \in Nat BY DEF Below
<1>1. PICK m \in T : \A j \in T : m <= j
  <2>1. T \subseteq Nat OBVIOUS
  <2>. HIDE DEF T
  <2>. QED BY <2>1, Smallest
<1>2. m \in 0 .. n /\ ~P(m) /\ n \in Nat
  OBVIOUS
<1>3. \A u \in 0 .. n : C[u] = IF par[u].var = u THEN Lit(u, 0)
                               ELSE Flip(C[par[u].var], par[u].neg)
  BY CanonFinds DEF Finds
<1>. DEFINE w == par[m].var
<1>. HIDE DEF C, P, T
<1>4. /\ w \in 0 .. m /\ w \in 0 .. n /\ par[m].neg \in {0, 1}
      /\ w = m => par[m] = Lit(m, 0)
  <2>1. /\ par[m] = Lit(w, par[m].neg) /\ w \in 0 .. m /\ par[m].neg \in {0, 1}
        /\ w = m => par[m].neg = 0
    BY <1>2 DEF Below
  <2>. HIDE DEF w
  <2>2. w \in 0 .. n
    BY <1>2, <2>1
  <2>. QED BY <2>1, <2>2
<1>5. CASE w = m
  <2>1. C[m] = Lit(m, 0)
    BY <1>2, <1>3, <1>5
  <2>2. C[m].var = m /\ C[m].neg = 0
    BY <2>1, LitFields
  <2>3. P(m)
    BY <1>2, <1>4, <1>5, <2>1, <2>2 DEF P
  <2>. QED BY <1>2, <2>3
<1>6. CASE w # m
  <2>1. w < m
    BY <1>2, <1>4, <1>6
  <2>2. P(w)
    BY <1>1, <1>2, <1>4, <2>1 DEF T
  <2>3. /\ C[w].var \in 0 .. w /\ C[w].neg \in {0, 1}
        /\ par[C[w].var] = Lit(C[w].var, 0) /\ C[C[w].var] = Lit(C[w].var, 0)
    BY <2>2 DEF P
  <2>. DEFINE k == IF par[m].neg = 0 THEN C[w].neg ELSE 1 - C[w].neg
  <2>4. C[m] = Lit(C[w].var, k)
    BY <1>2, <1>3, <1>6, FlipLit
  <2>5. k \in {0, 1}
    BY <2>3
  <2>. HIDE DEF k
  <2>6. C[m].var = C[w].var /\ C[m].neg = k
    BY <2>4, LitFields
  <2>7. C[w].var \in 0 .. m
    BY <1>2, <1>4, <2>3
  <2>8. P(m)
    BY <2>3, <2>4, <2>5, <2>6, <2>7 DEF P
  <2>. QED BY <1>2, <2>8
<1>. QED BY <1>5, <1>6

(* It is the only solution.                                                *)
LEMMA CanonUnique ==
  ASSUME NEW par, NEW n, Below(par, n),
         NEW f, f = [v \in 0 .. n |-> f[v]], Finds(par, f, n)
  PROVE  Canon(par) = f
<1>. DEFINE C == Canon(par)
            T == {u \in 0 .. n : C[u] # f[u]}
<1>. n \in Nat BY DEF Below
<1>1. C = [v \in 0 .. n |-> C[v]] /\ Finds(par, C, n)
  BY CanonFinds
<1>. HIDE DEF C
<1>2. SUFFICES ASSUME T # {} PROVE FALSE
  BY <1>1 DEF C
<1>3. PICK m \in T : \A j \in T : m <= j
  <2>1. T \subseteq Nat OBVIOUS
  <2>. HIDE DEF T
  <2>. QED BY <1>2, <2>1, Smallest
<1>4. m \in 0 .. n /\ C[m] # f[m]
  OBVIOUS
<1>5. par[m].var \in 0 .. m
  BY <1>4 DEF Below
<1>6. par[m].var # m
  BY <1>1, <1>4 DEF Finds
<1>7. par[m].var \in 0 .. n /\ C[par[m].var] = f[par[m].var]
  BY <1>3, <1>4, <1>5, <1>6
<1>. QED BY <1>1, <1>4, <1>6, <1>7 DEF Finds

-----------------------------------------------------------------------------
(* Path compression changes nothing that find returns, whichever nodes it  *)
(* hangs below their roots.                                                *)
LEMMA CompressedCanon ==
  ASSUME NEW par, NEW n, Below(par, n), NEW v
  PROVE  /\ Below(Compressed(par, v), n)
         /\ Canon(Compressed(par, v)) = Canon(par)
<1>. DEFINE C == Canon(par)
            S == Path(par, v)
            new == Compressed(par, v)
<1>1. new = [u \in 0 .. n |-> IF u \in S THEN C[u] ELSE par[u]]
  BY DEF Compressed, Below
<1>2. /\ C = [u \in 0 .. n |-> C[u]]
      /\ \A u \in 0 .. n : C[u] = IF par[u].var = u THEN Lit(u, 0)
                                  ELSE Flip(C[par[u].var], par[u].neg)
  BY CanonFinds DEF Finds
<1>3. \A u \in 0 .. n :
        /\ C[u] = Lit(C[u].var, C[u].neg) /\ C[u].var \in 0 .. u /\ C[u].neg \in {0, 1}
        /\ par[C[u].var] = Lit(C[u].var, 0) /\ C[C[u].var] = Lit(C[u].var, 0)
  BY CanonType
<1>4. n \in Nat /\ \A u \in 0 .. n :
        /\ par[u] = Lit(par[u].var, par[u].neg)
        /\ par[u].var \in 0 .. u /\ par[u].neg \in {0, 1}
        /\ par[u].var = u => par[u].neg = 0
  BY DEF Below
<1>. HIDE DEF C, S, new
<1>5. ASSUME NEW u \in 0 .. n, C[u].var = u PROVE C[u] = Lit(u, 0) /\ par[u].var = u
  BY <1>3, <1>5, LitFields
<1>6. Below(new, n)
  BY <1>1, <1>3, <1>4, <1>5, LitFields DEF Below
<1>7. ASSUME NEW u \in 0 .. n
      PROVE  C[u] = IF new[u].var = u THEN Lit(u, 0)
                    ELSE Flip(C[new[u].var], new[u].neg)
  <2>1. CASE u \notin S
    BY <1>1, <1>2, <2>1
  <2>2. CASE u \in S /\ C[u].var = u
    BY <1>1, <1>5, <2>2
  <2>3. CASE u \in S /\ C[u].var # u
    <3>1. new[u] = C[u]
      BY <1>1, <2>3
    <3>2. Flip(C[C[u].var], C[u].neg) = Lit(C[u].var, C[u].neg)
      BY <1>3, FlipLit, LitFields
    <3>. QED BY <1>3, <2>3, <3>1, <3>2
  <2>. QED BY <2>1, <2>2, <2>3
<1>8. Finds(new, C, n)
  BY <1>7 DEF Finds
<1>9. Canon(new) = C
  BY <1>2, <1>6, <1>8, CanonUnique
<1>. QED BY <1>6, <1>9 DEF C, new

-----------------------------------------------------------------------------
(* The class of r joins that of x: what becomes of the canonical literals. *)
JoinedUnder(can, x, r) ==
  [u \in DOMAIN can |-> IF can[u].var = r THEN Flip(x, can[u].neg) ELSE can[u]]

HungBelow(par, p, r, k) == [par EXCEPT ![r] = Lit(p, k)]

(* The root r hung below a literal of another root.                        *)
LEMMA HungCanon ==
  ASSUME NEW par, NEW n, Below(par, n), NEW r \in 0 .. n, par[r] = Lit(r, 0),
         NEW p \in 0 .. n, NEW k \in {0, 1}, p < r, par[p] = Lit(p, 0)
  PROVE  /\ Below(HungBelow(par, p, r, k), n)
         /\ Canon(HungBelow(par, p, r, k)) = JoinedUnder(Canon(par), Lit(p, k), r)
<1>. DEFINE new == HungBelow(par, p, r, k)
            C == Canon(par)
            f == JoinedUnder(C, Lit(p, k), r)
<1>1. n \in Nat /\ DOMAIN par = 0 .. n
  BY DEF Below
<1>2. /\ DOMAIN new = 0 .. n /\ new[r] = Lit(p, k)
      /\ \A u \in 0 .. n : u # r => new[u] = par[u]
  BY <1>1 DEF HungBelow
<1>. HIDE DEF new
<1>3. new[r].var = p /\ new[r].neg = k /\ par[r].var = r /\ par[p].var = p
  BY <1>2, LitFields
<1>4. Below(new, n)
  <2>1. ASSUME NEW u \in 0 .. n
        PROVE  /\ new[u] = Lit(new[u].var, new[u].neg)
               /\ new[u].var \in 0 .. u /\ new[u].neg \in {0, 1}
               /\ new[u].var = u => new[u].neg = 0
    <3>1. CASE u = r
      BY <1>1, <1>2, <1>3, <3>1
    <3>2. CASE u # r
      BY <1>2, <3>2 DEF Below
    <3>. QED BY <3>1, <3>2
  <2>. QED BY <1>1, <1>2, <2>1 DEF Below
<1>5. \A u \in 0 .. n : C[u] = IF par[u].var = u THEN Lit(u, 0)
                               ELSE Flip(C[par[u].var], par[u].neg)
  BY CanonFinds DEF Finds
<1>6. \A u \in 0 .. n : C[u].neg \in {0, 1} /\ par[u].var \in 0 .. u /\ par[u].neg \in {0, 1}
  BY CanonType DEF Below
<1>. HIDE DEF C
<1>7. DOMAIN C = 0 .. n
  BY CanonFinds DEF C
<1>8. /\ f = [u \in 0 .. n |-> f[u]]
      /\ \A u \in 0 .. n : f[u] = IF C[u].var = r THEN Flip(Lit(p, k), C[u].neg) ELSE C[u]
  BY <1>7 DEF JoinedUnder
<1>. HIDE DEF f
<1>9. C[p] = Lit(p, 0) /\ C[r] = Lit(r, 0)
  BY <1>3, <1>5
<1>10. C[p].var = p /\ C[r].var = r /\ C[r].neg = 0
  BY <1>9, LitFields
<1>11. f[p] = Lit(p, 0) /\ f[r] = Lit(p, k)
  <2>1. f[p] = Lit(p, 0)
    BY <1>8, <1>9, <1>10
  <2>2. f[r] = Flip(Lit(p, k), 0)
    BY <1>8, <1>10
  <2>. QED BY <2>1, <2>2, FlipLit, LitFields
<1>12. ASSUME NEW u \in 0 .. n
       PROVE  f[u] = IF new[u].var = u THEN Lit(u, 0) ELSE Flip(f[new[u].var], new[u].neg)
  <2>1. CASE u = r
    <3>1. Flip(f[p], k) = Lit(p, k)
      BY <1>11, FlipLit, LitFields
    <3>. QED BY <1>3, <1>11, <2>1, <3>1
  <2>2. CASE u # r /\ par[u].var = u
    <3>1. C[u] = Lit(u, 0) /\ C[u].var = u
      BY <1>5, <2>2, LitFields
    <3>. QED BY <1>2, <1>8, <2>2, <3>1
  <2>3. CASE u # r /\ par[u].var # u
    <3>. DEFINE q == par[u].var
                ph == par[u].neg
    <3>1. q \in 0 .. n /\ ph \in {0, 1}
      <4>1. q \in 0 .. u /\ ph \in {0, 1}
        BY <1>6
      <4>. HIDE DEF q, ph
      <4>. QED BY <1>1, <4>1
    <3>2. new[u].var = q /\ new[u].neg = ph /\ C[u] = Flip(C[q], ph) /\ new[u].var # u
      BY <1>2, <1>5, <2>3
    <3>. HIDE DEF q, ph
    <3>3. C[u].var = C[q].var /\ C[u].neg = IF ph = 0 THEN C[q].neg ELSE 1 - C[q].neg
      BY <3>2, FlipLit, LitFields
    <3>4. CASE C[q].var = r
      <4>1. Lit(p, k).neg \in {0, 1} /\ C[q].neg \in {0, 1}
        BY <1>6, <3>1, LitFields
      <4>2. Flip(Flip(Lit(p, k), C[q].neg), ph) = Flip(Lit(p, k), C[u].neg)
        BY <3>1, <3>3, <4>1, FlipFlip
      <4>. QED BY <1>8, <3>1, <3>2, <3>3, <3>4, <4>2
    <3>5. CASE C[q].var # r
      BY <1>8, <3>1, <3>2, <3>3, <3>5
    <3>. QED BY <3>4, <3>5
  <2>. QED BY <2>1, <2>2, <2>3
<1>13. Finds(new, f, n)
  BY <1>12 DEF Finds
<1>14. Canon(new) = f
  BY <1>4, <1>8, <1>13, CanonUnique
<1>. QED BY <1>4, <1>14 DEF f, C, new

(* What find returns for any literal is a literal of a root.               *)
LEMMA FindType ==
  ASSUME NEW par, NEW n, Below(par, n), NEW v \in 0 .. n, NEW ph \in {0, 1}
  PROVE  LET a == Find(par, Lit(v, ph)) IN
         /\ a = Lit(a.var, a.neg) /\ a.var = Canon(par)[v].var /\ a.var \in 0 .. n
         /\ a.neg \in {0, 1} /\ par[a.var] = Lit(a.var, 0)
         /\ a = Flip(Canon(par)[v], ph)
<1>. DEFINE c == Canon(par)[v]
            a == Find(par, Lit(v, ph))
<1>1. /\ c.var \in 0 .. v /\ c.neg \in {0, 1} /\ par[c.var] = Lit(c.var, 0)
      /\ n \in Nat
  BY CanonType DEF Below
<1>2. a = Flip(c, ph)
  BY LitFields DEF Find
<1>. HIDE DEF a, c
<1>3. a.var = c.var /\ a.neg \in {0, 1} /\ a = Lit(a.var, a.neg)
  BY <1>1, <1>2, FlipLit, LitFields
<1>4. a.var \in 0 .. n
  BY <1>1, <1>3
<1>. QED BY <1>1, <1>2, <1>3, <1>4 DEF a, c

(* merge joins the classes of two literals, the larger root below the      *)
(* other, or does nothing when they are in one class.                      *)
LEMMA MergedCanon ==
  ASSUME NEW par, NEW n, Below(par, n), NEW v \in 0 .. n, NEW w \in 0 .. n,
         NEW ph \in {0, 1}
  PROVE  LET new == Merged(par, Lit(v, 0), Lit(w, ph))
             a == Find(par, Lit(v, 0))
             b == Find(par, Lit(w, ph))
         IN  /\ Below(new, n)
             /\ a.var = b.var => Canon(new) = Canon(par)
             /\ a.var < b.var => Canon(new) = JoinedUnder(Canon(par), Flip(a, b.neg), b.var)
             /\ b.var < a.var => Canon(new) = JoinedUnder(Canon(par), Flip(b, a.neg), a.var)
<1>. DEFINE look == Looked(par, v, w)
            new == Merged(par, Lit(v, 0), Lit(w, ph))
            a == Find(par, Lit(v, 0))
            b == Find(par, Lit(w, ph))
<1>1. Below(look, n) /\ Canon(look) = Canon(par)
  <2>1. Below(Compressed(par, v), n) /\ Canon(Compressed(par, v)) = Canon(par)
    BY CompressedCanon
  <2>. QED BY <2>1, CompressedCanon DEF Looked
<1>2. a = Find(look, Lit(v, 0)) /\ b = Find(look, Lit(w, ph))
  BY <1>1 DEF Find
<1>3. new = Hung(look, a, b)
  BY <1>2, LitFields DEF Merged
<1>4. /\ a = Lit(a.var, a.neg) /\ a.var \in 0 .. n /\ a.neg \in {0, 1}
      /\ look[a.var] = Lit(a.var, 0)
  <2>. HIDE DEF look
  <2>. QED BY <1>1, <1>2, FindType
<1>5. /\ b = Lit(b.var, b.neg) /\ b.var \in 0 .. n /\ b.neg \in {0, 1}
      /\ look[b.var] = Lit(b.var, 0)
  <2>. HIDE DEF look
  <2>. QED BY <1>1, <1>2, FindType
<1>. HIDE DEF look, new, a, b
<1>6. a.var \in Int /\ b.var \in Int
  BY <1>4, <1>5
<1>7. CASE a.var = b.var
  <2>1. new = look
    BY <1>3, <1>7 DEF Hung
  <2>2. ~(a.var < b.var) /\ ~(b.var < a.var)
    BY <1>6, <1>7
  <2>. QED BY <1>1, <2>1, <2>2 DEF new, a, b
<1>8. CASE a.var < b.var
  <2>. DEFINE p == a.var
              r == b.var
              k == IF b.neg = 0 THEN a.neg ELSE 1 - a.neg
  <2>1. Flip(a, b.neg) = Lit(p, k)
    BY FlipLit
  <2>2. new = HungBelow(look, p, r, k)
    <3>1. new = [look EXCEPT ![b.var] = Flip(a, b.neg)]
      BY <1>3, <1>6, <1>8 DEF Hung
    <3>. QED BY <2>1, <3>1 DEF HungBelow
  <2>3. k \in {0, 1} /\ p \in 0 .. n /\ r \in 0 .. n /\ p < r
    BY <1>4, <1>5, <1>8
  <2>4. look[p] = Lit(p, 0) /\ look[r] = Lit(r, 0)
    BY <1>4, <1>5
  <2>5. ~(b.var < a.var) /\ b.var # a.var
    BY <1>6, <1>8
  <2>. HIDE DEF p, r, k
  <2>6. Below(new, n) /\ Canon(new) = JoinedUnder(Canon(look), Lit(p, k), r)
    BY <1>1, <2>2, <2>3, <2>4, HungCanon
  <2>7. Canon(new) = JoinedUnder(Canon(par), Flip(a, b.neg), b.var)
    BY <1>1, <2>1, <2>6 DEF r
  <2>. QED BY <1>8, <2>5, <2>6, <2>7 DEF new, a, b
<1>9. CASE b.var < a.var
  <2>. DEFINE p == b.var
              r == a.var
              k == IF a.neg = 0 THEN b.neg ELSE 1 - b.neg
  <2>1. Flip(b, a.neg) = Lit(p, k)
    BY FlipLit
  <2>2. new = HungBelow(look, p, r, k)
    <3>1. new = [look EXCEPT ![a.var] = Flip(b, a.neg)]
      BY <1>3, <1>6, <1>9 DEF Hung
    <3>. QED BY <2>1, <3>1 DEF HungBelow
  <2>3. k \in {0, 1} /\ p \in 0 .. n /\ r \in 0 .. n /\ p < r
    BY <1>4, <1>5, <1>9
  <2>4. look[p] = Lit(p, 0) /\ look[r] = Lit(r, 0)
    BY <1>4, <1>5
  <2>5. ~(a.var < b.var) /\ a.var # b.var
    BY <1>6, <1>9
  <2>. HIDE DEF p, r, k
  <2>6. Below(new, n) /\ Canon(new) = JoinedUnder(Canon(look), Lit(p, k), r)
    BY <1>1, <2>2, <2>3, <2>4, HungCanon
  <2>7. Canon(new) = JoinedUnder(Canon(par), Flip(b, a.neg), a.var)
    BY <1>1, <2>1, <2>6 DEF r
  <2>. QED BY <1>9, <2>5, <2>6, <2>7 DEF new, a, b
<1>10. a.var = b.var \/ a.var < b.var \/ b.var < a.var
  BY <1>6
<1>. QED BY <1>7, <1>8, <1>9, <1>10 DEF new, a, b

-----------------------------------------------------------------------------
(* Nodes that are new stand for themselves.                                *)
LEMMA SingletonsCanon ==
  ASSUME NEW n \in Nat
  PROVE  /\ Below(Singletons(n), n)
         /\ Canon(Singletons(n)) = [v \in 0 .. n |-> Lit(v, 0)]
<1>. DEFINE new == Singletons(n)
            f == [v \in 0 .. n |-> Lit(v, 0)]
<1>1. new = f
  BY DEF Singletons
<1>2. \A v \in 0 .. n : f[v] = Lit(v, 0) /\ f[v].var = v /\ f[v].neg = 0
  BY LitFields
<1>3. DOMAIN f = 0 .. n /\ f = [v \in 0 .. n |-> f[v]]
  OBVIOUS
<1>. HIDE DEF f, new
<1>4. Below(f, n)
  BY <1>2, <1>3 DEF Below
<1>5. Finds(f, f, n)
  BY <1>2 DEF Finds
<1>6. Canon(f) = f
  BY <1>3, <1>4, <1>5, CanonUnique
<1>. QED BY <1>1, <1>4, <1>6 DEF new, f

(* The new nodes of ensure do, the others keep their canonical literals.   *)
LEMMA EnsuredCanon ==
  ASSUME NEW par, NEW n, Below(par, n), NEW m \in Nat, n <= m
  PROVE  /\ Below(Ensured(par, m), m)
         /\ Canon(Ensured(par, m))
              = [v \in 0 .. m |-> IF v \in 0 .. n THEN Canon(par)[v] ELSE Lit(v, 0)]
<1>. DEFINE new == Ensured(par, m)
            C == Canon(par)
            f == [v \in 0 .. m |-> IF v \in 0 .. n THEN C[v] ELSE Lit(v, 0)]
<1>1. n \in Nat /\ DOMAIN par = 0 .. n /\ (0 .. n) \union (0 .. m) = 0 .. m
  BY DEF Below
<1>2. new = [v \in 0 .. m |-> IF v \in 0 .. n THEN par[v] ELSE Lit(v, 0)]
  BY <1>1 DEF Ensured
<1>3. /\ DOMAIN new = 0 .. m
      /\ \A v \in 0 .. m : /\ v \in 0 .. n => new[v] = par[v]
                           /\ v \notin 0 .. n => new[v] = Lit(v, 0)
  BY <1>2
<1>. HIDE DEF new
<1>4. Below(new, m)
  <2>1. ASSUME NEW v \in 0 .. m
        PROVE  /\ new[v] = Lit(new[v].var, new[v].neg)
               /\ new[v].var \in 0 .. v /\ new[v].neg \in {0, 1}
               /\ new[v].var = v => new[v].neg = 0
    <3>1. CASE v \in 0 .. n
      BY <1>3, <3>1 DEF Below
    <3>2. CASE v \notin 0 .. n
      BY <1>3, <3>2, LitFields
    <3>. QED BY <3>1, <3>2
  <2>. QED BY <1>3, <2>1 DEF Below
<1>5. \A v \in 0 .. n : C[v] = IF par[v].var = v THEN Lit(v, 0)
                               ELSE Flip(C[par[v].var], par[v].neg)
  BY CanonFinds DEF Finds
<1>6. \A v \in 0 .. n : par[v].var \in 0 .. v
  BY DEF Below
<1>. HIDE DEF C
<1>7. /\ f = [v \in 0 .. m |-> f[v]]
      /\ \A v \in 0 .. m : /\ v \in 0 .. n => f[v] = C[v]
                           /\ v \notin 0 .. n => f[v] = Lit(v, 0)
  OBVIOUS
<1>. HIDE DEF f
<1>8. ASSUME NEW v \in 0 .. m
      PROVE  f[v] = IF new[v].var = v THEN Lit(v, 0) ELSE Flip(f[new[v].var], new[v].neg)
  <2>1. CASE v \in 0 .. n
    <3>1. par[v].var \in 0 .. n
      BY <1>1, <1>6, <2>1
    <3>2. par[v].var \in 0 .. m
      BY <1>1, <3>1
    <3>. QED BY <1>3, <1>5, <1>7, <2>1, <3>1, <3>2
  <2>2. CASE v \notin 0 .. n
    BY <1>3, <1>7, <2>2, LitFields
  <2>. QED BY <2>1, <2>2
<1>9. Canon(new) = f
  <2>1. Finds(new, f, m)
    BY <1>8 DEF Finds
  <2>. QED BY <1>4, <1>7, <2>1, CanonUnique
<1>. QED BY <1>4, <1>9 DEF new, f, C

-----------------------------------------------------------------------------
(* The value of a literal, and what it means that canonical literals have  *)
(* the value of their nodes.  Of the complement, the proofs use only that  *)
(* it is its own inverse.                                                  *)
Other(S) == Pats \ S

NodeValue(val, l) == IF l.neg = 0 THEN val[l.var] ELSE Other(val[l.var])

SoundUpTo(val, can, n) == \A u \in 0 .. n : val[u] = NodeValue(val, can[u])

(* Complementing a literal complements its value.                          *)
LEMMA FlipValue ==
  ASSUME NEW val, NEW l, l.neg \in {0, 1}, NEW ph \in {0, 1}, Other(Other(val[l.var])) = val[l.var]
  PROVE  /\ ph = 0 => NodeValue(val, Flip(l, ph)) = NodeValue(val, l)
         /\ ph = 1 => NodeValue(val, Flip(l, ph)) = Other(NodeValue(val, l))
<1>1. Flip(l, ph).var = l.var /\ Flip(l, ph).neg = IF ph = 0 THEN l.neg ELSE 1 - l.neg
  BY FlipLit, LitFields
<1>2. CASE ph = 0
  BY <1>1, <1>2 DEF NodeValue
<1>3. CASE ph = 1 /\ l.neg = 0
  BY <1>1, <1>3 DEF NodeValue
<1>4. CASE ph = 1 /\ l.neg = 1
  BY <1>1, <1>4 DEF NodeValue
<1>. QED BY <1>2, <1>3, <1>4

(* A root hung below a literal of its own value keeps them sound.          *)
LEMMA JoinedSound ==
  ASSUME NEW val, NEW can, NEW n, DOMAIN can = 0 .. n,
         \A u \in 0 .. n : can[u].neg \in {0, 1} /\ Other(Other(val[u])) = val[u],
         SoundUpTo(val, can, n),
         NEW p \in 0 .. n, NEW r \in 0 .. n, NEW k \in {0, 1},
         val[r] = NodeValue(val, Lit(p, k))
  PROVE  SoundUpTo(val, JoinedUnder(can, Lit(p, k), r), n)
<1>. DEFINE x == Lit(p, k)
            f == JoinedUnder(can, x, r)
<1>1. x.var = p /\ x.neg = k
  BY LitFields
<1>2. \A u \in 0 .. n : f[u] = IF can[u].var = r THEN Flip(x, can[u].neg) ELSE can[u]
  BY DEF JoinedUnder
<1>. HIDE DEF x, f
<1>3. ASSUME NEW u \in 0 .. n PROVE val[u] = NodeValue(val, f[u])
  <2>1. val[u] = NodeValue(val, can[u])
    BY DEF SoundUpTo
  <2>2. CASE can[u].var = r
    <3>1. f[u] = Flip(x, can[u].neg) /\ NodeValue(val, x) = val[r]
      BY <1>2, <2>2 DEF x
    <3>2. can[u].neg \in {0, 1} /\ x.neg \in {0, 1} /\ Other(Other(val[x.var])) = val[x.var]
      BY <1>1
    <3>3. /\ can[u].neg = 0 => NodeValue(val, Flip(x, can[u].neg)) = NodeValue(val, x)
          /\ can[u].neg = 1 => NodeValue(val, Flip(x, can[u].neg)) = Other(NodeValue(val, x))
      BY <3>2, FlipValue
    <3>. QED BY <2>1, <2>2, <3>1, <3>2, <3>3 DEF NodeValue
  <2>3. CASE can[u].var # r
    BY <1>2, <2>1, <2>3
  <2>. QED BY <2>2, <2>3
<1>. QED BY <1>3 DEF SoundUpTo, f, x

(* A merge of literals of one value leaves the classes as they are or      *)
(* joins two of them.                                                      *)
LEMMA MergeJoins ==
  ASSUME NEW par, NEW n, Below(par, n), NEW v \in 0 .. n, NEW w \in 0 .. n,
         NEW ph \in {0, 1}, NEW val, \A u \in 0 .. n : Other(Other(val[u])) = val[u],
         SoundUpTo(val, Canon(par), n), val[v] = NodeValue(val, Lit(w, ph))
  PROVE  LET new == Merged(par, Lit(v, 0), Lit(w, ph)) IN
         /\ Below(new, n)
         /\ \/ Canon(new) = Canon(par)
            \/ \E p, r \in 0 .. n, k \in {0, 1} :
                 /\ p < r /\ val[r] = NodeValue(val, Lit(p, k))
                 /\ Canon(par)[p] = Lit(p, 0) /\ Canon(par)[r] = Lit(r, 0)
                 /\ Canon(new) = JoinedUnder(Canon(par), Lit(p, k), r)
<1>. DEFINE new == Merged(par, Lit(v, 0), Lit(w, ph))
            a == Find(par, Lit(v, 0))
            b == Find(par, Lit(w, ph))
            C == Canon(par)
            Joins == \E p, r \in 0 .. n, k \in {0, 1} :
                       /\ p < r /\ val[r] = NodeValue(val, Lit(p, k))
                       /\ C[p] = Lit(p, 0) /\ C[r] = Lit(r, 0)
                       /\ Canon(new) = JoinedUnder(C, Lit(p, k), r)
<1>1. /\ a.var \in 0 .. n /\ a.neg \in {0, 1} /\ C[a.var] = Lit(a.var, 0) /\ a = Flip(C[v], 0)
      /\ b.var \in 0 .. n /\ b.neg \in {0, 1} /\ C[b.var] = Lit(b.var, 0) /\ b = Flip(C[w], ph)
  BY FindType, CanonType
<1>2. /\ Below(new, n)
      /\ a.var = b.var => Canon(new) = C
      /\ a.var < b.var => Canon(new) = JoinedUnder(C, Flip(a, b.neg), b.var)
      /\ b.var < a.var => Canon(new) = JoinedUnder(C, Flip(b, a.neg), a.var)
  BY MergedCanon
<1>3. /\ C[v].neg \in {0, 1} /\ C[v].var \in 0 .. n
      /\ C[w].neg \in {0, 1} /\ C[w].var \in 0 .. n
  <2>1. n \in Nat
    BY DEF Below
  <2>2. C[v].neg \in {0, 1} /\ C[v].var \in 0 .. v /\ C[w].neg \in {0, 1} /\ C[w].var \in 0 .. w
    BY CanonType
  <2>. HIDE DEF C
  <2>. QED BY <2>1, <2>2
<1>4. n \in Nat
  BY DEF Below
<1>5. val[v] = NodeValue(val, C[v]) /\ val[w] = NodeValue(val, C[w])
  BY DEF SoundUpTo
<1>6. Lit(w, ph).var = w /\ Lit(w, ph).neg = ph
  BY LitFields
<1>. HIDE DEF new, a, b, C
<1>7. NodeValue(val, a) = NodeValue(val, b)
  <2>1. NodeValue(val, a) = val[v]
    BY <1>1, <1>3, <1>5, FlipValue
  <2>2. /\ ph = 0 => NodeValue(val, b) = val[w]
        /\ ph = 1 => NodeValue(val, b) = Other(val[w])
    BY <1>1, <1>3, <1>5, FlipValue
  <2>. QED BY <1>6, <2>1, <2>2 DEF NodeValue
<1>8. ASSUME a.var = b.var PROVE Canon(new) = C
  BY <1>2, <1>8
<1>9. ASSUME a.var < b.var PROVE Joins
  <2>. DEFINE k == IF b.neg = 0 THEN a.neg ELSE 1 - a.neg
  <2>1. Flip(a, b.neg) = Lit(a.var, k) /\ k \in {0, 1}
    BY <1>1, FlipLit
  <2>2. /\ b.neg = 0 => NodeValue(val, Flip(a, b.neg)) = NodeValue(val, b)
        /\ b.neg = 1 => NodeValue(val, Flip(a, b.neg)) = Other(NodeValue(val, b))
    BY <1>1, <1>7, FlipValue
  <2>3. val[b.var] = NodeValue(val, Flip(a, b.neg))
    BY <1>1, <2>2 DEF NodeValue
  <2>. HIDE DEF k
  <2>4. Canon(new) = JoinedUnder(C, Lit(a.var, k), b.var)
    BY <1>2, <1>9, <2>1
  <2>5. val[b.var] = NodeValue(val, Lit(a.var, k))
    BY <2>1, <2>3
  <2>6. Joins
    BY <1>1, <1>9, <2>1, <2>4, <2>5
  <2>. QED BY <2>6
<1>10. ASSUME b.var < a.var PROVE Joins
  <2>. DEFINE k == IF a.neg = 0 THEN b.neg ELSE 1 - b.neg
  <2>1. Flip(b, a.neg) = Lit(b.var, k) /\ k \in {0, 1}
    BY <1>1, FlipLit
  <2>2. /\ a.neg = 0 => NodeValue(val, Flip(b, a.neg)) = NodeValue(val, a)
        /\ a.neg = 1 => NodeValue(val, Flip(b, a.neg)) = Other(NodeValue(val, a))
    BY <1>1, <1>7, FlipValue
  <2>3. val[a.var] = NodeValue(val, Flip(b, a.neg))
    BY <1>1, <2>2 DEF NodeValue
  <2>. HIDE DEF k
  <2>4. Canon(new) = JoinedUnder(C, Lit(b.var, k), a.var)
    BY <1>2, <1>10, <2>1
  <2>5. val[a.var] = NodeValue(val, Lit(b.var, k))
    BY <2>1, <2>3
  <2>6. Joins
    BY <1>1, <1>10, <2>1, <2>4, <2>5
  <2>. QED BY <2>6
<1>11. Canon(new) = C \/ Joins
  <2>1. a.var \in Int /\ b.var \in Int
    BY <1>1
  <2>. QED BY <1>8, <1>9, <1>10, <2>1
<1>. QED BY <1>2, <1>11 DEF new, C

-----------------------------------------------------------------------------
(* The inductive invariant: the values alone are not, since that find ends *)
(* at a root rests on the order of the parents.                            *)
UFInv == ParentsBelow /\ ClassesSound

(* What the invariant says of the state.                                   *)
LEMMA InvUsed ==
  ASSUME UFInv
  PROVE  \E n \in {graph.swept, graph.last} :
           /\ n <= graph.last /\ graph.last \in Nat /\ graph \in Graphs
           /\ Nodes = 0 .. n /\ Below(parent, n)
           /\ \A u \in 0 .. graph.last : Other(Other(graph.value[u])) = graph.value[u]
           /\ SoundUpTo(graph.value, Canon(parent), n)
<1>1. graph \in Graphs
  BY DEF UFInv, ParentsBelow
<1>2. /\ graph.swept \in Nat /\ graph.last \in Nat /\ graph.swept <= graph.last
      /\ graph.value \in [0 .. graph.last -> SUBSET Pats]
  BY <1>1, UnionFindAssumption
<1>3. PICK n \in {graph.swept, graph.last} : Nodes = 0 .. n
  BY DEF UFInv, ParentsBelow
<1>4. Below(parent, n)
  BY <1>2, <1>3 DEF UFInv, ParentsBelow, Below, Nodes
<1>5. \A u \in 0 .. graph.last : Other(Other(graph.value[u])) = graph.value[u]
  BY <1>2 DEF Other
<1>6. SoundUpTo(graph.value, Canon(parent), n)
  BY <1>3 DEF UFInv, ClassesSound, SoundUpTo, LitValue, NodeValue, Other
<1>7. n <= graph.last
  BY <1>2
<1>. QED BY <1>1, <1>2, <1>3, <1>4, <1>5, <1>6, <1>7

(* What it takes to have the invariant.                                    *)
LEMMA InvShown ==
  ASSUME graph \in Graphs, NEW n \in {graph.swept, graph.last}, Below(parent, n),
         SoundUpTo(graph.value, Canon(parent), n)
  PROVE  UFInv
<1>1. Nodes = 0 .. n
  BY DEF Below, Nodes
<1>2. ParentsBelow
  BY <1>1 DEF ParentsBelow, Below
<1>3. ClassesSound
  BY <1>1 DEF ClassesSound, SoundUpTo, LitValue, NodeValue, Other
<1>. QED BY <1>2, <1>3 DEF UFInv

(* What a step does to the canonical literals: nothing, a join of two      *)
(* classes, or new nodes.                                                  *)
Joins ==
  \E p, r \in Nodes, k \in {0, 1} :
    /\ p < r /\ graph.value[r] = NodeValue(graph.value, Lit(p, k))
    /\ Canon(parent)[p] = Lit(p, 0) /\ Canon(parent)[r] = Lit(r, 0)
    /\ Canon(parent') = JoinedUnder(Canon(parent), Lit(p, k), r)

ExtendsGraph ==
  /\ Nodes \subseteq Nodes'
  /\ Canon(parent') = [v \in Nodes' |-> IF v \in Nodes THEN Canon(parent)[v] ELSE Lit(v, 0)]

(* Every step keeps the invariant, and does one of the three.              *)
LEMMA StepDoes ==
  ASSUME UFInv, [UFNext]_ufVars
  PROVE  /\ UFInv' /\ graph' = graph
         /\ Canon(parent') = Canon(parent) \/ Joins \/ ExtendsGraph
<1>1. PICK n \in {graph.swept, graph.last} :
        /\ n <= graph.last /\ graph.last \in Nat /\ graph \in Graphs
        /\ Nodes = 0 .. n /\ Below(parent, n)
        /\ \A u \in 0 .. graph.last : Other(Other(graph.value[u])) = graph.value[u]
        /\ SoundUpTo(graph.value, Canon(parent), n)
  BY InvUsed
<1>2. n \in Nat
  BY <1>1 DEF Below
<1>3. graph' = graph
  BY DEF UFNext, Merge, LookUp, Ensure, ufVars
<1>4. ASSUME NEW m \in {graph.swept, graph.last}, Below(parent', m),
             SoundUpTo(graph.value, Canon(parent'), m)
      PROVE  UFInv'
  <2>1. (graph \in Graphs)' /\ (m \in {graph.swept, graph.last})'
    BY <1>1, <1>3
  <2>2. Below(parent', m) /\ SoundUpTo(graph'.value, Canon(parent'), m)
    BY <1>3, <1>4
  <2>3. Nodes' = 0 .. m
    BY <1>4 DEF Below, Nodes
  <2>4. ParentsBelow'
    BY <2>1, <2>3, <1>4 DEF ParentsBelow, Below
  <2>5. ClassesSound'
    BY <2>2, <2>3 DEF ClassesSound, SoundUpTo, LitValue, NodeValue, Other
  <2>. QED BY <2>4, <2>5 DEF UFInv
<1>5. CASE Merge
  <2>1. PICK v \in Nodes, w \in Nodes, ph \in {0, 1} :
          /\ graph.value[v] = LitValue(Lit(w, ph))
          /\ parent' = Merged(parent, Lit(v, 0), Lit(w, ph))
    BY <1>5 DEF Merge
  <2>2. v \in 0 .. n /\ w \in 0 .. n /\ graph.value[v] = NodeValue(graph.value, Lit(w, ph))
    BY <1>1, <2>1 DEF LitValue, NodeValue, Other
  <2>3. \A u \in 0 .. n : Other(Other(graph.value[u])) = graph.value[u]
    BY <1>1, <1>2
  <2>4. /\ Below(parent', n)
        /\ \/ Canon(parent') = Canon(parent)
           \/ \E p, r \in 0 .. n, k \in {0, 1} :
                /\ p < r /\ graph.value[r] = NodeValue(graph.value, Lit(p, k))
                /\ Canon(parent)[p] = Lit(p, 0) /\ Canon(parent)[r] = Lit(r, 0)
                /\ Canon(parent') = JoinedUnder(Canon(parent), Lit(p, k), r)
    BY <1>1, <2>1, <2>2, <2>3, MergeJoins
  <2>5. CASE Canon(parent') = Canon(parent)
    BY <1>1, <1>3, <1>4, <2>4, <2>5
  <2>6. CASE Canon(parent') # Canon(parent)
    <3>1. PICK p \in 0 .. n, r \in 0 .. n, k \in {0, 1} :
            /\ p < r /\ graph.value[r] = NodeValue(graph.value, Lit(p, k))
            /\ Canon(parent)[p] = Lit(p, 0) /\ Canon(parent)[r] = Lit(r, 0)
            /\ Canon(parent') = JoinedUnder(Canon(parent), Lit(p, k), r)
      BY <2>4, <2>6
    <3>2. DOMAIN Canon(parent) = 0 .. n /\ \A u \in 0 .. n : Canon(parent)[u].neg \in {0, 1}
      BY <1>1, CanonFinds, CanonType
    <3>3. SoundUpTo(graph.value, Canon(parent'), n)
      BY <1>1, <2>3, <3>1, <3>2, JoinedSound
    <3>4. Joins
      BY <1>1, <3>1 DEF Joins
    <3>. QED BY <1>3, <1>4, <2>4, <3>3, <3>4
  <2>. QED BY <2>5, <2>6
<1>6. CASE LookUp
  <2>1. PICK v : parent' = Compressed(parent, v)
    BY <1>6 DEF LookUp
  <2>2. Below(parent', n) /\ Canon(parent') = Canon(parent)
    BY <1>1, <2>1, CompressedCanon
  <2>. QED BY <1>1, <1>3, <1>4, <2>2
<1>7. CASE Ensure
  <2>. DEFINE m == graph.last
  <2>1. /\ Below(parent', m)
        /\ Canon(parent') = [v \in 0 .. m |-> IF v \in 0 .. n THEN Canon(parent)[v]
                                              ELSE Lit(v, 0)]
    BY <1>1, <1>7, EnsuredCanon DEF Ensure
  <2>2. Nodes' = 0 .. m /\ Nodes \subseteq 0 .. m
    BY <1>1, <1>2, <2>1 DEF Below, Nodes
  <2>3. ExtendsGraph
    BY <1>1, <2>1, <2>2 DEF ExtendsGraph
  <2>4. SoundUpTo(graph.value, Canon(parent'), m)
    <3>1. ASSUME NEW u \in 0 .. m PROVE graph.value[u] = NodeValue(graph.value, Canon(parent')[u])
      <4>1. CASE u \in 0 .. n
        BY <1>1, <2>1, <4>1 DEF SoundUpTo
      <4>2. CASE u \notin 0 .. n
        BY <2>1, <4>2, LitFields DEF NodeValue
      <4>. QED BY <4>1, <4>2
    <3>. QED BY <3>1 DEF SoundUpTo
  <2>. QED BY <1>3, <1>4, <2>1, <2>3, <2>4
<1>8. CASE UNCHANGED ufVars
  <2>1. parent' = parent
    BY <1>8 DEF ufVars
  <2>. QED BY <1>1, <1>3, <1>4, <2>1
<1>. QED BY <1>5, <1>6, <1>7, <1>8 DEF UFNext

(* The first state has the invariant, and every node stands for itself.    *)
LEMMA InitDoes ==
  ASSUME UFInit
  PROVE  UFInv /\ Canon(parent) = [v \in 0 .. graph.swept |-> Lit(v, 0)]
<1>1. graph \in Graphs /\ graph.swept \in Nat /\ parent = Singletons(graph.swept)
  BY UnionFindAssumption DEF UFInit
<1>2. /\ Below(parent, graph.swept)
      /\ Canon(parent) = [v \in 0 .. graph.swept |-> Lit(v, 0)]
  BY <1>1, SingletonsCanon
<1>3. SoundUpTo(graph.value, Canon(parent), graph.swept)
  BY <1>2, LitFields DEF SoundUpTo, NodeValue
<1>. QED BY <1>1, <1>2, <1>3, InvShown

-----------------------------------------------------------------------------
(* Every node keeps a parent that is not above it, in every graph and      *)
(* after any number of merges, finds and new nodes: find always ends.      *)
THEOREM UFParentsBelow == UFSpec => []ParentsBelow
<1>1. UFInit => UFInv
  BY InitDoes
<1>2. UFInv /\ [UFNext]_ufVars => UFInv'
  BY StepDoes
<1>3. UFInv => ParentsBelow
  BY DEF UFInv
<1>. QED BY <1>1, <1>2, <1>3, PTL DEF UFSpec

(* The literal that find returns always has the value of the literal it    *)
(* was given, in every graph.                                              *)
THEOREM UFClassesSound == UFSpec => []ClassesSound
<1>1. UFInit => UFInv
  BY InitDoes
<1>2. UFInv /\ [UFNext]_ufVars => UFInv'
  BY StepDoes
<1>3. UFInv => ClassesSound
  BY DEF UFInv
<1>. QED BY <1>1, <1>2, <1>3, PTL DEF UFSpec

(* Seen as classes, that is a first state and a step of Classes.           *)
LEMMA ClassesBegin ==
  ASSUME UFInit
  PROVE  Promise!Init
<1>1. Canon(parent) = [v \in 0 .. graph.swept |-> Lit(v, 0)]
  BY InitDoes
<1>. QED BY <1>1 DEF Promise!Init, Promise!Nodes, Promise!Lit, Lit

LEMMA CanonNodes == UFInv => DOMAIN Canon(parent) = Nodes
BY InvUsed, CanonFinds

LEMMA CanonNodesNext == UFInv' => DOMAIN Canon(parent') = Nodes'
<1>1. UFInv' => (DOMAIN Canon(parent) = Nodes)'
  BY CanonNodes, PTL
<1>. QED BY <1>1

LEMMA ClassesStep ==
  ASSUME UFInv, UFInv', graph' = graph, Canon(parent') = Canon(parent) \/ Joins \/ ExtendsGraph
  PROVE  [Promise!Next]_Promise!vars
<1>1. DOMAIN Canon(parent) = Nodes /\ DOMAIN Canon(parent') = Nodes'
  BY CanonNodes, CanonNodesNext
<1>2. CASE Canon(parent') = Canon(parent)
  BY <1>2 DEF Promise!vars
<1>3. CASE Joins
  <2>1. PICK p \in Nodes, r \in Nodes, k \in {0, 1} :
          /\ p < r /\ graph.value[r] = NodeValue(graph.value, Lit(p, k))
          /\ Canon(parent)[p] = Lit(p, 0) /\ Canon(parent)[r] = Lit(r, 0)
          /\ Canon(parent') = JoinedUnder(Canon(parent), Lit(p, k), r)
    BY <1>3 DEF Joins
  <2>2. p \in Promise!Roots /\ r \in Promise!Roots
    BY <1>1, <2>1 DEF Promise!Roots, Promise!Nodes, Promise!Lit, Lit
  <2>3. graph.value[r] = Promise!LitValue(Promise!Lit(p, k))
    BY <2>1 DEF Promise!LitValue, NodeValue, Other, Promise!Lit, Lit
  <2>4. Canon(parent') = [v \in Promise!Nodes |->
            IF Canon(parent)[v].var = r
            THEN Promise!Flip(Promise!Lit(p, k), Canon(parent)[v].neg)
            ELSE Canon(parent)[v]]
    BY <2>1 DEF JoinedUnder, Promise!Nodes, Promise!Flip, Promise!Lit, Flip, Lit
  <2>5. Promise!Join
    BY <2>1, <2>2, <2>3, <2>4 DEF Promise!Join
  <2>. QED BY <2>5 DEF Promise!Next
<1>4. CASE ExtendsGraph
  <2>1. Promise!Nodes = Nodes /\ Promise!Nodes' = Nodes'
    BY <1>1 DEF Promise!Nodes
  <2>2. Canon(parent') = [v \in Promise!Nodes' |->
            IF v \in Promise!Nodes THEN Canon(parent)[v] ELSE Promise!Lit(v, 0)]
    BY <1>4, <2>1 DEF ExtendsGraph, Promise!Lit, Lit
  <2>3. Promise!Extend
    BY <1>4, <2>1, <2>2 DEF Promise!Extend, ExtendsGraph
  <2>. QED BY <2>3 DEF Promise!Next
<1>. QED BY <1>2, <1>3, <1>4

(* The union-find implements Classes, in every graph: a merge joins two    *)
(* classes of one value under the smaller root or does nothing, ensure     *)
(* extends them, and a find, which rewrites parents, changes no class.     *)
THEOREM UFImplementsClasses == UFSpec => ImplementsClasses
<1>1. UFInit => UFInv
  BY InitDoes
<1>2. UFInv /\ [UFNext]_ufVars => UFInv'
  BY StepDoes
<1>3. UFInit => Promise!Init
  BY ClassesBegin
<1>4. UFInv /\ [UFNext]_ufVars => [Promise!Next]_Promise!vars
  BY StepDoes, ClassesStep
<1>. QED BY <1>1, <1>2, <1>3, <1>4, PTL DEF UFSpec, ImplementsClasses, Promise!Spec

-----------------------------------------------------------------------------
(* The sweep.                                                              *)

-----------------------------------------------------------------------------
(* The inductive invariant.                                                *)

Last == BaseSlots + cexCount   \* the slots below are in use

(* Slots in use that tell u and v apart in every phase: in slot 0 they     *)
(* agree and in s they do not, or the other way round.                     *)
Agree(s, u, v) == pat[s] \in graph.value[u] <=> pat[s] \in graph.value[v]
Tells(s, u, v) == Agree(0, u, v) # Agree(s, u, v)

CountInv ==
  /\ SweepTypeOK
  /\ pc # "done" => round < MaxRounds /\ Nodes = Swept
  /\ pc # "pairs" => todo = {}

(* The words of the ANDs are those of the inputs but for the slots that    *)
(* were filled in this round, and slot 0 is never filled.                  *)
WordsInv ==
  /\ pc = "round" \/ ~newCex => seen = pat
  /\ seen[0] = pat[0]

(* The pairs of a round come from its buckets: one for each node, with the *)
(* first of all nodes related to it.                                       *)
PairsInv ==
  /\ \A p \in todo, u \in Swept : Related(u, p.v) => p.rep <= u
  /\ \A p, q \in todo : p.v = q.v => p = q

(* A refuted pair is told apart by a slot in use, which the words of ANDs  *)
(* have too unless the pair was dealt with in this round.                  *)
RefutedInv ==
  \A u, v \in Swept : <<u, v>> \in refuted =>
    \E s \in 0 .. Last - 1 :
      /\ Tells(s, u, v)
      /\ seen[s] = pat[s] \/ \A p \in todo : p.v # v

(* A pair of this round that was dealt with was joined or can be told      *)
(* apart, if no answer was lost and the words are still the same.          *)
DealtInv ==
  pc # "round" /\ ~newCex /\ ~limit =>
    \A p \in Pairs : p \in todo \/ Joined(p) \/ ~Alike(p)

Inv ==
  /\ UFInv /\ CountInv /\ WordsInv /\ PairsInv /\ RefutedInv /\ NamedByFirst
  /\ DealtInv

-----------------------------------------------------------------------------
(* Graphs, classes and words.                                              *)

LEMMA GraphFacts ==
  ASSUME graph \in Graphs
  PROVE  /\ graph.swept \in Nat /\ graph.last \in Nat /\ graph.swept <= graph.last
         /\ 0 \in Swept /\ Swept \subseteq Nat /\ Swept \subseteq 0 .. graph.last
         /\ \A v \in Swept : graph.value[v] \subseteq Pats
BY UnionFindAssumption DEF Swept

LEMMA SlotFacts ==
  /\ BaseSlots \in Nat /\ BaseSlots >= 1 /\ CexSlots \in Nat /\ MaxRounds \in Nat
  /\ MaxRounds >= 1 /\ 0 \in Slots
BY SweepAssumption DEF Slots

(* Being equal or complementary is an equivalence.                         *)
LEMMA RelatedEquiv ==
  ASSUME graph \in Graphs, NEW u \in Swept, NEW v \in Swept, NEW w \in Swept
  PROVE  /\ Related(u, u) /\ (Related(u, v) => Related(v, u))
         /\ Related(u, v) /\ Related(v, w) => Related(u, w)
<1>1. /\ graph.value[u] \subseteq Pats /\ graph.value[v] \subseteq Pats
      /\ graph.value[w] \subseteq Pats
  BY GraphFacts
<1>. DEFINE a == graph.value[u]
            b == graph.value[v]
            c == graph.value[w]
<1>2. /\ Related(u, u) <=> a = a \/ a = Pats \ a
      /\ Related(u, v) <=> a = b \/ a = Pats \ b
      /\ Related(v, u) <=> b = a \/ b = Pats \ a
      /\ Related(v, w) <=> b = c \/ b = Pats \ c
      /\ Related(u, w) <=> a = c \/ a = Pats \ c
  BY DEF Related
<1>3. a \subseteq Pats /\ b \subseteq Pats /\ c \subseteq Pats
  BY <1>1
<1>. HIDE DEF a, b, c
<1>4. Pats \ (Pats \ a) = a /\ Pats \ (Pats \ b) = b /\ Pats \ (Pats \ c) = c
  BY <1>3
<1>. QED BY <1>2, <1>4

(* The root of a node is a node of its class that is not above it.         *)
LEMMA CanonFacts ==
  ASSUME UFInv, NEW v \in Swept
  PROVE  /\ Canon(parent)[v] = Lit(Canon(parent)[v].var, Canon(parent)[v].neg)
         /\ Canon(parent)[v].var \in 0 .. v /\ Canon(parent)[v].neg \in {0, 1}
         /\ Canon(parent)[v].var \in Swept /\ Related(Canon(parent)[v].var, v)
         /\ Canon(parent)[Canon(parent)[v].var] = Lit(Canon(parent)[v].var, 0)
<1>1. PICK n \in {graph.swept, graph.last} :
        /\ graph \in Graphs /\ Below(parent, n)
        /\ SoundUpTo(graph.value, Canon(parent), n)
  BY InvUsed
<1>2. v \in 0 .. n /\ n \in Nat /\ v \in Nat
  BY <1>1, GraphFacts DEF Swept
<1>. DEFINE c == Canon(parent)[v]
<1>3. /\ c = Lit(c.var, c.neg) /\ c.var \in 0 .. v /\ c.neg \in {0, 1}
      /\ Canon(parent)[c.var] = Lit(c.var, 0)
  BY <1>1, <1>2, CanonType
<1>4. graph.value[v] = IF c.neg = 0 THEN graph.value[c.var] ELSE Pats \ graph.value[c.var]
  BY <1>1, <1>2 DEF SoundUpTo, NodeValue, Other
<1>. HIDE DEF c
<1>5. c.var \in Swept
  BY <1>1, <1>2, <1>3, GraphFacts DEF Swept
<1>6. Related(v, c.var)
  BY <1>4 DEF Related
<1>7. Related(c.var, v)
  BY <1>1, <1>5, <1>6, RelatedEquiv
<1>. QED BY <1>3, <1>5, <1>7 DEF c

(* With the same pattern for inputs and ANDs in every slot, nodes that are *)
(* related have the same words, or complementary ones.                     *)
LEMMA RowsOf ==
  ASSUME graph \in Graphs, pat \in [Slots -> Pats], seen = pat,
         NEW u \in Swept, NEW v \in Swept, Related(u, v)
  PROVE  Row(u) = Row(v) \/ Row(u) = Slots \ Row(v)
<1>1. /\ Row(u) = {s \in Slots : pat[s] \in graph.value[u]}
      /\ Row(v) = {s \in Slots : pat[s] \in graph.value[v]}
  BY DEF Row
<1>2. \A s \in Slots : pat[s] \in Pats
  OBVIOUS
<1>. QED BY <1>1, <1>2 DEF Related

LEMMA NormalOf ==
  ASSUME NEW R \in SUBSET Slots, NEW S \in SUBSET Slots
  PROVE  (R = S \/ R = Slots \ S) <=> Normal(R) = Normal(S)
<1>1. 0 \in Slots /\ Slots \ (Slots \ S) = S /\ Slots \ (Slots \ R) = R
  BY SlotFacts
<1>2. ASSUME R = Slots \ S PROVE 0 \in R <=> 0 \notin S
  BY <1>1, <1>2
<1>. QED BY <1>1, <1>2 DEF Normal

LEMMA RelatedSignature ==
  ASSUME graph \in Graphs, pat \in [Slots -> Pats], seen = pat,
         NEW u \in Swept, NEW v \in Swept, Related(u, v)
  PROVE  Signature(u) = Signature(v)
<1>1. Row(u) \in SUBSET Slots /\ Row(v) \in SUBSET Slots
  BY DEF Row
<1>2. Normal(Row(u)) = Normal(Row(v))
  BY <1>1, RowsOf, NormalOf
<1>. QED BY <1>2 DEF Signature

-----------------------------------------------------------------------------
(* What a step does to the classes.                                        *)

LEMMA LookedCanon ==
  ASSUME NEW par, NEW n, Below(par, n), NEW v, NEW w
  PROVE  Below(Looked(par, v, w), n) /\ Canon(Looked(par, v, w)) = Canon(par)
<1>1. Below(Compressed(par, v), n) /\ Canon(Compressed(par, v)) = Canon(par)
  BY CompressedCanon
<1>. QED BY <1>1, CompressedCanon DEF Looked

(* The classes stay sound when two of one value are joined, or none.       *)
LEMMA ClassStep ==
  ASSUME UFInv, graph' = graph, NEW n \in {graph.swept, graph.last}, Nodes = 0 .. n,
         Below(parent', n), Canon(parent') = Canon(parent) \/ Joins
  PROVE  UFInv' /\ Nodes' = Nodes
<1>1. /\ graph \in Graphs /\ graph.last \in Nat /\ n \in Nat /\ n <= graph.last
      /\ Below(parent, n)
      /\ \A u \in 0 .. n : Other(Other(graph.value[u])) = graph.value[u]
      /\ SoundUpTo(graph.value, Canon(parent), n)
  <2>1. PICK m \in {graph.swept, graph.last} :
          /\ m <= graph.last /\ graph.last \in Nat /\ graph \in Graphs
          /\ Nodes = 0 .. m /\ Below(parent, m)
          /\ \A u \in 0 .. graph.last : Other(Other(graph.value[u])) = graph.value[u]
          /\ SoundUpTo(graph.value, Canon(parent), m)
    BY InvUsed
  <2>2. m \in Nat /\ n \in Nat
    BY <2>1, GraphFacts
  <2>3. n = m
    <3>1. m \in 0 .. n /\ n \in 0 .. m
      BY <2>1, <2>2
    <3>. QED BY <2>2, <3>1
  <2>. QED BY <2>1, <2>2, <2>3
<1>2. SoundUpTo(graph.value, Canon(parent'), n)
  <2>1. CASE Canon(parent') = Canon(parent)
    BY <1>1, <2>1
  <2>2. CASE Joins
    <3>1. PICK p \in 0 .. n, r \in 0 .. n, k \in {0, 1} :
            /\ graph.value[r] = NodeValue(graph.value, Lit(p, k))
            /\ Canon(parent') = JoinedUnder(Canon(parent), Lit(p, k), r)
      BY <2>2 DEF Joins
    <3>2. DOMAIN Canon(parent) = 0 .. n /\ \A u \in 0 .. n : Canon(parent)[u].neg \in {0, 1}
      BY <1>1, CanonFinds, CanonType
    <3>. QED BY <1>1, <3>1, <3>2, JoinedSound
  <2>. QED BY <2>1, <2>2
<1>3. Nodes' = 0 .. n
  BY DEF Below, Nodes
<1>4. ParentsBelow'
  BY <1>1, <1>3 DEF ParentsBelow, Below
<1>5. ClassesSound'
  BY <1>2, <1>3 DEF ClassesSound, SoundUpTo, LitValue, NodeValue, Other
<1>. QED BY <1>3, <1>4, <1>5 DEF UFInv

(* Looking two nodes up.                                                   *)
LEMMA LookedStep ==
  ASSUME UFInv, graph' = graph, NEW v, NEW w, parent' = Looked(parent, v, w)
  PROVE  /\ UFInv' /\ Nodes' = Nodes /\ Canon(parent') = Canon(parent)
<1>1. PICK n \in {graph.swept, graph.last} : Nodes = 0 .. n /\ Below(parent, n)
  BY InvUsed
<1>2. Below(parent', n) /\ Canon(parent') = Canon(parent)
  BY <1>1, LookedCanon
<1>. QED BY <1>1, <1>2, ClassStep

LEMMA NamedKeeps ==
  ASSUME NamedByFirst, graph' = graph,
         \A v \in Swept : Canon(parent')[v] = Canon(parent)[v]
  PROVE  NamedByFirst'
BY DEF NamedByFirst, Swept, Related

(* A root hung below a smaller one: the greater of the two is the one that *)
(* moves, and the phase is right.                                          *)
LEMMA HangsBelow ==
  ASSUME NEW par, NEW n, Below(par, n), NEW v \in 0 .. n, NEW r \in 0 .. n, r < v,
         NEW ph \in {0, 1}, Canon(par)[v] = Lit(v, 0), Canon(par)[r] = Lit(r, 0)
  PROVE  \E k \in {0, 1} :
           Canon(Merged(par, Lit(v, 0), Lit(r, ph))) = JoinedUnder(Canon(par), Lit(r, k), v)
<1>. DEFINE new == Merged(par, Lit(v, 0), Lit(r, ph))
            a == Find(par, Lit(v, 0))
            b == Find(par, Lit(r, ph))
<1>1. /\ a = Flip(Canon(par)[v], 0) /\ a.neg \in {0, 1}
      /\ b = Flip(Canon(par)[r], ph) /\ b.neg \in {0, 1}
  BY FindType
<1>2. b.var < a.var => Canon(new) = JoinedUnder(Canon(par), Flip(b, a.neg), a.var)
  BY MergedCanon
<1>. HIDE DEF new, a, b
<1>3. a.var = v /\ b.var = r
  BY <1>1, FlipLit, LitFields
<1>4. Flip(b, a.neg) = Lit(r, IF a.neg = 0 THEN b.neg ELSE 1 - b.neg)
  BY <1>3, FlipLit
<1>. QED BY <1>1, <1>2, <1>3, <1>4 DEF new

(* A proof joins the node, a root that is alone, with the first node of    *)
(* its class.                                                              *)
LEMMA ProveStep ==
  ASSUME UFInv, NamedByFirst, graph' = graph, NEW r \in Swept, NEW v \in Swept, r < v,
         NEW ph \in {0, 1}, graph.value[v] = LitValue(Lit(r, ph)),
         \A u \in Swept : Related(u, v) => r <= u,
         Canon(parent)[v].var # Canon(parent)[r].var,
         parent' = Merged(Looked(parent, v, r), Lit(v, 0), Lit(r, ph))
  PROVE  /\ UFInv' /\ Nodes' = Nodes /\ NamedByFirst'
         /\ Canon(parent') = Canon(parent) \/ Joins
         /\ Canon(parent')[v].var = Canon(parent')[r].var
         /\ \A u, w \in Swept : Canon(parent)[u].var = Canon(parent)[w].var =>
                                Canon(parent')[u].var = Canon(parent')[w].var
<1>. DEFINE C == Canon(parent)
            look == Looked(parent, v, r)
            new == Merged(look, Lit(v, 0), Lit(r, ph))
<1>1. PICK n \in {graph.swept, graph.last} :
        /\ n <= graph.last /\ graph.last \in Nat /\ graph \in Graphs
        /\ Nodes = 0 .. n /\ Below(parent, n)
        /\ \A u \in 0 .. graph.last : Other(Other(graph.value[u])) = graph.value[u]
        /\ SoundUpTo(graph.value, C, n)
  BY InvUsed
<1>2. /\ n \in Nat /\ v \in Nat /\ r \in Nat /\ v \in 0 .. n /\ r \in 0 .. n
      /\ Swept \subseteq 0 .. n /\ Swept \subseteq Nat
  BY <1>1, GraphFacts DEF Swept
<1>3. Below(look, n) /\ Canon(look) = C /\ parent' = new
  BY <1>1, LookedCanon
<1>4. \A u \in Swept : /\ C[u] = Lit(C[u].var, C[u].neg) /\ C[u].var \in 0 .. u
                       /\ C[u].var \in Swept /\ Related(C[u].var, u)
                       /\ C[C[u].var] = Lit(C[u].var, 0)
  BY CanonFacts
<1>5. Related(v, r) /\ Related(r, v)
  <2>1. Related(v, r)
    BY LitFields DEF LitValue, Related
  <2>. QED BY <1>1, <2>1, RelatedEquiv
<1>. HIDE DEF C, look, new
<1>6. C[r].var = r /\ C[r] = Lit(r, 0)
  <2>1. Related(C[r].var, v)
    BY <1>1, <1>4, <1>5, RelatedEquiv
  <2>2. r <= C[r].var
    BY <1>4, <2>1
  <2>3. C[r].var = r
    BY <1>2, <1>4, <2>2
  <2>. QED BY <1>4, <2>3
<1>7. C[v].var = v /\ C[v] = Lit(v, 0)
  <2>1. r <= C[v].var
    BY <1>4
  <2>2. C[v].var # v => C[v].var <= r
    BY <1>5 DEF NamedByFirst, C
  <2>3. C[v].var # r
    BY <1>6 DEF C
  <2>4. C[v].var = v
    BY <1>2, <1>4, <2>1, <2>2, <2>3
  <2>. QED BY <1>4, <2>4
<1>8. ASSUME NEW u \in Swept, C[u].var = v PROVE u = v
  <2>1. Related(u, v) /\ Related(r, u)
    <3>1. Related(v, u)
      BY <1>4, <1>8
    <3>. QED BY <1>1, <1>5, <3>1, RelatedEquiv
  <2>2. u # v => v <= r
    BY <1>8, <2>1 DEF NamedByFirst, C
  <2>. QED BY <1>2, <2>2
<1>9. \E k \in {0, 1} : Canon(parent') = JoinedUnder(C, Lit(r, k), v)
  BY <1>2, <1>3, <1>6, <1>7, HangsBelow DEF new
<1>10. PICK k \in {0, 1} : Canon(parent') = JoinedUnder(C, Lit(r, k), v)
  BY <1>9
<1>11. DOMAIN C = 0 .. n
  BY <1>1, CanonFinds DEF C
<1>12. \A u \in Swept : Canon(parent')[u] = IF u = v THEN Lit(r, k) ELSE C[u]
  <2>1. ASSUME NEW u \in Swept
        PROVE  Canon(parent')[u] = IF u = v THEN Lit(r, k) ELSE C[u]
    <3>1. Canon(parent')[u] = IF C[u].var = v THEN Flip(Lit(r, k), C[u].neg) ELSE C[u]
      BY <1>2, <1>10, <1>11 DEF JoinedUnder
    <3>2. CASE u = v
      BY <1>7, <3>1, <3>2, FlipLit, LitFields
    <3>3. CASE u # v
      BY <1>8, <3>1, <3>3
    <3>. QED BY <3>2, <3>3
  <2>. QED BY <2>1
<1>13. \A u \in Swept : Canon(parent')[u].var = IF u = v THEN r ELSE C[u].var
  BY <1>12, LitFields
<1>14. NamedByFirst'
  <2>1. ASSUME NEW u \in Swept, NEW w \in Swept, Canon(parent')[u].var # u, Related(w, u)
        PROVE  Canon(parent')[u].var <= w
    <3>1. CASE u = v
      BY <1>13, <2>1, <3>1
    <3>2. CASE u # v
      BY <1>13, <2>1, <3>2 DEF NamedByFirst, C
    <3>. QED BY <3>1, <3>2
  <2>. QED BY <2>1 DEF NamedByFirst, Swept, Related
<1>15. UFInv' /\ Nodes' = Nodes /\ (Canon(parent') = Canon(parent) \/ Joins)
  <2>1. \A u \in 0 .. n : Other(Other(graph.value[u])) = graph.value[u]
    BY <1>1, <1>2
  <2>2. graph.value[v] = NodeValue(graph.value, Lit(r, ph))
    BY DEF LitValue, NodeValue, Other
  <2>3. SoundUpTo(graph.value, Canon(look), n)
    BY <1>1, <1>3
  <2>. DEFINE val == graph.value
  <2>4. /\ Below(new, n)
        /\ \/ Canon(new) = Canon(look)
           \/ \E p, q \in 0 .. n, j \in {0, 1} :
                /\ p < q /\ val[q] = NodeValue(val, Lit(p, j))
                /\ Canon(look)[p] = Lit(p, 0) /\ Canon(look)[q] = Lit(q, 0)
                /\ Canon(new) = JoinedUnder(Canon(look), Lit(p, j), q)
    <3>. HIDE DEF val
    <3>1. /\ SoundUpTo(val, Canon(look), n) /\ val[v] = NodeValue(val, Lit(r, ph))
          /\ \A u \in 0 .. n : Other(Other(val[u])) = val[u]
      BY <2>1, <2>2, <2>3 DEF val
    <3>2. Below(look, n) /\ v \in 0 .. n /\ r \in 0 .. n /\ ph \in {0, 1}
      BY <1>2, <1>3
    <3>. QED BY ONLY <3>1, <3>2, MergeJoins DEF new
  <2>5. Canon(parent') = Canon(parent) \/ Joins
    BY <1>1, <1>3, <2>4 DEF Joins, C
  <2>. QED BY <1>1, <1>3, <2>4, <2>5, ClassStep
<1>16. Canon(parent')[v].var = Canon(parent')[r].var
  BY <1>2, <1>6, <1>13
<1>17. \A u, w \in Swept : Canon(parent)[u].var = Canon(parent)[w].var =>
                           Canon(parent')[u].var = Canon(parent')[w].var
  BY <1>7, <1>8, <1>13 DEF C
<1>. QED BY <1>14, <1>15, <1>16, <1>17

-----------------------------------------------------------------------------
(* What a step does to the words and the pairs.                            *)

LEMMA PairOf ==
  ASSUME NEW p \in Pairs
  PROVE  /\ p.rep \in Swept /\ p.v \in Swept /\ p.rep < p.v
         /\ Signature(p.rep) = p.key /\ Signature(p.v) = p.key /\ Leads(p.rep, p.v)
         /\ p = [key |-> p.key, rep |-> p.rep, v |-> p.v]
BY DEF Pairs

LEMMA SameWords ==
  ASSUME UNCHANGED <<graph, pat, seen>>
  PROVE  /\ Swept' = Swept /\ Pairs' = Pairs
         /\ \A p : Alike(p)' <=> Alike(p)
<1>1. Swept' = Swept /\ \A v : Row(v)' = Row(v)
  BY DEF Swept, Row
<1>2. \A v : Signature(v)' = Signature(v)
  BY <1>1 DEF Signature, Normal
<1>3. \A u, v : Leads(u, v)' <=> Leads(u, v)
  BY <1>1, <1>2 DEF Leads
<1>4. Pairs' = Pairs
  BY <1>1, <1>2, <1>3 DEF Pairs
<1>. QED BY <1>1, <1>4 DEF Alike

(* A step that leaves the words as they are, whatever it does to classes:  *)
(* it must not take them apart.                                            *)
LEMMA SameRound ==
  ASSUME Inv, UFInv', CountInv', NamedByFirst',
         UNCHANGED <<graph, simVars, round, pc, refuted>>, todo' \subseteq todo,
         limit' \in {limit, TRUE},
         \A u, v \in Swept : Canon(parent)[u].var = Canon(parent)[v].var =>
                             Canon(parent')[u].var = Canon(parent')[v].var,
         \A p \in todo \ todo' : limit' \/ Joined(p)' \/ ~Alike(p)
  PROVE  Inv'
<1>1. UNCHANGED <<graph, pat, seen, cexCount, newCex, round, pc, refuted>>
  BY DEF simVars
<1>2. Swept' = Swept /\ Pairs' = Pairs /\ \A p : Alike(p)' <=> Alike(p)
  BY <1>1, SameWords
<1>3. \A u, v : Related(u, v)' <=> Related(u, v)
  BY <1>1 DEF Related
<1>4. WordsInv'
  BY <1>1 DEF Inv, WordsInv
<1>5. PairsInv'
  BY <1>2, <1>3 DEF Inv, PairsInv
<1>6. RefutedInv'
  <2>1. Last' = Last /\ \A s, u, v : Tells(s, u, v)' <=> Tells(s, u, v)
    BY <1>1 DEF Last, Tells, Agree
  <2>. QED BY <1>1, <1>2, <2>1 DEF Inv, RefutedInv
<1>7. DealtInv'
  <2>1. ASSUME pc # "round", ~newCex, ~limit', NEW p \in Pairs
        PROVE  p \in todo' \/ Joined(p)' \/ ~Alike(p)
    <3>1. p \in todo \/ Joined(p) \/ ~Alike(p)
      BY <2>1 DEF Inv, DealtInv
    <3>2. Joined(p) => Joined(p)'
      BY PairOf DEF Joined
    <3>. QED BY <2>1, <3>1, <3>2
  <2>. QED BY <1>1, <1>2, <2>1 DEF DealtInv
<1>. QED BY <1>4, <1>5, <1>6, <1>7 DEF Inv

LEMMA TakeFacts ==
  ASSUME Inv, NEW p, Take(p)
  PROVE  /\ p \in todo /\ p.rep \in Swept /\ p.v \in Swept /\ p.rep < p.v
         /\ pc = "pairs" /\ todo' = todo \ {p} /\ todo' \subseteq todo
         /\ \A u \in Swept : Related(u, p.v) => p.rep <= u
         /\ \A q \in todo' : q.v # p.v
BY DEF Inv, CountInv, SweepTypeOK, PairsInv, Take

(* Types do not depend on what the classes are.                            *)
LEMMA CountKept ==
  ASSUME CountInv, UFInv', Nodes' = Nodes, todo' \subseteq todo,
         UNCHANGED <<graph, simVars, round, pc, refuted>>, limit' \in BOOLEAN
  PROVE  CountInv'
<1>1. ParentsBelow' /\ Swept' = Swept
  BY DEF UFInv, Swept
<1>. QED BY <1>1 DEF CountInv, SweepTypeOK, simVars

(* A pair is looked at and put aside: it was joined already, its words     *)
(* differ, or no answer came.                                              *)
LEMMA PutAside ==
  ASSUME Inv, NEW p, Take(p), parent' = Looked(parent, p.v, p.rep),
         UNCHANGED <<graph, simVars, round, pc, refuted>>, limit' \in {limit, TRUE},
         limit' \/ Joined(p) \/ ~Alike(p)
  PROVE  Inv'
<1>1. /\ todo' \subseteq todo /\ todo \ todo' = {p}
  BY TakeFacts
<1>2. UFInv' /\ Nodes' = Nodes /\ Canon(parent') = Canon(parent) /\ graph' = graph
  BY LookedStep DEF Inv
<1>3. NamedByFirst'
  BY <1>2, NamedKeeps DEF Inv
<1>4. CountInv'
  <2>1. limit' \in BOOLEAN
    BY DEF Inv, CountInv, SweepTypeOK
  <2>. QED BY <1>1, <1>2, <2>1, CountKept DEF Inv
<1>5. limit' \/ Joined(p)' \/ ~Alike(p)
  BY <1>2 DEF Joined
<1>. QED BY <1>1, <1>2, <1>3, <1>4, <1>5, SameRound

(* The solver proved a pair equal.                                         *)
LEMMA ProvedPair ==
  ASSUME Inv, NEW p, Take(p), ~Joined(p),
         graph.value[p.v] = LitValue(RepLit(p)),
         parent' = Merged(Looked(parent, p.v, p.rep), Lit(p.v, 0), RepLit(p)),
         UNCHANGED <<graph, simVars, round, pc, limit, refuted>>
  PROVE  Inv' /\ (Canon(parent') = Canon(parent) \/ Joins)
<1>1. /\ todo' \subseteq todo /\ todo \ todo' = {p} /\ p.rep \in Swept /\ p.v \in Swept
      /\ p.rep < p.v /\ \A u \in Swept : Related(u, p.v) => p.rep <= u
  BY TakeFacts
<1>2. PICK ph \in {0, 1} : RepLit(p) = Lit(p.rep, ph)
  BY DEF RepLit
<1>3. Canon(parent)[p.v].var # Canon(parent)[p.rep].var
  BY DEF Joined
<1>4. /\ UFInv' /\ Nodes' = Nodes /\ NamedByFirst'
      /\ Canon(parent') = Canon(parent) \/ Joins
      /\ Canon(parent')[p.v].var = Canon(parent')[p.rep].var
      /\ \A u, w \in Swept : Canon(parent)[u].var = Canon(parent)[w].var =>
                             Canon(parent')[u].var = Canon(parent')[w].var
  <2>. DEFINE r == p.rep
              v == p.v
  <2>1. /\ r \in Swept /\ v \in Swept /\ r < v /\ graph' = graph
        /\ \A u \in Swept : Related(u, v) => r <= u
        /\ Canon(parent)[v].var # Canon(parent)[r].var
        /\ graph.value[v] = LitValue(Lit(r, ph))
        /\ parent' = Merged(Looked(parent, v, r), Lit(v, 0), Lit(r, ph))
        /\ UFInv /\ NamedByFirst
    BY <1>1, <1>2, <1>3 DEF Inv
  <2>. HIDE DEF r, v
  <2>2. /\ UFInv' /\ Nodes' = Nodes /\ NamedByFirst'
        /\ Canon(parent') = Canon(parent) \/ Joins
        /\ Canon(parent')[v].var = Canon(parent')[r].var
        /\ \A u, w \in Swept : Canon(parent)[u].var = Canon(parent)[w].var =>
                               Canon(parent')[u].var = Canon(parent')[w].var
    BY <2>1, ProveStep
  <2>. QED BY <2>2 DEF r, v
<1>5. CountInv'
  <2>1. limit' \in BOOLEAN
    BY DEF Inv, CountInv, SweepTypeOK
  <2>. QED BY <1>1, <1>4, <2>1, CountKept DEF Inv
<1>6. Joined(p)'
  BY <1>4 DEF Joined
<1>. QED BY <1>1, <1>4, <1>5, <1>6, SameRound

(* The solver refuted a pair and its counterexample has a slot: the slot   *)
(* tells the two apart, whichever of the two phases was asked for.         *)
LEMMA SlotTells ==
  ASSUME Inv, NEW p, Take(p), Alike(p), NEW q \in Pats,
         (q \in graph.value[p.v]) # (q \in LitValue(RepLit(p)))
  PROVE  (pat[0] \in graph.value[p.rep] <=> pat[0] \in graph.value[p.v])
           # (q \in graph.value[p.rep] <=> q \in graph.value[p.v])
<1>1. /\ p.rep \in Swept /\ p.v \in Swept /\ 0 \in Slots
  BY TakeFacts, SlotFacts
<1>2. seen[0] = pat[0]
  BY DEF Inv, WordsInv
<1>3. \A v : 0 \in Row(v) <=> pat[0] \in graph.value[v]
  BY <1>1, <1>2 DEF Row
<1>4. CASE Row(p.v) = Row(p.rep)
  <2>1. LitValue(RepLit(p)) = graph.value[p.rep]
    BY <1>4, LitFields DEF RepLit, LitValue
  <2>2. pat[0] \in graph.value[p.rep] <=> pat[0] \in graph.value[p.v]
    BY <1>3, <1>4
  <2>. QED BY <2>1, <2>2
<1>5. CASE Row(p.v) # Row(p.rep)
  <2>1. LitValue(RepLit(p)) = Pats \ graph.value[p.rep]
    BY <1>5, LitFields DEF RepLit, LitValue
  <2>2. Row(p.v) = Slots \ Row(p.rep)
    BY <1>5 DEF Alike
  <2>3. 0 \in Row(p.v) <=> 0 \notin Row(p.rep)
    BY <1>1, <2>2
  <2>. QED BY <1>3, <2>1, <2>3
<1>. QED BY <1>4, <1>5

LEMMA StoredPair ==
  ASSUME Inv, NEW p, Take(p), Alike(p), parent' = Looked(parent, p.v, p.rep),
         NEW q \in Pats, (q \in graph.value[p.v]) # (q \in LitValue(RepLit(p))),
         Room(cexCount), pat' = [pat EXCEPT ![SlotFor(cexCount)] = q],
         cexCount' = cexCount + 1, newCex' = TRUE,
         refuted' = refuted \union {<<p.rep, p.v>>},
         UNCHANGED <<graph, seen, round, pc, limit>>
  PROVE  Inv'
<1>1. PICK n \in Slots :
      /\ n = SlotFor(cexCount) /\ n # 0 /\ n = Last /\ Last' = n + 1 /\ Last \in Nat
      /\ cexCount' \in 0 .. CexSlots /\ 0 .. Last - 1 \subseteq Slots /\ 0 \in Slots
  BY SlotFacts DEF SlotFor, Room, Slots, Last, Inv, CountInv, SweepTypeOK
<1>2. /\ pat' \in [Slots -> Pats] /\ pat'[n] = q
      /\ \A s \in Slots : s # n => pat'[s] = pat[s]
  <2>1. pat \in [Slots -> Pats] /\ pat' = [pat EXCEPT ![n] = q]
    BY <1>1 DEF Inv, CountInv, SweepTypeOK
  <2>. QED BY <1>1, <2>1
<1>3. /\ p \in todo /\ p.rep \in Swept /\ p.v \in Swept /\ pc = "pairs"
      /\ todo' = todo \ {p} /\ todo' \subseteq todo /\ \A u \in todo' : u.v # p.v
  BY TakeFacts
<1>4. UFInv' /\ Nodes' = Nodes /\ Canon(parent') = Canon(parent)
  BY LookedStep DEF Inv
<1>5. NamedByFirst'
  BY <1>4, NamedKeeps DEF Inv
<1>6. Swept' = Swept /\ \A u, v : Related(u, v)' <=> Related(u, v)
  BY DEF Swept, Related
<1>7. CountInv'
  <2>1. refuted' \subseteq Swept \X Swept
    BY <1>3 DEF Inv, CountInv, SweepTypeOK
  <2>2. ParentsBelow'
    BY <1>4 DEF UFInv
  <2>. QED BY <1>1, <1>2, <1>3, <1>4, <1>6, <2>1, <2>2 DEF Inv, CountInv, SweepTypeOK
<1>8. WordsInv'
  BY <1>1, <1>2, <1>3 DEF Inv, WordsInv
<1>9. PairsInv'
  BY <1>3, <1>6 DEF Inv, PairsInv
<1>10. RefutedInv'
  <2>1. ASSUME NEW u \in Swept, NEW v \in Swept, <<u, v>> \in refuted'
        PROVE  \E s \in 0 .. Last' - 1 :
                 Tells(s, u, v)' /\ (seen[s] = pat'[s] \/ \A x \in todo' : x.v # v)
    <3>1. CASE <<u, v>> \in refuted
      <4>1. PICK s \in 0 .. Last - 1 :
              Tells(s, u, v) /\ (seen[s] = pat[s] \/ \A x \in todo : x.v # v)
        BY <3>1 DEF Inv, RefutedInv
      <4>2. s \in 0 .. Last' - 1 /\ s # n
        BY <1>1
      <4>3. Tells(s, u, v)'
        BY <1>1, <1>2, <4>1, <4>2 DEF Tells, Agree
      <4>. QED BY <1>2, <1>3, <4>1, <4>2, <4>3
    <3>2. CASE <<u, v>> = <<p.rep, p.v>>
      <4>1. u = p.rep /\ v = p.v
        BY <3>2
      <4>2. (pat[0] \in graph.value[u] <=> pat[0] \in graph.value[v])
              # (q \in graph.value[u] <=> q \in graph.value[v])
        BY <4>1, SlotTells
      <4>3. Tells(n, u, v)'
        <5>1. pat'[0] = pat[0] /\ pat'[n] = q /\ graph' = graph
          BY <1>1, <1>2
        <5>. QED BY <4>2, <5>1 DEF Tells, Agree
      <4>4. n \in 0 .. Last' - 1
        BY <1>1
      <4>. QED BY <1>3, <4>1, <4>3, <4>4
    <3>. QED BY <2>1, <3>1, <3>2
  <2>. QED BY <1>6, <2>1 DEF RefutedInv
<1>11. DealtInv'
  BY DEF DealtInv
<1>. QED BY <1>4, <1>5, <1>7, <1>8, <1>9, <1>10, <1>11 DEF Inv

-----------------------------------------------------------------------------
(* A round begins: its pairs are those of the buckets.                     *)
LEMMA RoundStarts ==
  ASSUME Inv, StartRound
  PROVE  Inv'
<1>1. /\ pc = "round" /\ pc' = "pairs" /\ todo' = Pairs /\ newCex' = FALSE
      /\ UNCHANGED <<graph, parent, pat, seen, cexCount, round, limit, refuted>>
      /\ UFInv /\ CountInv /\ NamedByFirst
  BY DEF StartRound, Inv
<1>2. seen = pat
  BY <1>1 DEF Inv, WordsInv
<1>3. Swept' = Swept /\ Pairs' = Pairs /\ \A u, v : Related(u, v)' <=> Related(u, v)
  BY <1>1, SameWords DEF Related
<1>4. UFInv'
  BY <1>1 DEF UFInv, ParentsBelow, ClassesSound, Nodes, LitValue
<1>5. CountInv'
  <2>1. \A p \in Pairs : p.rep \in Swept /\ p.v \in Swept /\ p.rep < p.v
    BY PairOf
  <2>2. ParentsBelow'
    BY <1>4 DEF UFInv
  <2>. QED BY <1>1, <1>3, <2>1, <2>2 DEF CountInv, SweepTypeOK, Nodes
<1>6. WordsInv'
  BY <1>1, <1>2 DEF WordsInv
<1>7. graph \in Graphs /\ pat \in [Slots -> Pats] /\ Swept \subseteq Nat
  BY <1>1, GraphFacts DEF CountInv, SweepTypeOK, ParentsBelow
<1>8. PairsInv'
  <2>1. ASSUME NEW p \in Pairs, NEW u \in Swept, Related(u, p.v) PROVE p.rep <= u
    <3>1. p.v \in Swept /\ Signature(p.v) = p.key /\ Leads(p.rep, p.v)
      BY PairOf
    <3>2. Signature(u) = Signature(p.v)
      BY <1>2, <1>7, <2>1, <3>1, RelatedSignature
    <3>. QED BY <3>1, <3>2 DEF Leads
  <2>2. ASSUME NEW p \in Pairs, NEW q \in Pairs, p.v = q.v PROVE p = q
    <3>1. /\ p.rep \in Swept /\ Signature(p.rep) = p.key /\ Signature(p.v) = p.key
          /\ Leads(p.rep, p.v) /\ p = [key |-> p.key, rep |-> p.rep, v |-> p.v]
          /\ q.rep \in Swept /\ Signature(q.rep) = q.key /\ Signature(q.v) = q.key
          /\ Leads(q.rep, q.v) /\ q = [key |-> q.key, rep |-> q.rep, v |-> q.v]
      BY PairOf
    <3>2. p.key = q.key
      BY <2>2, <3>1
    <3>3. p.rep <= q.rep /\ q.rep <= p.rep
      BY <2>2, <3>1, <3>2 DEF Leads
    <3>4. p.rep = q.rep
      BY <1>7, <3>1, <3>3
    <3>. QED BY <2>2, <3>1, <3>2, <3>4
  <2>. QED BY <1>1, <1>3, <2>1, <2>2 DEF PairsInv
<1>9. RefutedInv'
  <2>1. Last' = Last /\ \A s, u, v : Tells(s, u, v)' <=> Tells(s, u, v)
    BY <1>1 DEF Last, Tells, Agree
  <2>. QED BY <1>1, <1>2, <1>3, <2>1 DEF Inv, RefutedInv
<1>10. DealtInv'
  BY <1>1, <1>3 DEF DealtInv
<1>11. NamedByFirst'
  BY <1>1, NamedKeeps
<1>. QED BY <1>4, <1>5, <1>6, <1>8, <1>9, <1>10, <1>11 DEF Inv

(* A round ends: the sweep is over, or the words are computed anew.        *)
LEMMA RoundEnds ==
  ASSUME Inv, EndRound
  PROVE  Inv'
<1>1. /\ pc = "pairs" /\ todo = {}
      /\ UNCHANGED <<graph, parent, pat, cexCount, newCex, todo, limit, refuted>>
      /\ UFInv /\ CountInv /\ NamedByFirst /\ WordsInv
  BY DEF EndRound, Inv
<1>2. \/ ~newCex /\ pc' = "done" /\ seen' = seen /\ round' = round
      \/ /\ newCex /\ seen' = pat /\ round' = round + 1
         /\ pc' = IF round + 1 = MaxRounds THEN "done" ELSE "round"
  BY DEF EndRound, Recomputed
<1>3. Swept' = Swept /\ Nodes' = Nodes /\ \A u, v : Related(u, v)' <=> Related(u, v)
  BY <1>1 DEF Swept, Nodes, Related
<1>4. UFInv'
  BY <1>1 DEF UFInv, ParentsBelow, ClassesSound, Nodes, LitValue
<1>5. CountInv'
  <2>1. ParentsBelow'
    BY <1>4 DEF UFInv
  <2>2. /\ seen' \in [Slots -> Pats] /\ pc' \in {"round", "pairs", "done"} /\ pc' # "pairs"
    BY <1>1, <1>2 DEF CountInv, SweepTypeOK
  <2>3. /\ round' \in 0 .. MaxRounds /\ (pc' # "done" => round' < MaxRounds)
    BY <1>1, <1>2, SlotFacts DEF CountInv, SweepTypeOK
  <2>. QED BY <1>1, <1>3, <2>1, <2>2, <2>3 DEF CountInv, SweepTypeOK
<1>6. WordsInv'
  BY <1>1, <1>2 DEF WordsInv
<1>7. PairsInv'
  BY <1>1 DEF PairsInv
<1>8. RefutedInv'
  <2>1. Last' = Last /\ \A s, u, v : Tells(s, u, v)' <=> Tells(s, u, v)
    BY <1>1 DEF Last, Tells, Agree
  <2>. QED BY <1>1, <1>2, <1>3, <2>1 DEF Inv, RefutedInv
<1>9. DealtInv'
  <2>1. CASE newCex
    BY <1>1, <2>1 DEF DealtInv
  <2>2. CASE ~newCex
    <3>1. Pairs' = Pairs /\ \A p : Alike(p)' <=> Alike(p)
      BY <1>1, <1>2, <2>2, SameWords
    <3>2. \A p : Joined(p)' <=> Joined(p)
      BY <1>1 DEF Joined
    <3>. QED BY <1>1, <3>1, <3>2 DEF Inv, DealtInv
  <2>. QED BY <2>1, <2>2
<1>10. NamedByFirst'
  BY <1>1, NamedKeeps
<1>. QED BY <1>4, <1>5, <1>6, <1>7, <1>8, <1>9, <1>10 DEF Inv

(* The registry and buildVar change no class of the nodes that were swept. *)
LEMMA Used ==
  ASSUME Inv, Use
  PROVE  Inv'
<1>1. /\ pc = "done" /\ UNCHANGED <<graph, simVars, round, pc, todo, limit, refuted>>
      /\ [UFNext]_ufVars /\ UFInv /\ CountInv /\ NamedByFirst
  BY DEF Use, UFNext, LookUp, Ensure, Inv
<1>2. UFInv'
  BY <1>1, StepDoes
<1>3. \A v \in Swept : Canon(parent')[v] = Canon(parent)[v]
  <2>1. PICK n \in {graph.swept, graph.last} :
          /\ n <= graph.last /\ graph.last \in Nat /\ graph \in Graphs /\ Below(parent, n)
    BY <1>1, InvUsed
  <2>2. /\ n \in Nat /\ Swept \subseteq 0 .. n /\ Swept \subseteq 0 .. graph.last
    BY <2>1, GraphFacts DEF Swept
  <2>3. CASE LookUp
    BY <2>1, <2>3, CompressedCanon DEF LookUp
  <2>4. CASE Ensure
    <3>. DEFINE m == graph.last
    <3>1. Canon(Ensured(parent, m))
            = [v \in 0 .. m |-> IF v \in 0 .. n THEN Canon(parent)[v] ELSE Lit(v, 0)]
      BY <2>1, EnsuredCanon
    <3>. QED BY <2>2, <2>4, <3>1 DEF Ensure
  <2>. QED BY <2>3, <2>4 DEF Use
<1>4. NamedByFirst'
  BY <1>1, <1>3, NamedKeeps
<1>5. CountInv'
  <2>1. ParentsBelow' /\ Swept' = Swept
    BY <1>1, <1>2 DEF UFInv, Swept
  <2>. QED BY <1>1, <2>1 DEF CountInv, SweepTypeOK, simVars
<1>. QED BY <1>1, <1>2, <1>3, <1>4, <1>5, SameRound

LEMMA InvInit ==
  ASSUME Init
  PROVE  Inv
<1>1. /\ UFInit /\ pat \in [Slots -> Pats] /\ seen = pat /\ cexCount = 0 /\ newCex = FALSE
      /\ round = 0 /\ pc = "round" /\ todo = {} /\ limit = FALSE /\ refuted = {}
  BY DEF Init
<1>2. UFInv /\ Canon(parent) = [v \in 0 .. graph.swept |-> Lit(v, 0)]
  BY <1>1, InitDoes
<1>3. CountInv
  <2>1. Nodes = Swept
    BY <1>1 DEF UFInit, Singletons, Nodes, Swept
  <2>2. ParentsBelow
    BY <1>2 DEF UFInv
  <2>3. /\ cexCount \in 0 .. CexSlots /\ round \in 0 .. MaxRounds /\ round < MaxRounds
        /\ \A p \in todo : p.rep \in Swept /\ p.v \in Swept /\ p.rep < p.v
        /\ refuted \subseteq Swept \X Swept
    BY <1>1, SlotFacts
  <2>4. SweepTypeOK
    BY <1>1, <2>2, <2>3 DEF SweepTypeOK
  <2>. QED BY <1>1, <2>1, <2>3, <2>4 DEF CountInv
<1>4. WordsInv /\ PairsInv /\ RefutedInv /\ DealtInv
  BY <1>1 DEF WordsInv, PairsInv, RefutedInv, DealtInv
<1>5. NamedByFirst
  BY <1>2, LitFields DEF NamedByFirst, Swept
<1>. QED BY <1>2, <1>3, <1>4, <1>5 DEF Inv

LEMMA InvKept ==
  ASSUME Inv, [Next]_vars
  PROVE  Inv'
<1>1. CASE StartRound
  BY <1>1, RoundStarts
<1>2. CASE Skip
  <2>1. PICK p \in todo : /\ Take(p) /\ (Joined(p) \/ ~Alike(p))
                          /\ parent' = Looked(parent, p.v, p.rep)
    BY <1>2 DEF Skip
  <2>. QED BY <1>2, <2>1, PutAside DEF Skip
<1>3. CASE Prove
  <2>1. PICK p \in todo :
          /\ Take(p) /\ ~Joined(p) /\ Alike(p) /\ graph.value[p.v] = LitValue(RepLit(p))
          /\ parent' = Merged(Looked(parent, p.v, p.rep), Lit(p.v, 0), RepLit(p))
    BY <1>3 DEF Prove
  <2>. QED BY <1>3, <2>1, ProvedPair DEF Prove
<1>4. CASE Refute
  <2>1. PICK p \in todo, q \in Pats :
          /\ Take(p) /\ ~Joined(p) /\ Alike(p) /\ parent' = Looked(parent, p.v, p.rep)
          /\ (q \in graph.value[p.v]) # (q \in LitValue(RepLit(p)))
          /\ \/ /\ Room(cexCount)
                /\ pat' = [pat EXCEPT ![SlotFor(cexCount)] = q]
                /\ cexCount' = cexCount + 1 /\ newCex' = TRUE
                /\ refuted' = refuted \union {<<p.rep, p.v>>}
                /\ UNCHANGED limit
             \/ /\ ~Room(cexCount) /\ limit' = TRUE
                /\ UNCHANGED <<pat, cexCount, newCex, refuted>>
    BY <1>4 DEF Refute
  <2>2. UNCHANGED <<graph, seen, round, pc>>
    BY <1>4 DEF Refute
  <2>3. CASE Room(cexCount)
    BY <2>1, <2>2, <2>3, StoredPair
  <2>4. CASE ~Room(cexCount)
    <3>1. limit' = TRUE /\ UNCHANGED <<graph, simVars, round, pc, refuted>>
      BY <2>1, <2>2, <2>4 DEF simVars
    <3>. QED BY <2>1, <3>1, PutAside
  <2>. QED BY <2>3, <2>4
<1>5. CASE Undecided
  <2>1. PICK p \in todo : Take(p) /\ parent' = Looked(parent, p.v, p.rep)
    BY <1>5 DEF Undecided
  <2>. QED BY <1>5, <2>1, PutAside DEF Undecided
<1>6. CASE EndRound
  BY <1>6, RoundEnds
<1>7. CASE Use
  BY <1>7, Used
<1>8. CASE UNCHANGED vars
  <2>1. UNCHANGED <<graph, parent, simVars, round, pc, todo, limit, refuted>>
    BY <1>8 DEF vars
  <2>2. UFInv'
    BY <2>1 DEF Inv, UFInv, ParentsBelow, ClassesSound, Nodes, LitValue
  <2>3. NamedByFirst'
    BY <2>1, NamedKeeps DEF Inv
  <2>4. CountInv'
    <3>1. Nodes' = Nodes /\ limit' \in BOOLEAN
      BY <2>1 DEF Nodes, Inv, CountInv, SweepTypeOK
    <3>. QED BY <2>1, <2>2, <3>1, CountKept DEF Inv
  <2>. QED BY <2>1, <2>2, <2>3, <2>4, SameRound
<1>. QED BY <1>1, <1>2, <1>3, <1>4, <1>5, <1>6, <1>7, <1>8 DEF Next

(* Among all that a step of the sweep does, it joins two classes of one    *)
(* value, makes new nodes, or leaves the classes as they are.              *)
LEMMA ClassesKept ==
  ASSUME Inv, [Next]_vars
  PROVE  graph' = graph /\ (Canon(parent') = Canon(parent) \/ Joins \/ ExtendsGraph)
<1>1. graph' = graph
  BY DEF Next, StartRound, Skip, Prove, Refute, Undecided, EndRound, Use, LookUp, Ensure,
         vars
<1>2. CASE StartRound \/ EndRound \/ UNCHANGED vars
  BY <1>1, <1>2 DEF StartRound, EndRound, vars
<1>3. CASE Skip \/ Refute \/ Undecided
  <2>1. PICK p \in todo : parent' = Looked(parent, p.v, p.rep)
    BY <1>3 DEF Skip, Refute, Undecided
  <2>. QED BY <1>1, <2>1, LookedStep DEF Inv
<1>4. CASE Prove
  <2>1. PICK p \in todo :
          /\ Take(p) /\ ~Joined(p) /\ Alike(p) /\ graph.value[p.v] = LitValue(RepLit(p))
          /\ parent' = Merged(Looked(parent, p.v, p.rep), Lit(p.v, 0), RepLit(p))
    BY <1>4 DEF Prove
  <2>. QED BY <1>1, <1>4, <2>1, ProvedPair DEF Prove
<1>5. CASE Use
  <2>1. [UFNext]_ufVars
    BY <1>5 DEF Use, UFNext
  <2>. QED BY <1>1, <2>1, StepDoes DEF Inv
<1>. QED BY <1>2, <1>3, <1>4, <1>5 DEF Next

LEMMA InvHolds == Spec => []Inv
<1>1. Init => Inv
  BY InvInit
<1>2. Inv /\ [Next]_vars => Inv'
  BY InvKept
<1>. QED BY <1>1, <1>2, PTL DEF Spec

-----------------------------------------------------------------------------
(* The words keep holding patterns, the counterexamples fit their slots,   *)
(* the rounds come to an end at their limit, and the pairs are pairs of    *)
(* different nodes that the graph has.                                     *)
THEOREM SweepTyped == Spec => []SweepTypeOK
<1>1. Inv => SweepTypeOK
  BY DEF Inv, CountInv
<1>. QED BY <1>1, InvHolds, PTL

(* A node that is not alone in its class is named by the first of all the  *)
(* nodes it is equal or complementary to, whichever pairs were lost to a   *)
(* limit and whichever signatures collide.                                 *)
THEOREM SweepNamedByFirst == Spec => []NamedByFirst
<1>1. Inv => NamedByFirst
  BY DEF Inv
<1>. QED BY <1>1, InvHolds, PTL

(* The classes are sound all along the sweep and after it.                 *)
THEOREM SweepSound == Spec => []ClassesSound
<1>1. Inv => ClassesSound
  BY DEF Inv, UFInv
<1>. QED BY <1>1, InvHolds, PTL

(* The solver is never asked again for a pair it refuted, as long as the   *)
(* counterexample was stored: the words of the two nodes, or of one and    *)
(* the complement of the other, differ in its slot.                        *)
THEOREM SweepRefutedOnce == Spec => []RefutedOnce
<1>1. Inv => RefutedOnce
  <2>. SUFFICES ASSUME Inv, NEW p \in todo, <<p.rep, p.v>> \in refuted, Alike(p)
                PROVE  FALSE
    BY DEF RefutedOnce
  <2>1. p.rep \in Swept /\ p.v \in Swept /\ cexCount \in 0 .. CexSlots
    BY DEF Inv, CountInv, SweepTypeOK
  <2>2. PICK s \in 0 .. Last - 1 :
          /\ Tells(s, p.rep, p.v)
          /\ seen[s] = pat[s] \/ \A q \in todo : q.v # p.v
    BY <2>1 DEF Inv, RefutedInv
  <2>3. seen[s] = pat[s] /\ seen[0] = pat[0]
    BY <2>2 DEF Inv, WordsInv
  <2>4. s \in Slots /\ 0 \in Slots
    BY <2>1, SlotFacts DEF Last, Slots
  <2>5. \A v : /\ 0 \in Row(v) <=> pat[0] \in graph.value[v]
               /\ s \in Row(v) <=> pat[s] \in graph.value[v]
    BY <2>3, <2>4 DEF Row
  <2>6. \/ /\ 0 \in Row(p.v) <=> 0 \in Row(p.rep)
           /\ s \in Row(p.v) <=> s \in Row(p.rep)
        \/ /\ 0 \in Row(p.v) <=> 0 \notin Row(p.rep)
           /\ s \in Row(p.v) <=> s \notin Row(p.rep)
    BY <2>4 DEF Alike
  <2>. QED BY <2>2, <2>5, <2>6 DEF Tells, Agree
<1>. QED BY <1>1, InvHolds, PTL

(* When no answer was lost to a limit and no two signatures collide, nodes *)
(* that are equal or complementary end in one class, although a node is    *)
(* compared with none but the first of its bucket.                         *)
THEOREM SweepFindsAll == Spec => []SweepComplete
<1>1. Inv => SweepComplete
  <2>. SUFFICES ASSUME Inv, pc = "done", ~newCex, ~limit, NoCollision,
                       NEW u \in Swept, NEW v \in Swept, Related(u, v)
                PROVE  Canon(parent)[u].var = Canon(parent)[v].var
    BY DEF SweepComplete
  <2>1. /\ graph \in Graphs /\ pat \in [Slots -> Pats] /\ todo = {} /\ seen = pat
        /\ Swept \subseteq Nat
    BY GraphFacts DEF Inv, CountInv, SweepTypeOK, ParentsBelow, WordsInv
  <2>. DEFINE T == {w \in Swept : Signature(w) = Signature(u)}
  <2>2. PICK r \in T : \A w \in T : r <= w
    <3>1. T \subseteq Nat /\ T # {}
      BY <2>1
    <3>. HIDE DEF T
    <3>. QED BY <3>1, Smallest
  <2>3. ASSUME NEW w \in T PROVE Canon(parent)[w].var = Canon(parent)[r].var
    <3>. DEFINE p == [key |-> Signature(w), rep |-> r, v |-> w]
    <3>1. CASE w = r
      BY <3>1
    <3>2. CASE w # r
      <4>1. /\ w \in Swept /\ r \in Swept /\ r < w
            /\ Signature(r) = Signature(w) /\ Leads(r, w)
        BY <2>1, <2>2, <3>2 DEF Leads
      <4>2. p \in Pairs
        BY <4>1 DEF Pairs
      <4>3. p.v = w /\ p.rep = r
        OBVIOUS
      <4>. HIDE DEF p
      <4>4. Alike(p)
        <5>1. Normal(Row(w)) = Normal(Row(r))
          BY <4>1 DEF NoCollision
        <5>2. Row(w) \in SUBSET Slots /\ Row(r) \in SUBSET Slots
          BY DEF Row
        <5>. QED BY <4>3, <5>1, <5>2, NormalOf DEF Alike
      <4>5. Joined(p)
        BY <2>1, <4>2, <4>4 DEF Inv, DealtInv
      <4>. QED BY <4>3, <4>5 DEF Joined
    <3>. QED BY <3>1, <3>2
  <2>4. u \in T /\ v \in T
    <3>1. Signature(u) = Signature(v)
      BY <2>1, RelatedSignature
    <3>. QED BY <3>1
  <2>. QED BY <2>3, <2>4
<1>. QED BY <1>1, InvHolds, PTL

(* The sweep, with the solver and the words, does nothing to the classes   *)
(* that Classes does not allow: it only joins two that have one value.     *)
THEOREM SweepImplementsClasses == Spec => ImplementsClasses
<1>1. Init => Promise!Init
  <2>1. ASSUME Init PROVE UFInit
    BY <2>1 DEF Init
  <2>. QED BY <2>1, ClassesBegin
<1>2. Inv /\ Inv' /\ [Next]_vars => [Promise!Next]_Promise!vars
  BY ClassesKept, ClassesStep DEF Inv
<1>. QED BY <1>1, <1>2, InvHolds, PTL DEF Spec, ImplementsClasses, Promise!Spec
=============================================================================
