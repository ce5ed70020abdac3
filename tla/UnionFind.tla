------------------------------ MODULE UnionFind ------------------------------
(***************************************************************************)
(* The phase-aware union-find of main.cpp over the nodes of the AIG.  The  *)
(* parent of a node is a literal: another node, which it equals or is the  *)
(* complement of, or itself when it is the root of its class.              *)
(*                                                                         *)
(* A node is known by its value, the set of input patterns on which it is  *)
(* 1.  Literals are merged when their values have been proved equal.       *)
(***************************************************************************)
EXTENDS Integers, FiniteSets

CONSTANTS
  Pats,     \* the input patterns
  Graphs    \* the graphs: [value, pis, swept, last]

(* Nodes 0 to swept exist from the start, the others are made later; node  *)
(* 0 is the constant.                                                      *)
ASSUME UnionFindAssumption ==
  \A g \in Graphs :
    /\ g.swept \in Nat /\ g.last \in Nat /\ g.swept <= g.last
    /\ g.value \in [0 .. g.last -> SUBSET Pats]
    /\ g.pis \subseteq 1 .. g.last /\ g.value[0] = {}

VARIABLES
  graph,
  parent    \* node -> literal

ufVars == <<graph, parent>>

Nodes == DOMAIN parent

Lit(v, neg) == [var |-> v, neg |-> neg]
Flip(l, ph) == Lit(l.var, IF ph = 0 THEN l.neg ELSE 1 - l.neg)
LitValue(l) == IF l.neg = 0 THEN graph.value[l.var] ELSE Pats \ graph.value[l.var]

-----------------------------------------------------------------------------
(* find of the positive literal of every node, and of a literal.           *)
Canon(par) ==
  LET c[v \in DOMAIN par] ==
        IF par[v].var = v THEN Lit(v, 0) ELSE Flip(c[par[v].var], par[v].neg)
  IN  c

Find(par, l) == Flip(Canon(par)[l.var], l.neg)

(* The nodes find passes on its way from v, without the root.              *)
Path(par, v) ==
  LET p[u \in DOMAIN par] ==
        IF par[u].var = u THEN {} ELSE {u} \union p[par[u].var]
  IN  p[v]

(* Path compression: find (2 * v) hangs them below the root.               *)
CompressedPlain(par, v) ==   \* mutant: the phases on the way are lost
  [u \in DOMAIN par |-> IF u \in Path(par, v) THEN Lit(Canon(par)[u].var, par[u].neg)
                        ELSE par[u]]
Compressed(par, v) ==
  [u \in DOMAIN par |-> IF u \in Path(par, v) THEN Canon(par)[u] ELSE par[u]]

(* The root of the larger number is hung below the other.                  *)
HungAnyhow(par, a, b) ==     \* mutant: whichever number is smaller
  IF a.var = b.var THEN par ELSE [par EXCEPT ![b.var] = Flip(a, b.neg)]
HungPlain(par, a, b) ==      \* mutant: the phase of b is lost
  IF a.var = b.var THEN par
  ELSE IF a.var < b.var THEN [par EXCEPT ![b.var] = a]
  ELSE [par EXCEPT ![a.var] = b]
Hung(par, a, b) ==
  IF a.var = b.var THEN par
  ELSE IF a.var < b.var THEN [par EXCEPT ![b.var] = Flip(a, b.neg)]
  ELSE [par EXCEPT ![a.var] = Flip(b, a.neg)]

(* merge: find both, then hang one root below the other.                   *)
Looked(par, v, w) == Compressed(Compressed(par, v), w)

Merged(par, a, b) ==
  LET looked == Looked(par, a.var, b.var)
  IN  Hung(looked, Find(looked, a), Find(looked, b))

Singletons(n) == [v \in 0 .. n |-> Lit(v, 0)]

(* ensure: nodes up to n stand for themselves.                             *)
Ensured(par, n) ==
  [v \in DOMAIN par \union 0 .. n |-> IF v \in DOMAIN par THEN par[v] ELSE Lit(v, 0)]

-----------------------------------------------------------------------------
UFInit ==
  /\ graph \in Graphs
  /\ parent = Singletons(graph.swept)

Merge ==
  /\ \E v, w \in Nodes, ph \in {0, 1} :
       /\ graph.value[v] = LitValue(Lit(w, ph))
       /\ parent' = Merged(parent, Lit(v, 0), Lit(w, ph))
  /\ UNCHANGED graph

LookUp ==
  /\ \E v \in Nodes : parent' = Compressed(parent, v)
  /\ UNCHANGED graph

Ensure ==
  /\ parent' = Ensured(parent, graph.last)
  /\ UNCHANGED graph

UFNext == Merge \/ LookUp \/ Ensure

UFSpec == UFInit /\ [][UFNext]_ufVars

-----------------------------------------------------------------------------
(* Properties.                                                             *)

(* A parent is never above its child, so that find comes to an end.        *)
ParentsBelow ==
  /\ graph \in Graphs
  /\ Nodes = 0 .. graph.swept \/ Nodes = 0 .. graph.last
  /\ \A v \in Nodes :
       /\ parent[v] = Lit(parent[v].var, parent[v].neg)
       /\ parent[v].var \in 0 .. v /\ parent[v].neg \in {0, 1}
       /\ parent[v].var = v => parent[v].neg = 0

(* The literal find returns has the value of the one it was given, through *)
(* any number of merges, phases and compressions: buildVar (main.cpp:431)  *)
(* puts one in the place of the other.                                     *)
ClassesSound ==
  \A v \in Nodes : graph.value[v] = LitValue(Canon(parent)[v])

(* The union-find implements Classes: merge joins two classes and nothing  *)
(* else, and no find changes any, whatever it compresses.                  *)
Promise == INSTANCE Classes WITH value <- graph.value, canon <- Canon(parent)

ImplementsClasses == Promise!Spec
=============================================================================
