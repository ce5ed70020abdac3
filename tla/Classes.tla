------------------------------- MODULE Classes -------------------------------
(***************************************************************************)
(* What the phase-aware union-find of main.cpp promises: the nodes of the  *)
(* AIG are divided into classes, each named by a literal of its smallest   *)
(* node, and canon gives for every node the literal it equals.  Classes    *)
(* are only joined, only when the literals have the same value, and nodes  *)
(* that are new stand for themselves.                                      *)
(***************************************************************************)
EXTENDS Integers

CONSTANTS Pats   \* the input patterns

VARIABLES
  value,   \* node -> the set of input patterns on which it is 1
  canon    \* node -> its canonical literal

vars == <<value, canon>>

Lit(v, neg) == [var |-> v, neg |-> neg]
Flip(l, ph) == Lit(l.var, IF ph = 0 THEN l.neg ELSE 1 - l.neg)
LitValue(l) == IF l.neg = 0 THEN value[l.var] ELSE Pats \ value[l.var]

Nodes == DOMAIN canon
Roots == {v \in Nodes : canon[v] = Lit(v, 0)}

Init == canon = [v \in Nodes |-> Lit(v, 0)]

Join ==
  \E a, b \in Roots, ph \in {0, 1} :
    /\ a < b /\ value[b] = LitValue(Lit(a, ph))
    /\ canon' = [v \in Nodes |->
                   IF canon[v].var = b THEN Flip(Lit(a, ph), canon[v].neg) ELSE canon[v]]
    /\ UNCHANGED value

Extend ==
  /\ Nodes \subseteq Nodes'
  /\ canon' = [v \in Nodes' |-> IF v \in Nodes THEN canon[v] ELSE Lit(v, 0)]
  /\ UNCHANGED value

Next == Join \/ Extend

Spec == Init /\ [][Next]_vars

(* Every node has the value of its canonical literal.                      *)
Sound ==
  \A v \in Nodes : value[v] = LitValue(canon[v])
=============================================================================
