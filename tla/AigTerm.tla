------------------------------ MODULE AigTerm ------------------------------
(***************************************************************************)
(* The and-inverter graphs of aig.hpp as terms.  A literal is              *)
(* [node, ph]; a node is the constant 0, a port (an input of the graph) or *)
(* an AND of two literals.  Equal terms are one node: this is what the     *)
(* structural hash of mkAnd makes of them.  The operands of a node have a  *)
(* lower level than the node, as they have a lower index in the code.      *)
(*                                                                         *)
(* The shared AIG of G1 and R2 has primary input nets as its ports; the    *)
(* AIG of a patch has names of nets (see Circuit).                         *)
(***************************************************************************)
EXTENDS Circuit

Lit(x, ph) == [node |-> x, ph |-> ph]
Port(p) == Lit([op |-> "port", level |-> 0, port |-> p], 0)
Zero == Lit([op |-> "const", level |-> 0], 0)
One == Lit([op |-> "const", level |-> 0], 1)

(* An exception instead of a literal, and what takes its place.            *)
NoLit == Lit([op |-> "none", level |-> 0], 0)
Else(l, m) == IF l = NoLit THEN m ELSE l

Not(l) == Lit(l.node, 1 - l.ph)
Flip(l, ph) == IF ph = 1 /\ l # NoLit THEN Not(l) ELSE l
Positive(l) == Lit(l.node, 0)

AndNode(a, b) ==
  [op |-> "and", ins |-> {a, b},
   level |-> 1 + IF a.node.level < b.node.level THEN b.node.level ELSE a.node.level]

(* mkAnd folds constants, equal and opposite operands.                     *)
And(a, b) ==
  IF Zero \in {a, b} \/ a = Not(b) THEN Zero
  ELSE IF a = One \/ a = b THEN b
  ELSE IF b = One THEN a
  ELSE Lit(AndNode(a, b), 0)

Or(a, b) == Not(And(Not(a), Not(b)))
Xor(a, b) == Or(And(a, Not(b)), And(Not(a), b))
Mux(s, t, e) == Or(And(s, t), And(Not(s), e))

(* gateFunc: the literal of a gate, from those of its inputs.              *)
AndAll(ins) ==
  LET all[i \in 0..Len(ins)] == IF i = 0 THEN One ELSE And(all[i - 1], ins[i])
  IN  all[Len(ins)]

XorAll(ins) ==
  LET all[i \in 0..Len(ins)] == IF i = 0 THEN Zero ELSE Xor(all[i - 1], ins[i])
  IN  all[Len(ins)]

OrAll(ins) == Not(AndAll([i \in 1..Len(ins) |-> Not(ins[i])]))

GateTerm(type, ins) ==
  CASE type = "and" -> AndAll(ins)
    [] type = "nand" -> Not(AndAll(ins))
    [] type = "or" -> OrAll(ins)
    [] type = "nor" -> Not(OrAll(ins))
    [] type = "xor" -> XorAll(ins)
    [] type = "xnor" -> Not(XorAll(ins))
    [] type = "not" -> Not(ins[1])
    [] type = "buf" -> ins[1]

-----------------------------------------------------------------------------
(* The nodes a literal is built from, and its ports.                       *)
Operands(x) == IF x.op = "and" THEN {i.node : i \in x.ins} ELSE {}

Cone(l) ==
  LET grow[i \in 0..l.node.level] ==
        IF i = 0 THEN {l.node}
        ELSE grow[i - 1] \union UNION {Operands(x) : x \in grow[i - 1]}
  IN  grow[l.node.level]

PortsOf(l) == {x.port : x \in {y \in Cone(l) : y.op = "port"}}

(* The patterns on which a literal is 1, given those of the ports.         *)
Phased(pats, val, ph) == IF ph = 1 THEN pats \ val ELSE val

NodeValue(pats, val, base, x) ==
  CASE x.op = "const" -> {}
    [] x.op = "port" -> val[x.port]
    [] x.op = "and" -> {p \in pats : \A i \in x.ins : p \in Phased(pats, base[i.node], i.ph)}

TermValue(pats, val, l) ==
  LET base[x \in Cone(l)] == NodeValue(pats, val, base, x)
  IN  Phased(pats, base[l.node], l.ph)

(* A literal as mkAnd makes them: its cone is a graph without cycles.      *)
IsNode(x, graph) ==
  \/ x = Zero.node
  \/ x.op = "port" /\ x.port \in Int /\ x = Port(x.port).node
  \/ /\ x.op = "and" /\ x.level \in Nat
     /\ \E a, b \in x.ins : a # b /\ x = AndNode(a, b)
     /\ \A i \in x.ins : i = Lit(i.node, i.ph) /\ i.ph \in {0, 1} /\ i.node \in graph

IsLiteral(l) ==
  /\ l = Lit(l.node, l.ph) /\ l.ph \in {0, 1} /\ l.node \in Cone(l)
  /\ \A x \in Cone(l) : IsNode(x, Cone(l))

-----------------------------------------------------------------------------
(* The patch function with ports sup that is 1 on the cells on, over the   *)
(* literals lit of its ports: as an AIG of its own (lit gives ports), or   *)
(* what evalPaig makes of it (lit gives literals of the shared AIG).       *)
(* shannon splits the ports from the highest one down; but one that does   *)
(* not matter comes first, as only there every literal of the function has *)
(* it: mkMux keeps equal branches unless they are constant.                *)
Greatest(S) == CHOOSE p \in S : \A q \in S : q <= p

Idle(sup, on, p) ==
  \A cell \in SUBSET (sup \ {p}) : cell \in on <=> (cell \union {p}) \in on

NextPort(sup, on, S) ==
  LET idle == {p \in S : Idle(sup, on, p)}
  IN  Greatest(IF idle = {} THEN S ELSE idle)

FnLit(sup, on, lit) ==
  LET split[S \in SUBSET sup] ==
        [ones \in SUBSET sup |->
           IF S = {} THEN IF ones \in on THEN One ELSE Zero
           ELSE LET p == NextPort(sup, on, S)
                IN  Mux(lit[p], split[S \ {p}][ones \union {p}], split[S \ {p}][ones])]
  IN  split[sup][{}]

(* The literal that litForPortName gives port p, from those of the nets.   *)
PortLit(c, lits, p) ==
  IF p > 0 THEN lits[p]
  ELSE IF -p \in Inputs(c) THEN Port(-p)
  ELSE GateTerm(c.gate[-p].type,
         [i \in DOMAIN c.gate[-p].ins |-> lits[c.gate[-p].ins[i]]])

NetTerm(c, drv, lits, n) ==
  IF n \in DOMAIN drv
  THEN FnLit(drv[n].sup, drv[n].on, [p \in drv[n].sup |-> PortLit(c, lits, p)])
  ELSE GateTerm(c.gate[n].type,
         [i \in DOMAIN c.gate[n].ins |-> lits[c.gate[n].ins[i]]])

(* evalInto, and buildCkt for a netlist without patches: the literals of   *)
(* the nets, from the primary inputs on.  (Circuit!Evaluate has only the   *)
(* functions that they compute.)  Nets on a cycle, and what they drive,    *)
(* get none.                                                               *)
CurLits(c, drv) ==
  LET given == [n \in {0, 1} \union (Inputs(c) \ DOMAIN drv) |->
                  IF n = 0 THEN Zero ELSE IF n = 1 THEN One ELSE Port(n)]
      round[i \in 0..Cardinality(c.nets)] ==
        IF i = 0 THEN given
        ELSE LET lits == round[i - 1]
                 ready == {n \in (DOMAIN drv \union Driven(c)) \ DOMAIN lits :
                             Reads(c, drv, n) \subseteq DOMAIN lits}
             IN  [n \in DOMAIN lits \union ready |->
                    IF n \in DOMAIN lits THEN lits[n] ELSE NetTerm(c, drv, lits, n)]
  IN  round[Cardinality(c.nets)]
=============================================================================
