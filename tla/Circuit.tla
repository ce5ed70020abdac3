------------------------------ MODULE Circuit ------------------------------
(***************************************************************************)
(* The patched netlist of rectify.hpp as data: its nets, gates and patch   *)
(* functions, and what the Rectifier computes on them - the worklist       *)
(* evaluation evalInto, the fanout graph of buildAdj and tfo, cofactors,   *)
(* the candidates of a round and the functions synthesize may return.      *)
(*                                                                         *)
(* A literal of the shared AIG stands for the function it computes: the    *)
(* set of the input patterns on which it is 1.                             *)
(*                                                                         *)
(* Net 0 is 1'b0, net 1 is 1'b1; a circuit c is a record of                *)
(*   nets   its other nets, a set of integers above 1                      *)
(*   pats   the input patterns, a set of natural numbers                   *)
(*   pis    for the nets that are primary inputs, their patterns           *)
(*   gate   for every other net its driver, [type, ins]                    *)
(*   pos    the nets that are primary outputs                              *)
(*   spec   for every primary output the function R2 gives it              *)
(* A port of a patch is a name: n stands for the name of net n, -t for the *)
(* name of t followed by "_in", the value t would have without its patch.  *)
(* (A net whose own name ends in "_in" is left out.)                       *)
(* A patch function is [sup, on]: its ports, and the sets of ports that    *)
(* make it 1 when exactly they are 1.                                      *)
(***************************************************************************)
EXTENDS Integers, Sequences, FiniteSets

NoNet == -1

Patterns(c) == c.pats

(* curLit of a net that has no value: -1.  No function equals it.          *)
Unset == {NoNet}

Const(c, v) == IF v = 1 THEN Patterns(c) ELSE {}
Inputs(c) == DOMAIN c.pis

Ins(c, n) == {c.gate[n].ins[i] : i \in DOMAIN c.gate[n].ins}
Driven(c) == DOMAIN c.gate

GateTypes == {"and", "nand", "or", "nor", "xor", "xnor", "not", "buf"}

(* A circuit as the parser and buildCkt leave it: what drives a net or is  *)
(* read is a net or a constant, and an input has no driver.                *)
IsCircuit(c) ==
  /\ IsFiniteSet(c.nets) /\ c.nets \subseteq Nat \ {0, 1} /\ Patterns(c) \subseteq Nat
  /\ Inputs(c) \subseteq c.nets /\ \A n \in Inputs(c) : c.pis[n] \subseteq Patterns(c)
  /\ Driven(c) \subseteq c.nets \ Inputs(c)
  /\ \A n \in Driven(c) : c.gate[n].type \in GateTypes /\ Ins(c, n) \subseteq c.nets \union {0, 1}

NoFn == [sup |-> {}, on |-> {}]
Unpatched == [n \in {} |-> NoFn]

-----------------------------------------------------------------------------
(* Gates and names.                                                        *)

(* The function a gate computes from those of its inputs.                  *)
GateFn(c, type, in) ==
  LET ones(p) == {i \in DOMAIN in : p \in in[i]}
      and == {p \in Patterns(c) : ones(p) = DOMAIN in}
      or == {p \in Patterns(c) : ones(p) # {}}
      xor == {p \in Patterns(c) : Cardinality(ones(p)) % 2 = 1}
  IN  CASE type \in {"and", "buf"} -> and
        [] type \in {"nand", "not"} -> Patterns(c) \ and
        [] type = "or" -> or
        [] type = "nor" -> Patterns(c) \ or
        [] type = "xor" -> xor
        [] type = "xnor" -> Patterns(c) \ xor

(* What port p carries, given the values cur of the nets: an old value is  *)
(* what the original driver of the net makes of current values.            *)
PortValue(c, cur, p) ==
  IF p > 0 THEN cur[p]
  ELSE IF -p \in Inputs(c) THEN c.pis[-p]
  ELSE GateFn(c, c.gate[-p].type,
         [i \in DOMAIN c.gate[-p].ins |-> cur[c.gate[-p].ins[i]]])

PatchValue(c, cur, f) ==
  {q \in Patterns(c) : {p \in f.sup : q \in PortValue(c, cur, p)} \in f.on}

-----------------------------------------------------------------------------
(* Evaluation of the patched circuit.                                      *)

(* insOf: the nets whose values net n needs.                               *)
Reads(c, drv, n) ==
  IF n \in DOMAIN drv
  THEN UNION {IF p > 0 THEN {p} ELSE IF -p \in Inputs(c) THEN {}
              ELSE Ins(c, -p) : p \in drv[n].sup}
  ELSE IF n \in Driven(c) THEN Ins(c, n) ELSE {}

NetValue(c, drv, cur, n) ==
  IF n \in DOMAIN drv THEN PatchValue(c, cur, drv[n])
  ELSE GateFn(c, c.gate[n].type,
         [i \in DOMAIN c.gate[n].ins |-> cur[c.gate[n].ins[i]]])

(* Ready to be evaluated: without a value, and everything it reads has one.*)
Ready(c, drv, cur, n) ==
  /\ cur[n] = Unset /\ (n \in DOMAIN drv \/ n \in Driven(c))
  /\ \A m \in Reads(c, drv, n) : cur[m] # Unset

(* The worklist: some ready net gets its value, until no net is ready (in  *)
(* which order makes no difference to the values).  Nets on a              *)
(* combinational cycle, and what they drive, stay Unset.                   *)
Settle(c, drv, start) ==
  LET step[i \in 0..Cardinality(c.nets)] ==
        IF i = 0 THEN start
        ELSE LET cur == step[i - 1]
                 ready == {n \in c.nets : Ready(c, drv, cur, n)}
                 n == CHOOSE m \in ready : TRUE
             IN  IF ready = {} THEN cur
                 ELSE [cur EXCEPT ![n] = NetValue(c, drv, cur, n)]
  IN  step[Cardinality(c.nets)]

(* evalInto: every net from the primary inputs on.                         *)
Evaluate(c, drv) ==
  Settle(c, drv, [n \in c.nets \union {0, 1} |->
                    IF n \in {0, 1} THEN Const(c, n)
                    ELSE IF n \in Inputs(c) \ DOMAIN drv THEN c.pis[n]
                    ELSE Unset])

(* buildAdj: the nets that the graph takes net n to depend on.  The old    *)
(* value of t counts as t itself.                                          *)
AdjacentNodeFixed(c, drv, n) ==   \* mutant: prior fixes lose their edges
  IF n \in DOMAIN drv THEN {}
  ELSE IF n \in Driven(c) THEN Ins(c, n) \ {0, 1} ELSE {}
Adjacent(c, drv, n) ==
  IF n \in DOMAIN drv
  THEN {IF p > 0 THEN p ELSE -p : p \in drv[n].sup}
  ELSE IF n \in Driven(c) THEN Ins(c, n) \ {0, 1} ELSE {}

(* What can be reached from S along the edges E, a function from nets to   *)
(* sets of nets.                                                           *)
Closure(c, S, E) ==
  LET grow[i \in 0..Cardinality(c.nets)] ==
        IF i = 0 THEN S
        ELSE LET G == grow[i - 1] IN G \union UNION {E[n] : n \in G}
  IN  grow[Cardinality(c.nets)]

(* tfo: net n and every net the graph reaches from it.                     *)
Tfo(c, drv, n) ==
  Closure(c, {n},
    [k \in c.nets |-> {m \in c.nets : k \in Adjacent(c, drv, m)}])

(* Nets in the fanin of the outputs F, not looking behind prior fixes.     *)
Tfi(c, drv, F) ==
  Closure(c, F,
    [n \in c.nets |-> IF n \in DOMAIN drv \/ n \notin Driven(c) THEN {}
                      ELSE Ins(c, n) \ {0, 1}])

(* cofNetF: the values of all nets when the nets of DOMAIN forced take     *)
(* constants; nets outside tfo keep their current value.  A net stays      *)
(* Unset when the recursion of cofNetF would not come back.                *)
Cofactor(c, drv, cur, forced, tfo) ==
  Settle(c, drv, [n \in c.nets \union {0, 1} |->
                    IF n \in DOMAIN forced THEN Const(c, forced[n])
                    ELSE IF n \in tfo /\ (n \in DOMAIN drv \/ n \in Driven(c))
                    THEN Unset ELSE cur[n]])

(* The inputs on which an output of P is wrong; Unset if one has no value. *)
Bad(c, P, val) ==
  IF \E o \in P : val[o] = Unset THEN Unset
  ELSE {q \in Patterns(c) : \E o \in P : (q \in val[o]) # (q \in c.spec[o])}

-----------------------------------------------------------------------------
(* Synthesis of a patch function.                                          *)

(* mkAnd folds constants, so that a function of ports is not constant.     *)
IsConstant(f) == f.on \in {{}, SUBSET f.sup}

(* The divisors for net t: [port, val], nets outside tfo that have a value *)
(* and are no targets, and the old value of t.                             *)
Divisors(T, cur, t, tfo, nets) ==
  {[port |-> n, val |-> cur[n]] :
     n \in {m \in nets \ (tfo \union T) : cur[m] # Unset}}
  \union {[port |-> -t, val |-> cur[t]]}

(* The functions synthesize may return for net t: 1 on bad0, 0 on bad1,    *)
(* anything elsewhere, over at most maxSup divisors that tell bad0 from    *)
(* bad1.  Which divisors the greedy cover and its refinement choose, and   *)
(* which fill the don't-cares get, is left open; so is whether a port      *)
(* matters, since mkMux does not fold equal branches.                      *)
Synthesized(c, T, cur, t, tfo, bad0, bad1, maxSup) ==
  LET divs == Divisors(T, cur, t, tfo, c.nets)
      supports == {S \in SUBSET divs : Cardinality(S) <= maxSup}
      cell(S, q) == {d.port : d \in {e \in S : q \in e.val}}
      over(S) ==
        LET one == {cell(S, q) : q \in bad0}
            zero == {cell(S, q) : q \in bad1}
            ports == {d.port : d \in S}
        IN  IF one \intersect zero # {} THEN {}
            ELSE {[sup |-> ports, on |-> one \union dc] :
                    dc \in SUBSET ((SUBSET ports) \ (one \union zero))}
  IN  IF bad0 = {} /\ bad1 = {} THEN {}
      ELSE {f \in UNION {over(S) : S \in supports} : IsConstant(f) => f.sup = {}}

(* fixCostEstimate: the wire, its new ports and the AND nodes of a         *)
(* function of at most two ports (three for an exclusive or).              *)
FixCost(f, known) ==
  1 + Cardinality(f.sup \ known)
    + (IF Cardinality(f.sup) < 2 THEN 0
       ELSE IF Cardinality(f.on) = 2 THEN 3 ELSE 1)

-----------------------------------------------------------------------------
(* Outputs that fail, and what depends on them.                            *)

(* The outputs on which G1 and R2 differ, and the nets that read them.     *)
FailingPos(c) == {o \in c.pos : Evaluate(c, Unpatched)[o] # c.spec[o]}
Consumers(c, F) == {n \in Driven(c) : Ins(c, n) \intersect F # {}}

(* The gates that read a failing output are to keep their old function.    *)
Preserved(c, F) == Consumers(c, F) \ F

(* noPresCheck: would all outputs be right if those of F had their R2      *)
(* functions?  The gates see the new values; a patch function goes through *)
(* litForPortName, which looks at the member curLit, the values cur from   *)
(* before.                                                                 *)
GivenSpec(c, drv, F) ==
  [n \in c.nets \union {0, 1} |->
     IF n \in {0, 1} THEN Const(c, n)
     ELSE IF n \in F THEN c.spec[n]
     ELSE IF n \in Inputs(c) \ DOMAIN drv THEN c.pis[n] ELSE Unset]

Ideal(c, drv, cur, F) ==
  LET step[i \in 0..Cardinality(c.nets)] ==
        IF i = 0 THEN GivenSpec(c, drv, F)
        ELSE LET v == step[i - 1]
             IN  [n \in DOMAIN v |->
                    IF n \notin c.nets \/ ~Ready(c, drv, v, n) THEN v[n]
                    ELSE IF n \in DOMAIN drv THEN PatchValue(c, cur, drv[n])
                    ELSE NetValue(c, drv, v, n)]
  IN  step[Cardinality(c.nets)]

NoPresCheckOnce(c, drv, cur, F) ==   \* mutant: outputs that were right are skipped
  \A o \in F : Ideal(c, drv, cur, F)[o] = c.spec[o]
NoPresCheck(c, drv, cur, F) ==
  \A o \in c.pos : Ideal(c, drv, cur, F)[o] = c.spec[o]
=============================================================================
