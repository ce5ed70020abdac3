------------------------------- MODULE Patch -------------------------------
(***************************************************************************)
(* Patch netlists: what they cost, and what runTrajectory (main.cpp) does  *)
(* with them: apply them to G1 and compare every output with R2, sweep     *)
(* dead gates and rewrite them.  And how the independent evaluator         *)
(* (evaluate.py) applies and checks them.                                  *)
(*                                                                         *)
(* A patch is [inputs, outputs, gates]: a set of names, a sequence of nets *)
(* and the gates [type, out, ins], a function from their positions, which  *)
(* may have gaps once gates are dropped.  Names are those of Circuit (0    *)
(* and 1 the constants, n a net, -t for t_in) and others, for internal     *)
(* wires (see Emission).                                                   *)
(***************************************************************************)
EXTENDS Circuit, Functions

Outs(p) == Range(p.outputs)
(* The outputs are nets; a gate has a type and names.                      *)
IsPatch(c, p) ==
  /\ p.inputs \subseteq Int /\ p.outputs \in Seq(c.nets)
  /\ IsFiniteSet(DOMAIN p.gates) /\ DOMAIN p.gates \subseteq Nat
  /\ \A i \in DOMAIN p.gates : /\ p.gates[i].type \in GateTypes
                               /\ p.gates[i].out \in Int /\ p.gates[i].ins \in Seq(Int)

GateNames(g) == {g.out} \union Range(g.ins)
Read(gates) == UNION {Range(gates[i].ins) : i \in DOMAIN gates}

(* patchCost: distinct wires, inputs of gates beyond two, constants used.  *)
PatchCost(p) ==
  LET names == p.inputs \union Outs(p)
                 \union UNION {GateNames(p.gates[i]) : i \in DOMAIN p.gates}
  IN  Cardinality(names \ {0, 1}) + Cardinality(Read(p.gates) \intersect {0, 1})
        + FoldFunction(LAMBDA g, n : n + Len(g.ins) - 2, 0, p.gates)

-----------------------------------------------------------------------------
(* A netlist that is evaluated: drv gives wires their drivers, start the   *)
(* values of the others.  Wires on a cycle, behind one, or behind a wire   *)
(* that nobody drives, get none.                                           *)
Settled(c, drv, start) ==
  LET step[i \in 0..Cardinality(DOMAIN drv)] ==
        IF i = 0 THEN start
        ELSE LET v == step[i - 1]
                 ready == {w \in DOMAIN drv \ DOMAIN v :
                             Range(drv[w].ins) \subseteq DOMAIN v}
             IN  [w \in DOMAIN v \union ready |->
                    IF w \in DOMAIN v THEN v[w]
                    ELSE GateFn(c, drv[w].type,
                                [j \in DOMAIN drv[w].ins |-> v[drv[w].ins[j]]])]
  IN  step[Cardinality(DOMAIN drv)]

Net(n) == <<"net", n>>
Pre(n) == <<"pre", n>>
Wire(n) == <<"wire", n>>

(* The gate that drives name n in a patch: of several the last one counts. *)
DriverOf(p, n) ==
  LET is == {i \in DOMAIN p.gates : p.gates[i].out = n}
  IN  p.gates[CHOOSE i \in is : \A j \in is : j <= i]

GateOuts(p) == {p.gates[i].out : i \in DOMAIN p.gates}

(* Without leftovers: every output has a gate, every gate is an output or  *)
(* is read, every input is read, and whatever is read has a source.        *)
Tidy(p) ==
  /\ Outs(p) \subseteq GateOuts(p)
  /\ GateOuts(p) \subseteq Outs(p) \union Read(p.gates)
  /\ p.inputs \subseteq Read(p.gates)
  /\ Read(p.gates) \subseteq p.inputs \union GateOuts(p) \union {0, 1}

(* evalPatched: what a gate of the patch reads under a name, and the       *)
(* drivers of the patched netlist.                                         *)
ReadsPost(c, p, n) ==   \* mutant: the old value of an output is its new one
  IF n < 0 /\ -n \in Outs(p) THEN Net(-n)
  ELSE IF n \in {0, 1} \union c.nets \union Outs(p) THEN Net(n) ELSE Wire(n)
ReadsAs(c, p, n) ==
  IF n < 0 /\ -n \in Outs(p) THEN Pre(-n)
  ELSE IF n \in {0, 1} \union c.nets \union Outs(p) THEN Net(n) ELSE Wire(n)

DrivesAs(p, n) == IF n \in Outs(p) THEN Net(n) ELSE Wire(n)

OldAs(p, n) == IF n \in Outs(p) THEN Pre(n) ELSE Net(n)

PatchedDrivers(c, p) ==
  LET new == {DrivesAs(p, n) : n \in GateOuts(p)}
      driver(w) == IF w \in new THEN DriverOf(p, w[2]) ELSE c.gate[w[2]]
      read(w, n) == IF w \in new THEN ReadsAs(c, p, n) ELSE Net(n)
  IN  [w \in new \union {OldAs(p, n) : n \in Driven(c)} |->
         [type |-> driver(w).type,
          ins |-> [j \in DOMAIN driver(w).ins |-> read(w, driver(w).ins[j])]]]

InputValues(c, p) ==
  [w \in {OldAs(p, n) : n \in Inputs(c)} \union {Net(0), Net(1)} |->
     IF w[2] \in {0, 1} THEN Const(c, w[2]) ELSE c.pis[w[2]]]

EvalPatched(c, p) == Settled(c, PatchedDrivers(c, p), InputValues(c, p))

(* verify: every output of R2 has a value in the patched netlist, and the  *)
(* right one.  (The evaluation starts from the outputs: what no output     *)
(* needs may well be on a cycle.)                                          *)
Verified(c, p) ==
  LET v == EvalPatched(c, p)
  IN  \A o \in c.pos : Net(o) \in DOMAIN v /\ v[Net(o)] = c.spec[o]

-----------------------------------------------------------------------------
(* evaluate.py: G1 keeps its drivers, and everybody reads the new value of *)
(* a target, Post, except the patch that reads t_in.  A net may have one   *)
(* driver only.                                                            *)

Post(n) == <<"post", n>>

NewAs(p, n) == IF n \in Outs(p) THEN Post(n) ELSE Net(n)

EvalReads(c, p, n) ==
  IF n < 0 /\ -n \in Outs(p) THEN Net(-n)
  ELSE IF n \in {0, 1} \union Driven(c) \union Inputs(c) \union Outs(p)
  THEN NewAs(p, n) ELSE Wire(n)

EvalDrives(p, n) == IF n \in Outs(p) THEN Post(n) ELSE Wire(n)

DrivesTwice(p) ==
  \E i, j \in DOMAIN p.gates : i # j /\ p.gates[i].out = p.gates[j].out

ApplyPatch(c, p) ==
  LET new == {EvalDrives(p, n) : n \in GateOuts(p)}
      driver(w) == IF w \in new THEN DriverOf(p, w[2]) ELSE c.gate[w[2]]
      read(w, n) == IF w \in new THEN EvalReads(c, p, n) ELSE NewAs(p, n)
  IN  [w \in new \union {Net(n) : n \in Driven(c)} |->
         [type |-> driver(w).type,
          ins |-> [j \in DOMAIN driver(w).ins |-> read(w, driver(w).ins[j])]]]

G1Values(c) ==
  [w \in {Net(n) : n \in Inputs(c) \union {0, 1}} |->
     IF w[2] \in {0, 1} THEN Const(c, w[2]) ELSE c.pis[w[2]]]

(* Accepted: no second driver, outputs neither undriven nor on a cycle,    *)
(* and equal to those of R2.                                               *)
EvaluatorPasses(c, p) ==
  LET v == Settled(c, ApplyPatch(c, p), G1Values(c))
  IN  /\ ~DrivesTwice(p)
      /\ \A o \in c.pos : NewAs(p, o) \in DOMAIN v /\ v[NewAs(p, o)] = c.spec[o]

-----------------------------------------------------------------------------
(* Simplification.                                                         *)

(* deadSweep: gates nobody reads are dropped until all are read, then      *)
(* inputs nobody reads.                                                    *)
Used(p, K) ==
  {k \in K : p.gates[k].out \in Outs(p) \union Read(Restrict(p.gates, K))}

Without(p, K) ==
  LET gates == Restrict(p.gates, K)
  IN  [inputs |-> p.inputs \intersect Read(gates), outputs |-> p.outputs,
       gates |-> gates]

DeadSweepOnce(p) ==   \* mutant: one sweep, although it frees more gates
  Without(p, Used(p, DOMAIN p.gates))
DeadSweep(p) ==
  LET left[i \in 0..Cardinality(DOMAIN p.gates)] ==
        IF i = 0 THEN DOMAIN p.gates ELSE Used(p, left[i - 1])
  IN  Without(p, left[Cardinality(DOMAIN p.gates)])

(* The wires some output needs: only these have been evaluated.            *)
Evaluated(c, p) ==
  LET drv == PatchedDrivers(c, p)
      grow[i \in 0..Cardinality(DOMAIN drv)] ==
        IF i = 0 THEN {Net(o) : o \in c.pos}
        ELSE LET W == grow[i - 1]
             IN  W \union UNION {Range(drv[w].ins) : w \in W \intersect DOMAIN drv}
  IN  grow[Cardinality(DOMAIN drv)]

(* The names of the patch that have a value, with their values on the      *)
(* simulated patterns.                                                     *)
Signals(c, p, sim) ==
  LET v == EvalPatched(c, p)
      seen == DOMAIN v \intersect (Evaluated(c, p) \union DOMAIN InputValues(c, p))
      wire(n) == IF Wire(n) \in seen THEN Wire(n) ELSE Net(n)
      names == p.inputs \union GateOuts(p)
  IN  [n \in {0, 1} \union {m \in names : wire(m) \in seen} |->
         IF n = 0 THEN {} ELSE IF n = 1 THEN sim ELSE v[wire(n)] \intersect sim]

Gate(type, out, ins) == [type |-> type, out |-> out, ins |-> ins]
WithGates(p, gates) ==
  [inputs |-> p.inputs, outputs |-> p.outputs, gates |-> gates]

(* A support that is constant on the simulated patterns is replaced by the *)
(* constant.                                                               *)
ConstantRewrites(p, sig, sim) ==
  LET const(n) == IF sig[n] = {} THEN 0 ELSE 1
      replaced(n) ==
        WithGates(p, [i \in DOMAIN p.gates |->
                        Gate(p.gates[i].type, p.gates[i].out,
                             [j \in DOMAIN p.gates[i].ins |->
                                IF p.gates[i].ins[j] = n THEN const(n)
                                ELSE p.gates[i].ins[j]])])
  IN  {DeadSweep(replaced(n)) :
         n \in {m \in p.inputs \intersect DOMAIN sig : sig[m] \in {{}, sim}}}

(* A gate is replaced by a wire, or its inverse, that has the same value   *)
(* on the simulated patterns and does not depend on the gate.              *)
Downstream(p, n) ==
  LET grow[i \in 0..Cardinality(DOMAIN p.gates)] ==
        IF i = 0 THEN {n}
        ELSE LET N == grow[i - 1]
             IN  N \union {p.gates[j].out : j \in
                     {k \in DOMAIN p.gates : Range(p.gates[k].ins) \intersect N # {}}}
  IN  grow[Cardinality(DOMAIN p.gates)]

GateRewrites(p, sig, sim) ==
  LET sources(i) ==
        {n \in DOMAIN sig : /\ n # p.gates[i].out
                            /\ n \notin GateOuts(p) \intersect Downstream(p, p.gates[i].out)}
      open == {i \in DOMAIN p.gates :
                 /\ p.gates[i].out \in DOMAIN sig
                 /\ ~(Len(p.gates[i].ins) = 1 /\ p.gates[i].ins[1] \in {0, 1})}
      rewritten(i, type, n) ==
        WithGates(p, [p.gates EXCEPT ![i] = Gate(type, p.gates[i].out, <<n>>)])
  IN  UNION {{DeadSweep(rewritten(i, "buf", n)) :
                n \in {m \in sources(i) : sig[m] = sig[p.gates[i].out]}}
             \union
             {DeadSweep(rewritten(i, "not", n)) :
                n \in {m \in sources(i) : sig[m] = sim \ sig[p.gates[i].out]}} :
             i \in open}

(* What one pass of simplify may make of p: a cheaper patch that verifies. *)
(* Rewrites of gates are only tried when no support can be dropped.        *)
BetterUnverified(c, p, ps) ==   \* mutant: the simulation is believed
  {q \in ps : PatchCost(q) < PatchCost(p)}
Better(c, p, ps) == {q \in ps : PatchCost(q) < PatchCost(p) /\ Verified(c, q)}

Simpler(c, p, sim) ==
  LET sig == Signals(c, p, sim)
      first == Better(c, p, ConstantRewrites(p, sig, sim))
  IN  IF first # {} THEN first ELSE Better(c, p, GateRewrites(p, sig, sim))
=============================================================================
