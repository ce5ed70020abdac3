------------------------------ MODULE BuildCkt ------------------------------
(***************************************************************************)
(* buildCkt of main.cpp: a parsed netlist becomes literals of the shared   *)
(* AIG, one gate after the other, in as many passes over the gates as      *)
(* their dependencies need.  As in Circuit a literal is the set of input   *)
(* patterns on which it is 1; inputs that two netlists have in common are  *)
(* given the same patterns.                                                *)
(*                                                                         *)
(* A netlist nl is a record of nets, pats and pis as in Circuit, and gates,*)
(* a sequence of [out, type, ins] in the order of the file.                *)
(***************************************************************************)
EXTENDS Circuit

CONSTANT Netlists

(* What the parser leaves: every gate has a type it knows, and it drives   *)
(* and reads nets it has named.  (A gate that drives 1'b0 or 1'b1, which   *)
(* the code would let pass, is left out.)                                  *)
IsNetlist(n) ==
  /\ IsFiniteSet(n.nets) /\ n.nets \subseteq Nat \ {0, 1} /\ n.pats \subseteq Nat
  /\ DOMAIN n.pis \subseteq n.nets /\ \A k \in DOMAIN n.pis : n.pis[k] \subseteq n.pats
  /\ n.gates \in Seq([out : n.nets, type : GateTypes, ins : Seq(n.nets \union {0, 1})])

ASSUME BuildCktAssumption == \A n \in Netlists : IsNetlist(n)

VARIABLES
  nl,        \* the netlist of this call
  netLit,    \* net -> literal, or Unset
  driverOf,  \* net -> gate
  gi,        \* the gate at hand
  gateDone,  \* the gates evaluated so far
  progress,  \* one was evaluated in this pass
  pc,        \* "inputs", "drivers", "pass", "dangling", "done", "error"
  error      \* what was thrown

vars == <<nl, netLit, driverOf, gi, gateDone, progress, pc, error>>

Gates == DOMAIN nl.gates
Gate == nl.gates[gi]
AllGates == Len(nl.gates)
ReadBy(n, g) == {n.gates[g].ins[i] : i \in DOMAIN n.gates[g].ins}

Throw(what) ==
  /\ pc' = "error" /\ error' = what
  /\ UNCHANGED <<nl, netLit, driverOf, gi, gateDone, progress>>

Init ==
  /\ nl \in Netlists
  /\ netLit = [n \in nl.nets \union {0, 1} |-> Unset]
  /\ driverOf = [n \in {} |-> 0] /\ gi = 1 /\ gateDone = {} /\ progress = TRUE
  /\ pc = "inputs" /\ error = "none"

LoadInputs ==
  /\ pc = "inputs"
  /\ netLit' = [n \in DOMAIN netLit |->
                  IF n \in {0, 1} THEN Const(nl, n)
                  ELSE IF n \in DOMAIN nl.pis THEN nl.pis[n] ELSE Unset]
  /\ pc' = "drivers"
  /\ UNCHANGED <<nl, driverOf, gi, gateDone, progress, error>>

(* The gates are registered as drivers, each net once and no input.        *)
DrivenNever == FALSE       \* mutant
HasDriver == Gate.out \in DOMAIN driverOf

Register ==
  /\ pc = "drivers" /\ gi <= AllGates
  /\ IF HasDriver THEN Throw("multiple drivers")
     ELSE IF netLit[Gate.out] # Unset /\ Gate.out > 1 THEN Throw("drives an input")
     ELSE /\ driverOf' = [n \in DOMAIN driverOf \union {Gate.out} |->
                            IF n = Gate.out THEN gi ELSE driverOf[n]]
          /\ gi' = gi + 1
          /\ UNCHANGED <<nl, netLit, gateDone, progress, pc, error>>

EnterPass ==
  /\ gi' = 1 /\ progress' = FALSE /\ pc' = "pass"
  /\ UNCHANGED <<nl, netLit, driverOf, gateDone, error>>

Registered ==
  /\ pc = "drivers" /\ gi > AllGates
  /\ IF AllGates = 0
     THEN pc' = "dangling" /\ UNCHANGED <<nl, netLit, driverOf, gi, gateDone, progress, error>>
     ELSE EnterPass

IsReadyAny(g) == \E n \in ReadBy(nl, g) : netLit[n] # Unset    \* mutant
IsReady(g) == \A n \in ReadBy(nl, g) : netLit[n] # Unset

(* The next gate of a pass: evaluated if it was not and all inputs are.    *)
Visit ==
  /\ pc = "pass" /\ gi <= AllGates
  /\ gi' = gi + 1
  /\ IF gi \notin gateDone /\ IsReady(gi)
     THEN /\ netLit' = [netLit EXCEPT ![Gate.out] =
                          GateFn(nl, Gate.type, [i \in DOMAIN Gate.ins |-> netLit[Gate.ins[i]]])]
          /\ gateDone' = gateDone \union {gi} /\ progress' = TRUE
     ELSE UNCHANGED <<netLit, gateDone, progress>>
  /\ UNCHANGED <<nl, driverOf, pc, error>>

(* The end of a pass: all gates are done; or one more; or nothing moves.   *)
GoesOn == TRUE     \* mutant
Goes == progress

EndPass ==
  /\ pc = "pass" /\ gi > AllGates
  /\ \/ /\ gateDone = Gates /\ pc' = "dangling"
        /\ UNCHANGED <<nl, netLit, driverOf, gi, gateDone, progress, error>>
     \/ /\ gateDone # Gates /\ Goes
        /\ EnterPass
     \/ /\ gateDone # Gates /\ ~Goes
        /\ Throw("combinational cycle")

(* Nets that are read and still have no literal become inputs.             *)
Dangling ==
  /\ pc = "dangling"
  /\ \E lit \in SUBSET Patterns(nl) :
       netLit' = [n \in DOMAIN netLit |->
                    IF netLit[n] = Unset /\ \E g \in Gates : n \in ReadBy(nl, g)
                    THEN lit ELSE netLit[n]]
  /\ pc' = "done"
  /\ UNCHANGED <<nl, driverOf, gi, gateDone, progress, error>>

Finished == pc \in {"done", "error"} /\ UNCHANGED vars

Step ==
  \/ LoadInputs \/ Register \/ Registered \/ Visit \/ EndPass \/ Dangling

Next == Step \/ Finished

Spec == Init /\ [][Next]_vars
FairSpec == Spec /\ WF_vars(Step)

-----------------------------------------------------------------------------
(* Properties.                                                             *)

(* Of a netlist n: its gates drive a net each, and no input.               *)
SingleDrivers(n) ==
  \A g, h \in DOMAIN n.gates :
    /\ n.gates[g].out \notin DOMAIN n.pis
    /\ n.gates[g].out = n.gates[h].out => g = h

Outs(n) == {n.gates[g].out : g \in DOMAIN n.gates}

(* The netlist as the Rectifier's circuits are given.                      *)
AsCircuit(n) ==
  [nets |-> n.nets, pats |-> n.pats, pis |-> n.pis,
   gate |-> [k \in Outs(n) |->
               LET g == CHOOSE g \in DOMAIN n.gates : n.gates[g].out = k
               IN  [type |-> n.gates[g].type, ins |-> n.gates[g].ins]]]

(* The nets that depend on net k, k among them.                            *)
Readers(n, k) == {n.gates[g].out : g \in {h \in DOMAIN n.gates : k \in ReadBy(n, h)}}
Dependents(n, k) == Closure(AsCircuit(n), {k}, [m \in n.nets |-> Readers(n, m)])

NoCycle(n) == \A k \in Outs(n) : \A m \in Readers(n, k) : k \notin Dependents(n, m)
NoDangling(n) ==
  \A g \in DOMAIN n.gates : ReadBy(n, g) \subseteq Outs(n) \union DOMAIN n.pis \union {0, 1}

WellFormed(n) == SingleDrivers(n) /\ NoCycle(n) /\ NoDangling(n)

(* The literals evalInto (rectify.hpp:114) gives the nets.                 *)
Evaluation(n) == Evaluate(AsCircuit(n), [k \in {} |-> 0])

(* What is built: the literals do not depend on the order of the gates in  *)
(* the file and are those evalInto computes for the same circuit without   *)
(* patches, as the Rectifier, which compares its values with those of      *)
(* buildCkt, takes for granted.                                            *)
BuiltAsEvaluated ==
  pc = "done" => netLit = Evaluation(nl)

(* No netlist in which a net has two drivers, an input is driven or a      *)
(* cycle exists is taken, whatever the order of the gates, and none        *)
(* without any fault is refused.                                           *)
RefusedRightly ==
  /\ pc = "done" => SingleDrivers(nl) /\ NoCycle(nl)
  /\ pc = "error" => ~WellFormed(nl)

(* "any net still unset but referenced: dangling input -> fresh shared PI" *)
(* (main.cpp:130), so that a net nobody drives is no reason to refuse a    *)
(* netlist.                                                                *)
DanglingIsFree ==
  pc = "error" => ~(SingleDrivers(nl) /\ NoCycle(nl))

(* The passes come to an end, although their number is not bounded.        *)
Terminates == <>(pc \in {"done", "error"})
=============================================================================
