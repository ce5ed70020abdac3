----------------------------- MODULE Trajectory -----------------------------
(***************************************************************************)
(* runTrajectory of main.cpp, on the data: the baseline candidates, the    *)
(* Rectifier and the candidate made of its fixes, the verification of the  *)
(* candidates from the cheapest on, and the simplification of the first    *)
(* that verifies.  (Candidates are emitted directly, as when there is no   *)
(* abc; Portfolio has the trajectories, their files and abc.)              *)
(*                                                                         *)
(* How functions of R2 are expressed over nets of G1, and what a patch is  *)
(* emitted as, is in SpecBuilder and Emission.                             *)
(***************************************************************************)
EXTENDS Rectifier, SpecBuilder, Emission

CONSTANT MaxMissed   \* most patterns the random simulation of simplify misses

(* The netlists as the parser leaves them: nets have numbers below         *)
(* WireBase, and a gate has a sequence of inputs, one if it is a buffer or *)
(* an inverter (netlist.hpp:324).                                          *)
Parsed(c) ==
  /\ \A n \in c.nets : n < WireBase
  /\ \A k \in DOMAIN c.ecow : c.ecow[k] \in c.nets
  /\ \A n \in Driven(c) : /\ c.gate[n].ins \in Seq(Int)
                          /\ c.gate[n].type \in {"not", "buf"} => Len(c.gate[n].ins) = 1

ASSUME TrajectoryAssumption ==
  /\ MaxMissed \in Nat /\ WireBase \in Nat
  /\ \A c \in Circuits : Parsed(c) /\ HasR2(c)

VARIABLES
  phase,      \* "start", "rectify", "verify", "simplify", "delivered", "error"
  merged,     \* whether the sweep found the equal nodes
  patches,    \* candidates not verified yet, [from, patch]
  winner,     \* the patch that verified
  sim,        \* the patterns of simplify's simulation
  pass        \* passes of simplify

ownVars == <<phase, merged, patches, winner, sim, pass>>

NoPatch == [inputs |-> {}, outputs |-> <<>>, gates |-> <<>>]

Passes == 64

TrajInit ==
  /\ Init
  /\ merged \in BOOLEAN
  /\ phase = "start" /\ patches = {} /\ winner = NoPatch
  /\ sim = {} /\ pass = 0

Emitted(from, targets) ==
  IF targets = <<>> THEN {}
  ELSE {[from |-> from, patch |-> CandidatePatch(circ, targets)]}

(* No output fails: the empty patch is the answer.  An output that cannot  *)
(* be expressed ends the trajectory with an exception.  Else the Rectifier *)
(* starts, with one or two candidates at hand.                             *)
Prepare ==
  /\ phase = "start"
  /\ \/ /\ FailingPos(circ) = {}
        /\ phase' = "delivered"
        /\ UNCHANGED patches
     \/ /\ FailingPos(circ) # {}
        /\ \E base \in {Baseline(circ, merged)} :
             \/ /\ base = <<>>
                /\ phase' = "error"
                /\ UNCHANGED patches
             \/ /\ base # <<>>
                /\ patches' = Emitted("A", base)
                                \union Emitted("B", BaselineB(circ, merged))
                /\ phase' = "rectify"
  /\ UNCHANGED <<vars, merged, winner, sim, pass>>

Rectify ==
  /\ phase = "rectify"
  /\ Step
  /\ UNCHANGED ownVars

(* The Rectifier is done: its fixes alone, or with the rest of the failing *)
(* outputs, make another candidate.  An output without a value there, or a *)
(* gate to be kept that has none, is undefined behaviour.                  *)
Assemble ==
  /\ phase = "rectify" /\ pc = "done"
  /\ cur' = Evaluate(circ, drv)
  /\ IF /\ fixes # <<>> /\ ~result
        /\ \/ \E o \in circ.pos : cur'[o] = Unset
           \/ /\ \E n \in Readers(circ, fixes, Failing(cur')) : cur'[n] = Unset
              /\ ~NoPresCheck(circ, drv, cur', Failing(cur'))
     THEN pc' = "undefined" /\ UNCHANGED <<phase, patches>>
     ELSE /\ patches' = patches \union
               Emitted("R", IF fixes = <<>> \/ result THEN FixTargets(fixes)
                            ELSE Hybrid(circ, drv, cur', fixes, Failing(cur'), merged))
          /\ phase' = "verify"
          /\ UNCHANGED pc
  /\ round' = 0 /\ carryF' = {} /\ F' = {}
  /\ cands' = NoCands /\ todo' = {} /\ best' = NoBest
  /\ pairs' = {} /\ pair' = NoPair
  /\ UNCHANGED <<circ, drv, targetSet, fixes, result, merged, winner, sim, pass>>

(* A cheapest candidate is verified; the first that passes wins.           *)
Verify ==
  /\ phase = "verify"
  /\ \E x \in patches :
       /\ \A y \in patches : PatchCost(x.patch) <= PatchCost(y.patch)
       /\ \/ /\ Verified(circ, x.patch)
             /\ winner' = x.patch /\ patches' = {} /\ phase' = "simplify"
             /\ \E missed \in SUBSET Patterns(circ) :
                  /\ Cardinality(missed) <= MaxMissed
                  /\ sim' = Patterns(circ) \ missed
          \/ /\ ~Verified(circ, x.patch)
             /\ patches' = patches \ {x}
             /\ phase' = IF patches' = {} THEN "error" ELSE "verify"
             /\ UNCHANGED <<winner, sim>>
  /\ UNCHANGED <<vars, merged, pass>>

(* One pass of simplify.                                                   *)
Simplify ==
  /\ phase = "simplify" /\ pass < Passes
  /\ winner' \in Simpler(circ, winner, sim)
  /\ pass' = pass + 1
  /\ UNCHANGED <<vars, phase, merged, patches, sim>>

Deliver ==
  /\ phase = "simplify"
  /\ pass = Passes \/ Simpler(circ, winner, sim) = {}
  /\ phase' = "delivered"
  /\ UNCHANGED <<vars, merged, patches, winner, sim, pass>>

Ended == phase \in {"delivered", "error"} \/ pc = "undefined"

TrajStep == Prepare \/ Rectify \/ Assemble \/ Verify \/ Simplify \/ Deliver

TrajNext == TrajStep \/ (Ended /\ UNCHANGED <<vars, ownVars>>)

(* The process keeps running until the trajectory ends: weak fairness of   *)
(* TrajStep, which is enabled until then.                                  *)
KeepsRunning == <>Ended \/ []<><<TrajStep>>_<<vars, ownVars>>

TrajSpec == TrajInit /\ [][TrajNext]_<<vars, ownVars>> /\ KeepsRunning

-----------------------------------------------------------------------------
(* Properties.                                                             *)

Val(p) == EvalPatched(circ, p)

(* No net of G1 has a name that eco gives the wires of its patches.        *)
WiresFresh == DOMAIN circ.ecow = {}

(* eco's own verification and the independent evaluator never disagree     *)
(* about a candidate: evalPatched of main.cpp renames the old driver of a  *)
(* target, evaluate.py the new one, and yet both mean the same netlist.    *)
(* Except for a patch with two gates for one output, which eco does not    *)
(* look for.                                                               *)
VerdictsAgree ==
  \A x \in patches : ~DrivesTwice(x.patch) =>
    (Verified(circ, x.patch) <=> EvaluatorPasses(circ, x.patch))

(* "preserve old function" (main.cpp:376): in a baseline candidate every   *)
(* target that has a value has the value that it was to have, a failing    *)
(* output that of R2 and a gate that reads one its old one, whatever nets, *)
(* old values and inverters buildVar chose to express them.                *)
BaselineExact ==
  \A x \in patches : x.from = "A" /\ WiresFresh =>
     LET fails == FailingPos(circ) IN
     \A n \in fails \union Preserved(circ, fails) : Net(n) \in DOMAIN Val(x.patch) =>
       Val(x.patch)[Net(n)] = IF n \in fails THEN circ.spec[n]
                              ELSE Evaluate(circ, Unpatched)[n]

(* Variant B, which leaves the readers of failing outputs alone, always    *)
(* stands the evaluator's test: no matched net is downstream of a failing  *)
(* output (main.cpp:631), so that no cycle is closed - unless a net of R1  *)
(* has the name of a wire of the patch and is driven twice.                *)
VariantBRight ==
  \A x \in patches :
    x.from = "B" /\ WiresFresh => EvaluatorPasses(circ, x.patch)

(* The Rectifier and the verification evaluate the same circuit: when the  *)
(* fixes alone are the patch, it drives nothing twice, and every net of    *)
(* the patched netlist has the value that evalInto gave it, or has none in *)
(* both.                                                                   *)
FixesAsEvaluated ==
  \A x \in patches : x.from = "R" /\ result /\ WiresFresh =>
     /\ ~DrivesTwice(x.patch)
     /\ \A n \in circ.nets :
          cur[n] = IF Net(n) \in DOMAIN Val(x.patch) THEN Val(x.patch)[Net(n)]
                   ELSE Unset

(* When run() returns true the patch of its fixes passes, as long as old   *)
(* values are stable: the carried set of failing outputs, and the          *)
(* Rectifier's own evaluation, are as good as a last check of all outputs. *)
CompleteRight ==
  \A x \in patches : x.from = "R" /\ result /\ WiresFresh /\ OldValuesStable =>
    EvaluatorPasses(circ, x.patch)

(* No fix reads a net that changes with an output of S.                    *)
Untouched(S) ==
  \A t \in DOMAIN drv : \A o \in S : Reads(circ, drv, t) \intersect DependsOn(o) = {}

(* The circuit in which the outputs S have their R2 functions, and fixes   *)
(* see the values of that circuit.                                         *)
Repaired(S) == Settle(circ, drv, GivenSpec(circ, drv, S))

(* "Would replacing the given failing POs by their R2 functions [...] keep *)
(* every PO correct on the current circuit?" (rectify.hpp:1248) is what    *)
(* noPresCheck answers, provided that no fix reads a net that changes: a   *)
(* patch function looks at the values from before (rectify.hpp:277), and   *)
(* the answer can be wrong if there is one.                                *)
NoPresRight ==
  phase = "verify" /\ fixes # <<>> /\ ~result /\ Untouched(Failing(cur)) =>
    (NoPresCheck(circ, drv, cur, Failing(cur)) <=>
       \A o \in circ.pos : Repaired(Failing(cur))[o] = circ.spec[o])

(* The hybrid candidate - some fixes, and the rest of the failing outputs  *)
(* expressed over what the fixes have left alone - never gives an output a *)
(* wrong value, under the same provisos: at worst none.                    *)
HybridRight ==
  \A x \in patches :
    x.from = "R" /\ ~result /\ WiresFresh /\ OldValuesStable
      /\ Untouched(Failing(cur)) =>
      \A o \in circ.pos : Net(o) \in DOMAIN Val(x.patch) =>
        Val(x.patch)[Net(o)] = circ.spec[o]

(* No patch has leftovers, neither a candidate nor the winner, however     *)
(* often it was rewritten.                                                 *)
CandidatesTidy == \A x \in patches : IsPatch(circ, x.patch) /\ Tidy(x.patch)

PatchesTidy == CandidatesTidy /\ IsPatch(circ, winner) /\ Tidy(winner)

(* "patched netlist is acyclic" (evaluate.py:9): so is a delivered one.    *)
DeliveredAcyclic ==
  phase = "delivered" =>
    DOMAIN PatchedDrivers(circ, winner) \subseteq DOMAIN Val(winner)

(* A trajectory implements EcoAnswer: the first candidate that verifies is *)
(* the answer, a pass of simplify improves it, and it is delivered in the  *)
(* end.  (A patch that drives a net twice is no concern here: eco does not *)
(* look for that.)                                                         *)
Stage ==
  CASE phase = "delivered" -> "delivered"
    [] phase = "simplify" -> "answered"
    [] phase = "error" \/ (phase = "rectify" /\ pc = "undefined") -> "failed"
    [] phase \in {"start", "verify"} \/ (phase = "rectify" /\ pc # "undefined")
         -> "searching"

Right(c, p) == DrivesTwice(p) \/ EvaluatorPasses(c, p)

Answer == INSTANCE EcoAnswer WITH stage <- Stage, answer <- winner,
                                  Cost <- PatchCost

AnswersRight == Answer!AnswerSpec
=============================================================================
