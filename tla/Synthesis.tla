----------------------------- MODULE Synthesis -----------------------------
(***************************************************************************)
(* synthesize of rectify.hpp: a function for net t that is 1 on bad0 and 0 *)
(* on bad1, over a few divisors.  The solver enumerates some patterns of   *)
(* bad0 and of bad1, which are written into spare bits of the simulation   *)
(* (slots) and remembered by their place; a greedy cover picks divisors    *)
(* that tell them apart; the solver looks for a pair of patterns that they *)
(* do not tell apart, which is added to the sample; and when there is none *)
(* the truth table over these divisors is enumerated and filled.           *)
(*                                                                         *)
(* Circuit!Synthesized is what the Rectifier module takes for granted; the *)
(* proof that no other function comes out of here is in SynthesisProofs.   *)
(***************************************************************************)
EXTENDS SynthFill

CONSTANTS
  Problems,      \* [c, T, cur, t, tfo, bad0, bad1], see Synthesized, and
                 \* sims, the sets of patterns random simulation may have
  Cap,           \* patterns enumerated for each side, 40
  ScanCap,       \* sample patterns of each side after the scan, 64
  MaxIter,       \* refinements, 24
  Slots,         \* bits of the simulation kept for patterns, 2 * 64
  MaxCover,      \* divisors of a cover, 10
  MaxSup         \* ports of the function, 8

Ports(p) == {d.port : d \in Divisors(p.T, p.cur, p.t, p.tfo, p.c.nets)}

DivVal(p, d) == IF d > 0 THEN p.cur[d] ELSE p.cur[-d]

(* The divisors that are 1 on pattern q.                                   *)
Cell(p, ports, q) == {d \in ports : q \in DivVal(p, d)}

ASSUME SynthesisAssumption ==
  /\ Cap \in Nat /\ ScanCap \in Nat /\ MaxIter \in Nat /\ Slots \in Nat \ {0}
  /\ MaxCover \in Nat /\ MaxSup \in Nat
  /\ 2 * Cap + 2 * MaxIter <= Slots
  /\ \A p \in Problems :
       /\ IsFiniteSet(p.c.nets) /\ p.c.nets \subseteq Nat \ {0} /\ p.t \in p.c.nets
       /\ p.bad0 \subseteq Patterns(p.c) /\ p.bad1 \subseteq Patterns(p.c)
       /\ Patterns(p.c) # {} /\ p.sims \subseteq SUBSET Patterns(p.c)

VARIABLES
  problem,   \* what is to be synthesized
  pc,        \* "ones", "zeros", "scan", "cover", "check", "tableOnes",
             \* "tableZeros", "fill", "done", "failed", "violated"
  sim,       \* the patterns of the random simulation
  slots,     \* the patterns in the spare bits
  counter,   \* injectCounter
  blocked,   \* patterns already enumerated for this side
  p1, p0,    \* the sample: places of patterns of bad0, and of bad1
  S,         \* the ports chosen
  iter,      \* refinements so far
  one, zero, \* the truth table over S: cells that are 1, and 0
  result

sampleVars == <<sim, slots, counter, blocked, p1, p0>>
tableVars == <<one, zero, result>>
vars == <<problem, pc, sampleVars, S, iter, tableVars>>

(* A place is <<"slot", k>> or <<"sim", q>>, for pattern q of the          *)
(* simulation, which stays.                                                *)
PatternAt(e) == IF e[1] = "slot" THEN slots[e[2]] ELSE e[2]

Init ==
  /\ problem \in Problems
  /\ sim \in problem.sims
  /\ slots \in [0..(Slots - 1) -> {CHOOSE q \in Patterns(problem.c) : TRUE}]
  /\ counter = 0 /\ blocked = {} /\ p1 = {} /\ p0 = {} /\ pc = "ones"
  /\ S = {} /\ iter = 0 /\ one = {} /\ zero = {} /\ result = NoFn

-----------------------------------------------------------------------------
(* The sample.                                                             *)

(* enumPatterns: another pattern of the side, until there is none, there   *)
(* are Cap of them, or the solver runs into its limit.                     *)
Another(bad, q) == q \in bad \ blocked /\ Cardinality(blocked) < Cap

Inject(q) ==
  /\ slots' = [slots EXCEPT ![counter % Slots] = q]
  /\ counter' = counter + 1
  /\ blocked' = blocked \union {q}

EnumerateOne ==
  /\ pc = "ones"
  /\ \E q \in problem.bad0 :
       /\ Another(problem.bad0, q) /\ Inject(q)
       /\ p1' = p1 \union {<<"slot", counter % Slots>>}
  /\ UNCHANGED <<problem, pc, sim, p0, S, iter, tableVars>>

EndOnesReset ==   \* mutant: each enumeration starts with the first slot
  /\ pc = "ones"
  /\ pc' = "zeros" /\ blocked' = {} /\ counter' = 0
  /\ UNCHANGED <<problem, sim, slots, p1, p0, S, iter, tableVars>>
EndOnes ==
  /\ pc = "ones"
  /\ pc' = "zeros" /\ blocked' = {}
  /\ UNCHANGED <<problem, sim, slots, counter, p1, p0, S, iter, tableVars>>

EnumerateZero ==
  /\ pc = "zeros"
  /\ \E q \in problem.bad1 :
       /\ Another(problem.bad1, q) /\ Inject(q)
       /\ p0' = p0 \union {<<"slot", counter % Slots>>}
  /\ UNCHANGED <<problem, pc, sim, p1, S, iter, tableVars>>

EndZeros ==
  /\ pc = "zeros"
  /\ pc' = "scan" /\ blocked' = {}
  /\ UNCHANGED <<problem, sim, slots, counter, p1, p0, S, iter, tableVars>>

(* Places of the simulation fill up the sample, one pattern may be at many *)
(* of them.  (Later samples are cut to 128 places, which 64 and one of     *)
(* each of 24 refinements never reach.)  An empty sample: give up.         *)
Scanned(P, bad, more) ==
  /\ more \subseteq {<<"sim", q>> : q \in bad}
  /\ Cardinality(P \union more) <= ScanCap \/ more = {}
  /\ more # {} \/ bad = {} \/ Cardinality(P) >= ScanCap

Scan ==
  /\ pc = "scan"
  /\ \E more1 \in SUBSET {<<"sim", q>> : q \in sim \intersect problem.bad0},
        more0 \in SUBSET {<<"sim", q>> : q \in sim \intersect problem.bad1} :
       /\ Scanned(p1, sim \intersect problem.bad0, more1)
       /\ Scanned(p0, sim \intersect problem.bad1, more0)
       /\ p1' = p1 \union more1 /\ p0' = p0 \union more0
       /\ pc' = IF p1' = {} /\ p0' = {} THEN "failed" ELSE "cover"
  /\ UNCHANGED <<problem, sim, slots, counter, blocked, S, iter, tableVars>>

-----------------------------------------------------------------------------
(* The cover.                                                              *)

(* Pairs of the sample that divisor d tells apart; that nothing in S does. *)
Tells(d) ==
  {e \in p1 \X p0 : (PatternAt(e[1]) \in DivVal(problem, d))
                      # (PatternAt(e[2]) \in DivVal(problem, d))}
OpenSlots ==   \* mutant: only enumerated patterns are looked at
  {e \in (p1 \X p0) \ UNION {Tells(d) : d \in S} : e[1][1] = "slot" /\ e[2][1] = "slot"}
Open == (p1 \X p0) \ UNION {Tells(d) : d \in S}

(* The first divisor that tells most open pairs apart; nets come in their  *)
(* order, then the old value of t.                                         *)
Earlier(d, e) == d > 0 /\ (e < 0 \/ d < e)
Gain(d) == Cardinality(Tells(d) \intersect Open)
Best(d) ==
  /\ Gain(d) > 0
  /\ \A e \in Ports(problem) : Gain(e) < Gain(d) \/ (Gain(e) = Gain(d) /\ ~Earlier(e, d))

Pick ==
  /\ pc = "cover" /\ Open # {}
  /\ \E d \in Ports(problem) :
       /\ Best(d)
       /\ S' = S \union {d}
       /\ pc' = IF Cardinality(S') > MaxCover THEN "failed" ELSE "cover"
  /\ UNCHANGED <<problem, sampleVars, iter, tableVars>>

Inseparable ==
  /\ pc = "cover" /\ Open # {}
  /\ \A d \in Ports(problem) : Gain(d) = 0
  /\ pc' = "failed"
  /\ UNCHANGED <<problem, sampleVars, S, iter, tableVars>>

CoveredAgain ==   \* mutant: refinements are not counted
  /\ pc = "cover" /\ Open = {}
  /\ pc' = "check"
  /\ UNCHANGED <<problem, sampleVars, S, iter, tableVars>>
Covered ==
  /\ pc = "cover" /\ Open = {}
  /\ pc' = IF iter = MaxIter THEN "failed" ELSE "check"
  /\ UNCHANGED <<problem, sampleVars, S, iter, tableVars>>

-----------------------------------------------------------------------------
(* Sufficiency.                                                            *)

Agree(q1, q0) == Cell(problem, S, q1) = Cell(problem, S, q0)

(* A pair that S does not tell apart joins the sample, and the cover       *)
(* starts again.                                                           *)
Refine ==
  /\ pc = "check"
  /\ \E q1 \in problem.bad0, q0 \in problem.bad1 :
       /\ Agree(q1, q0)
       /\ slots' = [slots EXCEPT ![counter % Slots] = q1,
                                 ![(counter + 1) % Slots] = q0]
  /\ counter' = counter + 2
  /\ p1' = p1 \union {<<"slot", counter % Slots>>}
  /\ p0' = p0 \union {<<"slot", (counter + 1) % Slots>>}
  /\ S' = {} /\ iter' = iter + 1 /\ pc' = "cover"
  /\ UNCHANGED <<problem, sim, blocked, tableVars>>

Sufficient ==
  /\ pc = "check"
  /\ \A q1 \in problem.bad0, q0 \in problem.bad1 : ~Agree(q1, q0)
  /\ pc' = IF Cardinality(S) > MaxSup THEN "failed" ELSE "tableOnes"
  /\ UNCHANGED <<problem, sampleVars, S, iter, tableVars>>

(* Budget used up, or no answer.                                           *)
NoAnswer ==
  /\ pc = "check"
  /\ pc' = "failed"
  /\ UNCHANGED <<problem, sampleVars, S, iter, tableVars>>

-----------------------------------------------------------------------------
(* The truth table: models of bad0, then of bad1, each in a cell that has  *)
(* had none; there are queries for all cells and one more.                 *)
Queries == 2^Cardinality(S) + 1

TableOne ==
  /\ pc = "tableOnes" /\ Cardinality(one) < Queries
  /\ \E q \in problem.bad0 :
       /\ Cell(problem, S, q) \notin one
       /\ one' = one \union {Cell(problem, S, q)}
  /\ UNCHANGED <<problem, pc, sampleVars, S, iter, zero, result>>

EndTableOnes ==
  /\ pc = "tableOnes"
  /\ \/ {Cell(problem, S, q) : q \in problem.bad0} \subseteq one
     \/ Cardinality(one) >= Queries
  /\ pc' = "tableZeros"
  /\ UNCHANGED <<problem, sampleVars, S, iter, tableVars>>

TableZero ==
  /\ pc = "tableZeros" /\ Cardinality(zero) < Queries
  /\ \E q \in problem.bad1 :
       /\ Cell(problem, S, q) \notin zero
       /\ IF Cell(problem, S, q) \in one
          THEN pc' = "violated" /\ UNCHANGED zero
          ELSE zero' = zero \union {Cell(problem, S, q)} /\ UNCHANGED pc
  /\ UNCHANGED <<problem, sampleVars, S, iter, one, result>>

EndTableZeros ==
  /\ pc = "tableZeros"
  /\ \/ {Cell(problem, S, q) : q \in problem.bad1} \subseteq zero
     \/ Cardinality(zero) >= Queries
  /\ pc' = "fill"
  /\ UNCHANGED <<problem, sampleVars, S, iter, tableVars>>

Fill ==
  /\ pc = "fill"
  /\ result' \in Filled(S, one, zero)
  /\ pc' = "done"
  /\ UNCHANGED <<problem, sampleVars, S, iter, one, zero>>

Ended == pc \in {"done", "failed", "violated"} /\ UNCHANGED vars

Next ==
  \/ EnumerateOne \/ EndOnes \/ EnumerateZero \/ EndZeros \/ Scan
  \/ Pick \/ Inseparable \/ Covered \/ Refine \/ Sufficient \/ NoAnswer
  \/ TableOne \/ EndTableOnes \/ TableZero \/ EndTableZeros \/ Fill \/ Ended

Spec == Init /\ [][Next]_vars

-----------------------------------------------------------------------------
(* Properties.                                                             *)

(* Ports, cells and counters stay in range.                                *)
TypeOK ==
  /\ problem \in Problems /\ S \subseteq Ports(problem)
  /\ pc \in {"ones", "zeros", "scan", "cover", "check", "tableOnes",
             "tableZeros", "fill", "done", "failed", "violated"}
  /\ sim \subseteq Patterns(problem.c) /\ blocked \subseteq Patterns(problem.c)
  /\ slots \in [0..(Slots - 1) -> Patterns(problem.c)]
  /\ counter \in 0..Slots /\ iter \in 0..MaxIter
  /\ p1 \union p0 \subseteq ({"slot"} \X (0..(Slots - 1))) \union ({"sim"} \X sim)
  /\ one \subseteq SUBSET S /\ zero \subseteq SUBSET S

(* No place of the sample is used twice: "last 2 sim words reserved for    *)
(* care patterns" (rectify.hpp:569) are just enough for the 40 and 40      *)
(* patterns enumerated and the 2 of each of 24 refinements, so that all    *)
(* the sample, up to the last refinement, still is of bad0, or bad1.       *)
CareKept ==
  /\ \A e \in p1 : PatternAt(e) \in problem.bad0
  /\ \A e \in p0 : PatternAt(e) \in problem.bad1

(* Every refinement learns something: the pair that is found is not one    *)
(* that was in the sample.                                                 *)
Learns ==
  [][iter' > iter =>
       \A e \in p1 \X p0 :
         <<PatternAt(e[1]), PatternAt(e[2])>>
           # <<slots'[counter % Slots], slots'[(counter + 1) % Slots]>>]_vars

(* The function that comes out is a function of few divisors, 1 on all of  *)
(* bad0 and 0 on all of bad1, whatever patterns were sampled and whatever  *)
(* way of filling the table was the cheapest. No cell of the table is      *)
(* asked to be both: "sufficiency violated" (rectify.hpp:814) does not     *)
(* happen.                                                                 *)
ResultRight ==
  /\ pc # "violated"
  /\ pc = "done" =>
       /\ result.sup \subseteq Ports(problem) /\ Cardinality(result.sup) <= MaxSup
       /\ result.on \subseteq SUBSET result.sup
       /\ \A q \in problem.bad0 : Cell(problem, result.sup, q) \in result.on
       /\ \A q \in problem.bad1 : Cell(problem, result.sup, q) \notin result.on
=============================================================================
