----------------------------- MODULE Rectifier -----------------------------
(***************************************************************************)
(* Rectifier::run of rectify.hpp: repair the failing outputs of G1 by      *)
(* replacing the functions of a few of its internal nets.  Each round      *)
(* evaluates the patched circuit, collects candidate nets for the outputs  *)
(* that still fail, tries them in order, and applies the best single fix;  *)
(* when there is none it tries to replace two nets at once.  Only the      *)
(* first round looks at all outputs: later ones carry the set of failing   *)
(* outputs along, and drop from it what the fix was proved to repair.      *)
(*                                                                         *)
(* Choices that depend on budgets (SAT calls, conflicts, attempts) or on   *)
(* the greedy search of synthesize are left open.                          *)
(***************************************************************************)
EXTENDS Circuit

CONSTANTS
  Circuits,   \* the circuits to repair, see Circuit
  MaxRounds,  \* rounds of run(), 24 in runTrajectory
  MaxFix,     \* maxFixCostPerPo
  MaxSup      \* most ports of a patch function, 8 in synthesize

(* A circuit as it comes to the Rectifier: the outputs are nets, and every *)
(* net has a value, since buildCkt refuses G1 otherwise.  (A net that      *)
(* nobody drives and nobody reads is left out.)                            *)
Repairable(c) ==
  /\ IsCircuit(c)
  /\ c.pos \subseteq c.nets /\ \A o \in c.pos : c.spec[o] \subseteq Patterns(c)
  /\ \A n \in c.nets : Evaluate(c, Unpatched)[n] # Unset

ASSUME RectifierAssumption ==
  /\ MaxRounds \in Nat /\ MaxFix \in Nat /\ MaxSup \in Nat
  /\ \A c \in Circuits : Repairable(c)

VARIABLES
  circ,       \* the circuit of this execution
  drv,        \* patchedDrv: net -> patch function
  targetSet,  \* nets that are, or are about to be, replaced
  fixes,      \* the accepted fixes, in order
  cur,        \* curLit: net -> its function in the patched circuit
  round,
  carryF,     \* failing outputs carried to the next round
  F,          \* failing outputs of this round
  pc,         \* "round", "cands", "apply", "pairs", "pairA", "pairB",
              \* "done", "undefined"
  cands,      \* the candidates of this round, net -> what is known of it
  todo,       \* candidates not tried yet
  best,       \* the best fix so far
  pairs,      \* pairs not tried yet
  pair,       \* the pair at work
  result      \* what run() returned

searchVars == <<cands, todo, best, pairs, pair>>
vars == <<circ, drv, targetSet, fixes, cur, round, carryF, F, pc, searchVars,
          result>>

NoBest == [nid |-> 0, fn |-> NoFn, cost |-> 0, fixNow |-> 0, pos |-> {}]
NoPair == [n1 |-> 0, n2 |-> 0, gain |-> 0, tfo |-> {}, bad |-> [combo \in 0..3 |-> {}], f1 |-> NoFn]
NoCands == [n \in {} |-> NoFn]

Known == UNION {fixes[i].fn.sup : i \in DOMAIN fixes}

Failing(val) == {o \in circ.pos : val[o] # circ.spec[o]}

-----------------------------------------------------------------------------
(* Candidates and pairs of a round.                                        *)

(* A(t): the outputs in the fanout of net n are those a fix of n touches,  *)
(* and the inputs on which constant 0, or 1, at n leaves one of them wrong.*)
Candidate(val, n, failing) ==
  LET tfo == Tfo(circ, drv, n)
      bad(v) == Bad(circ, circ.pos \intersect tfo,
                    Cofactor(circ, drv, val, [m \in {n} |-> v], tfo))
  IN  [pos |-> circ.pos \intersect tfo, tfo |-> tfo,
       fixNow |-> Cardinality(circ.pos \intersect tfo \intersect failing),
       bad0 |-> bad(0), bad1 |-> bad(1)]

CandidateNets(failing) ==
  {n \in (circ.nets \intersect Tfi(circ, drv, failing)) \ targetSet :
     Tfo(circ, drv, n) \intersect failing # {}}

(* The order in which candidates are tried: most outputs repaired, then    *)
(* smallest fanout, then net number.                                       *)
Ahead(m, n) ==
  LET x == cands[m]  y == cands[n] IN
  \/ x.fixNow > y.fixNow
  \/ /\ x.fixNow = y.fixNow
     /\ \/ Cardinality(x.tfo) < Cardinality(y.tfo)
        \/ Cardinality(x.tfo) = Cardinality(y.tfo) /\ m < n

Candidates(val, failing) ==
  [n \in CandidateNets(failing) |-> Candidate(val, n, failing)]

(* All pairs of candidates, best first: most outputs repaired, then        *)
(* smallest fanouts, then the order of the candidates.                     *)
Pairs ==
  LET ordered == {p \in (DOMAIN cands) \X (DOMAIN cands) :
                    p[1] # p[2] /\ Ahead(p[1], p[2])}
      gain(m, n) == Cardinality((cands[m].pos \union cands[n].pos) \intersect F)
      size(m, n) == Cardinality(cands[m].tfo) + Cardinality(cands[n].tfo)
  IN  {r \in {[n1 |-> p[1], n2 |-> p[2], gain |-> gain(p[1], p[2]),
               size |-> size(p[1], p[2])] : p \in ordered} : r.gain >= 1}

PairAhead(p, q) ==
  \/ p.gain > q.gain
  \/ /\ p.gain = q.gain
     /\ \/ p.size < q.size
        \/ /\ p.size = q.size
           /\ \/ p.n1 # q.n1 /\ Ahead(p.n1, q.n1)
              \/ p.n1 = q.n1 /\ Ahead(p.n2, q.n2)

-----------------------------------------------------------------------------
Init ==
  /\ circ \in Circuits
  /\ drv = Unpatched /\ targetSet = {} /\ fixes = <<>>
  /\ cur = Evaluate(circ, drv)
  /\ round = 0 /\ carryF = {} /\ F = {} /\ pc = "round"
  /\ cands = NoCands /\ todo = {} /\ best = NoBest
  /\ pairs = {} /\ pair = NoPair
  /\ result = FALSE

(* Recompute the circuit; the first round proves every output equal or     *)
(* not, a later one takes the failing set as it was carried.  Nothing      *)
(* fails: done.  Budget used up: done.  Else the candidates are built; a   *)
(* cofactor without a value is undefined behaviour (literal -1, or a       *)
(* recursion that does not end).                                           *)
StartRound ==
  /\ pc = "round" /\ round < MaxRounds
  /\ cur' = Evaluate(circ, drv)
  /\ F' = IF round = 0 THEN Failing(cur') ELSE carryF
  /\ \/ /\ F' = {}
        /\ pc' = "done" /\ result' = TRUE
        /\ UNCHANGED <<cands, todo>>
     \/ /\ F' # {}
        /\ pc' = "done" /\ result' = FALSE
        /\ UNCHANGED <<cands, todo>>
     \/ /\ F' # {}
        /\ cands' = Candidates(cur', F')
        /\ todo' = DOMAIN cands'
        /\ pc' = IF \E n \in todo' : Unset \in {cands'[n].bad0, cands'[n].bad1}
                 THEN "undefined" ELSE "cands"
        /\ UNCHANGED result
  /\ UNCHANGED <<circ, drv, targetSet, fixes, round, carryF, best, pairs, pair>>

(* The next candidate, if its tier can still beat the best fix: screened   *)
(* out, refuted, not decided or not synthesized; or valid and synthesized. *)
TryCandidate ==
  /\ pc = "cands"
  /\ \E n \in todo :
       LET c == cands[n] IN
       /\ \A m \in todo : m = n \/ Ahead(n, m)
       /\ best.nid # 0 => c.fixNow >= best.fixNow
       /\ todo' = todo \ {n}
       /\ \/ UNCHANGED <<best, pc>>
          \/ /\ c.bad0 \intersect c.bad1 = {} /\ cur[n] = Unset
             /\ pc' = "undefined" /\ UNCHANGED best
          \/ /\ c.bad0 \intersect c.bad1 = {} /\ cur[n] # Unset
             /\ \E f \in Synthesized(circ, targetSet, cur, n, c.tfo, c.bad0,
                                     c.bad1, MaxSup) :
                  LET cost == FixCost(f, Known) IN
                  best' = IF best.nid = 0 \/ cost < best.cost
                          THEN [nid |-> n, fn |-> f, cost |-> cost,
                                fixNow |-> c.fixNow, pos |-> c.pos]
                          ELSE best
             /\ pc' = IF best'.cost <= 3 THEN "apply" ELSE "cands"
  /\ UNCHANGED <<circ, drv, targetSet, fixes, cur, round, carryF, F, cands,
                 pairs, pair, result>>

(* No candidate left, tier finished, or out of budget or attempts.         *)
StopTrying ==
  /\ pc = "cands"
  /\ pc' = "apply"
  /\ UNCHANGED <<circ, drv, targetSet, fixes, cur, round, carryF, F, searchVars,
                 result>>

EndRoundStale ==   \* mutant: the best fix of the round before is still there
  /\ round' = round + 1 /\ pc' = "round"
  /\ cands' = NoCands /\ todo' = {} /\ best' = best
  /\ pairs' = {} /\ pair' = NoPair
EndRound ==
  /\ round' = round + 1 /\ pc' = "round"
  /\ cands' = NoCands /\ todo' = {} /\ best' = NoBest
  /\ pairs' = {} /\ pair' = NoPair

(* The outputs that stay in the failing set after a fix that repairs pos.  *)
CarryAll(pos) == F          \* mutant: nothing is dropped
CarryNone(pos) == {}        \* mutant: everything is dropped
Carry(pos) == F \ pos

(* The best fix is accepted, unless it is too costly.                      *)
ApplyBest ==
  /\ pc = "apply"
  /\ best.nid # 0 /\ best.cost <= MaxFix * best.fixNow
  /\ drv' = [n \in DOMAIN drv \union {best.nid} |->
               IF n = best.nid THEN best.fn ELSE drv[n]]
  /\ targetSet' = targetSet \union {best.nid}
  /\ fixes' = Append(fixes, [target |-> best.nid, fn |-> best.fn])
  /\ carryF' = Carry(best.pos)
  /\ EndRound
  /\ UNCHANGED <<circ, cur, F, result>>

(* No single fix: rank the pairs of candidates.                            *)
RankPairs ==
  /\ pc = "apply"
  /\ ~(best.nid # 0 /\ best.cost <= MaxFix * best.fixNow)
  /\ pairs' = Pairs /\ pc' = "pairs"
  /\ UNCHANGED <<circ, drv, targetSet, fixes, cur, round, carryF, F, cands,
                 todo, best, pair, result>>

(* The next pair: dropped, or its four cofactors have no input on which    *)
(* all are wrong, and both nets are registered as targets.                 *)
PairsAgain(p) == pairs      \* mutant: the pair is tried again
PairsLeft(p) == pairs \ {p}

TryPair ==
  /\ pc = "pairs"
  /\ \E p \in pairs :
       LET tfo == cands[p.n1].tfo \union cands[p.n2].tfo
           forced(combo) == [m \in {p.n1, p.n2} |->
                               IF m = p.n1 THEN combo \div 2 ELSE combo % 2]
           bad == [combo \in 0..3 |->
                     Bad(circ, circ.pos \intersect tfo,
                         Cofactor(circ, drv, cur, forced(combo), tfo))]
       IN  /\ \A q \in pairs : p = q \/ PairAhead(p, q)
           /\ pairs' = PairsLeft(p)
           /\ \/ UNCHANGED <<targetSet, pair, pc>>
              \/ /\ \A q \in Patterns(circ) : \E i \in 0..3 : q \notin bad[i]
                 /\ targetSet' = targetSet \union {p.n1, p.n2}
                 /\ pair' = [n1 |-> p.n1, n2 |-> p.n2, gain |-> p.gain,
                             tfo |-> tfo, bad |-> bad, f1 |-> NoFn]
                 /\ pc' = IF \/ \E i \in 0..3 : bad[i] = Unset
                             \/ Unset \in {cur[p.n1], cur[p.n2]}
                          THEN "undefined" ELSE "pairA"
  /\ UNCHANGED <<circ, drv, fixes, cur, round, carryF, F, cands, todo, best,
                 result>>

(* Synthesis failed or the pair is too costly: it is no target any more.   *)
KeepTargets == targetSet   \* mutant: bail () is forgotten
Unregistered == targetSet \ {pair.n1, pair.n2}

Bail ==
  /\ targetSet' = Unregistered
  /\ pair' = NoPair /\ pc' = "pairs"
  /\ UNCHANGED <<circ, drv, fixes, cur, round, carryF, F, cands, todo, best,
                 pairs, result>>

(* f1 for the first net: 1 where 0 is wrong whatever the second one is.    *)
PairFirst ==
  /\ pc = "pairA"
  /\ \/ Bail
     \/ /\ \E f \in Synthesized(circ, targetSet, cur, pair.n1, pair.tfo,
                      pair.bad[0] \intersect pair.bad[1],
                      pair.bad[2] \intersect pair.bad[3], MaxSup) :
             pair' = [n1 |-> pair.n1, n2 |-> pair.n2, gain |-> pair.gain,
                      tfo |-> pair.tfo, bad |-> pair.bad, f1 |-> f]
        /\ pc' = "pairB"
        /\ UNCHANGED <<circ, drv, targetSet, fixes, cur, round, carryF, F, cands,
                       todo, best, pairs, result>>

(* f2 for the second net, given f1; the pair is accepted unless it is too  *)
(* costly for the outputs it repairs.                                      *)
PairSecond ==
  LET v1 == PatchValue(circ, cur, pair.f1)
      bad(v2) == {q \in Patterns(circ) :
                    q \in pair.bad[v2 + IF q \in v1 THEN 2 ELSE 0]}
  IN
  /\ pc = "pairB"
  /\ \/ Bail
     \/ \E f2 \in Synthesized(circ, targetSet, cur, pair.n2, pair.tfo, bad(0),
                              bad(1), MaxSup) :
          /\ FixCost(pair.f1, Known) + FixCost(f2, Known)
               <= MaxFix * pair.gain
          /\ drv' = [n \in DOMAIN drv \union {pair.n1, pair.n2} |->
                       IF n = pair.n1 THEN pair.f1
                       ELSE IF n = pair.n2 THEN f2 ELSE drv[n]]
          /\ fixes' = fixes \o <<[target |-> pair.n1, fn |-> pair.f1],
                                 [target |-> pair.n2, fn |-> f2]>>
          /\ carryF' = Carry(circ.pos \intersect pair.tfo)
          /\ EndRound
          /\ UNCHANGED <<circ, targetSet, cur, F, result>>

(* No pair left, or out of budget: run() gives up.                         *)
GiveUp ==
  /\ pc = "pairs"
  /\ pc' = "done" /\ result' = FALSE
  /\ UNCHANGED <<circ, drv, targetSet, fixes, cur, round, carryF, F, searchVars>>

(* All rounds used: one last check of every output.                        *)
FinalCheck ==
  /\ pc = "round" /\ round = MaxRounds
  /\ cur' = Evaluate(circ, drv)
  /\ pc' = IF \E o \in circ.pos : cur'[o] = Unset THEN "undefined" ELSE "done"
  /\ result' = (Failing(cur') = {})
  /\ UNCHANGED <<circ, drv, targetSet, fixes, round, carryF, F, searchVars>>

Finished == pc \in {"done", "undefined"} /\ UNCHANGED vars

Step ==
  \/ StartRound \/ TryCandidate \/ StopTrying \/ ApplyBest \/ RankPairs
  \/ TryPair \/ PairFirst \/ PairSecond \/ GiveUp \/ FinalCheck

Next == Step \/ Finished

Spec == Init /\ [][Next]_vars

-----------------------------------------------------------------------------
(* Properties.                                                             *)

(* Nets, values and counters stay in range: no more than MaxRounds rounds. *)
TypeOK ==
  LET ports == circ.nets \union {-n : n \in circ.nets}
      isFn(f) == f.sup \subseteq ports /\ f.on \subseteq SUBSET f.sup
      isValue(v) == v \subseteq Patterns(circ) \/ v = Unset
  IN
  /\ circ \in Circuits /\ round \in 0..MaxRounds /\ result \in BOOLEAN
  /\ pc \in {"round", "cands", "apply", "pairs", "pairA", "pairB", "done",
             "undefined"}
  /\ DOMAIN drv \subseteq circ.nets /\ \A n \in DOMAIN drv : isFn(drv[n])
  /\ targetSet \subseteq circ.nets /\ Len(fixes) <= 2 * MaxRounds
  /\ DOMAIN cur = circ.nets \union {0, 1} /\ \A n \in DOMAIN cur : isValue(cur[n])
  /\ carryF \subseteq circ.pos /\ F \subseteq circ.pos
  /\ todo \subseteq DOMAIN cands /\ DOMAIN cands \subseteq circ.nets
  /\ best.nid \in DOMAIN cands \union {0} /\ isFn(best.fn) /\ best.cost \in Nat

Targets == {fixes[i].target : i \in DOMAIN fixes}

(* The patch function reads the old value of a net.                        *)
ReadsOld(f) == \E p \in f.sup : p < 0

(* What the Rectifier keeps three times - patchedDrv, targetSet and fixes  *)
(* - stays one set: no net is fixed twice, and a pair that bails out of    *)
(* the middle of tryPairs leaves nothing behind (rectify.hpp:1138).        *)
TargetsConsistent ==
  pc # "undefined" =>
    /\ targetSet = DOMAIN drv \union
         (IF pc \in {"pairA", "pairB"} THEN {pair.n1, pair.n2} ELSE {})
    /\ DOMAIN drv = Targets
    /\ \A i, j \in DOMAIN fixes : fixes[i].target = fixes[j].target => i = j
    /\ \A i \in DOMAIN fixes : drv[fixes[i].target] = fixes[i].fn
    /\ pc \in {"pairA", "pairB"} =>
         pair.n1 # pair.n2 /\ {pair.n1, pair.n2} \intersect DOMAIN drv = {}

(* The nets whose values really depend on net n in the patched circuit.    *)
DependsOn(n) ==
  Closure(circ, {n},
    [k \in circ.nets |-> {m \in circ.nets : k \in Reads(circ, drv, m)}])

(* No fix reads the old value of a net downstream of another fix.          *)
OldValuesStable ==
  \A t, u \in DOMAIN drv : t # u /\ ReadsOld(drv[t]) => t \notin DependsOn(u)

FIsCurrent ==
  pc \in {"cands", "apply", "pairs"} \/ (pc = "done" /\ round < MaxRounds)

(* The failing set carried from round to round is the set of outputs that  *)
(* fail, although only the first round looks at all of them, for as long   *)
(* as old values are stable: "validity proof covers every PO in A(t)"      *)
(* (rectify.hpp:1503).  With it, run() returns true only for a repaired    *)
(* circuit.                                                                *)
CarryExactIfStable ==
  FIsCurrent /\ OldValuesStable => F = Failing(cur)

(* The same for rounds that apply single fixes, as the comment has it:     *)
(* whatever the fixes read.                                                *)
CarryExact == FIsCurrent /\ Len(fixes) = round => F = Failing(cur)

(* The fixes never close a combinational cycle, nor does the search ever   *)
(* use a net without a value, for as long as old values are stable.        *)
DefinedIfStable ==
  OldValuesStable => /\ pc # "undefined"
                     /\ FIsCurrent => \A n \in circ.nets : cur[n] # Unset

(* A fix is never taken back or overwritten, and each accepted fix drops   *)
(* an output from the failing set and adds none: no more rounds than       *)
(* failing outputs.                                                        *)
Progress ==
  [][/\ DOMAIN drv \subseteq DOMAIN drv'
     /\ \A n \in DOMAIN drv : drv'[n] = drv[n]
     /\ round' > round => carryF' \subseteq F /\ carryF' # F]_vars

(* run() comes to an end: every step ends it, or starts one of at most     *)
(* MaxRounds new rounds, or gets further within its round, where neither a *)
(* candidate nor a pair is tried twice, bails or not.                      *)
Phase ==
  CASE pc = "round" -> 0 [] pc = "cands" -> 1 [] pc = "apply" -> 2
    [] pc \in {"pairs", "pairA", "pairB"} -> 3
    [] pc \in {"done", "undefined"} -> 4

Untried ==
  IF Phase = 1 THEN Cardinality(todo)
  ELSE 3 * Cardinality(pairs)
         + (IF pc = "pairA" THEN 2 ELSE IF pc = "pairB" THEN 1 ELSE 0)

Advances ==
  [][/\ round' <= MaxRounds
     /\ \/ round' > round
        \/ round' = round /\ Phase' > Phase
        \/ round' = round /\ Phase' = Phase /\ Untried' < Untried]_vars
=============================================================================
