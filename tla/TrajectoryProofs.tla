-------------------------- MODULE TrajectoryProofs --------------------------
(***************************************************************************)
(* Theorems about Rectifier and Trajectory, for all netlists and bounds,   *)
(* and however targets are chosen.                                         *)
(*                                                                         *)
(* Rectifier: its three copies of the set of targets agree, fixes are      *)
(* never undone and each one makes the failing set smaller, and the run    *)
(* comes to an end; while old values are stable, the failing set that is   *)
(* carried from round to round is exact and every net has a value, as the  *)
(* values that a cofactor predicted are those of the circuit that has the  *)
(* new patches in it (CircuitProofs).                                      *)
(*                                                                         *)
(* Trajectory: every candidate is what was emitted for known targets       *)
(* (OriginInv), and the Rectifier's invariant holds of the fixes from      *)
(* which they are made (TrajInv). PatchProofs tells what such a candidate  *)
(* is and computes; from this follow its form (CandidatesCorrect), its     *)
(* values (BaselineCorrect, FixesCorrect, VariantBCorrect, HybridCorrect)  *)
(* and that the trajectory implements the safety part of EcoAnswer.        *)
(***************************************************************************)
EXTENDS Trajectory, PatchProofs, SequenceTheorems

-----------------------------------------------------------------------------
(* The Rectifier.                                                          *)

Searching == {"cands", "apply", "pairs", "pairA", "pairB"}
Pairing == {"pairA", "pairB"}

(* Append and concatenation want a sequence over some set.                 *)
IsSequence(s) == \E S : s \in Seq(S)

(* The candidates of a round are no targets, and a fix of one repairs an   *)
(* output that fails; best, todo, pairs and pair come from them.           *)
SearchInv ==
  /\ DOMAIN cands \subseteq circ.nets /\ DOMAIN cands \intersect DOMAIN drv = {}
  /\ \A n \in DOMAIN cands : /\ cands[n].pos = circ.pos \intersect cands[n].tfo
                             /\ cands[n].pos \intersect F # {}
  /\ todo \subseteq DOMAIN cands /\ IsFiniteSet(todo)
  /\ best.nid # 0 => best.nid \in DOMAIN cands /\ best.pos = cands[best.nid].pos
  /\ pc \in Pairing \union {"pairs"} =>
       /\ IsFiniteSet(pairs)
       /\ \A p \in pairs : {p.n1, p.n2} \subseteq DOMAIN cands /\ p.n1 # p.n2
  /\ pc \in Pairing =>
       /\ {pair.n1, pair.n2} \subseteq DOMAIN cands
       /\ pair.tfo = cands[pair.n1].tfo \union cands[pair.n2].tfo

Inv ==
  /\ circ \in Circuits /\ round \in 0..MaxRounds
  /\ pc \in Searching \union {"round", "done", "undefined"}
  /\ pc \in Searching => round < MaxRounds
  /\ F \subseteq circ.pos /\ carryF \subseteq circ.pos
  /\ IsSequence(fixes)
  /\ pc = "round" => best = NoBest
  /\ TargetsConsistent
  /\ pc \in Searching => SearchInv

-----------------------------------------------------------------------------
(* What the search knows of the values of nets.                            *)

(* A patch function of net n: its ports are nets or the old value of n.    *)
IsFn(n, f) ==
  /\ f.sup \subseteq circ.nets \union {-n} /\ IsFiniteSet(f.sup) /\ f.on \subseteq SUBSET f.sup
  /\ IsConstant(f) => f.sup = {}

BestType ==
  /\ best.nid \in DOMAIN cands \union {0} /\ best.cost \in Nat
  /\ IF best.nid = 0 THEN best.fn = NoFn ELSE IsFn(best.nid, best.fn)

TypeInv ==
  /\ DOMAIN drv \subseteq circ.nets /\ \A n \in DOMAIN drv : IsFn(n, drv[n])
  /\ targetSet \subseteq circ.nets /\ Len(fixes) <= 2 * round
  /\ cur \in [NetsOf(circ) -> Values(circ)] /\ result \in BOOLEAN
  /\ DOMAIN cands \subseteq circ.nets /\ todo \subseteq DOMAIN cands
  /\ BestType
  /\ pc = "pairB" => IsFn(pair.n1, pair.f1)
  /\ pc = "round" => cands = NoCands /\ todo = {}

(* The candidates, the best of them and the pair at work say of the        *)
(* current values what they should.                                        *)
CandFacts ==
  /\ cur = Evaluate(circ, drv)
  /\ \A n \in DOMAIN cands : cands[n] = Candidate(cur, n, F)

BestFacts ==
  best.nid # 0 =>
    best.fn \in Synthesized(circ, DOMAIN drv, cur, best.nid, cands[best.nid].tfo,
                  cands[best.nid].bad0, cands[best.nid].bad1, MaxSup)

PairFacts ==
  /\ pc \in Pairing =>
       \A combo \in 0 .. 3 :
         pair.bad[combo] =
           Bad(circ, circ.pos \intersect pair.tfo,
               Cofactor(circ, drv, cur, PairForced(pair.n1, pair.n2, combo), pair.tfo))
  /\ pc = "pairB" =>
       pair.f1 \in Synthesized(circ, targetSet, cur, pair.n1, pair.tfo,
                     pair.bad[0] \intersect pair.bad[1],
                     pair.bad[2] \intersect pair.bad[3], MaxSup)

(* F is meant to be the set of failing outputs.                            *)
Current == pc \in Searching \/ (pc = "done" /\ round < MaxRounds)

(* What holds for as long as old values are stable.                        *)
StableFacts ==
  /\ pc # "undefined" /\ Whole(circ, drv, Evaluate(circ, drv))
  /\ pc = "round" /\ round > 0 => carryF = Failing(Evaluate(circ, drv))
  /\ Current => cur = Evaluate(circ, drv) /\ F = Failing(cur)

ValueInv ==
  /\ Inv /\ TypeInv
  /\ pc \in Searching => CandFacts /\ BestFacts /\ PairFacts
  /\ Stable(circ, drv) => StableFacts

-----------------------------------------------------------------------------
(* What a round starts with.                                               *)
LEMMA CandidatesInv ==
  ASSUME NEW val, NEW failing \in SUBSET circ.pos, circ \in Circuits
  PROVE  LET cs == Candidates(val, failing) IN
         /\ DOMAIN cs \subseteq circ.nets \ targetSet
         /\ IsFiniteSet(DOMAIN cs)
         /\ \A n \in DOMAIN cs : /\ cs[n].pos = circ.pos \intersect cs[n].tfo
                                 /\ cs[n].pos \intersect failing # {}
<1> DEFINE cs == Candidates(val, failing)
<1>1. DOMAIN cs = CandidateNets(failing)
  BY DEF Candidates
<1>2. DOMAIN cs \subseteq circ.nets \ targetSet
  BY <1>1 DEF CandidateNets
<1>3. IsFiniteSet(DOMAIN cs)
  BY <1>2, FS_Subset, RectifierAssumption DEF Repairable, IsCircuit
<1>4. ASSUME NEW n \in DOMAIN cs
      PROVE  /\ cs[n].pos = circ.pos \intersect cs[n].tfo
             /\ cs[n].pos \intersect failing # {}
  <2>1. cs[n] = Candidate(val, n, failing)
    BY <1>1, <1>4 DEF Candidates
  <2>2. /\ cs[n].pos = circ.pos \intersect Tfo(circ, drv, n)
        /\ cs[n].tfo = Tfo(circ, drv, n)
    BY <2>1 DEF Candidate
  <2>3. Tfo(circ, drv, n) \intersect failing # {}
    BY <1>1, <1>4 DEF CandidateNets
  <2> QED
    BY <2>2, <2>3
<1> QED
  BY <1>2, <1>3, <1>4

(* The pairs are finitely many pairs of different candidates.              *)
LEMMA PairsInv ==
  ASSUME IsFiniteSet(DOMAIN cands)
  PROVE  /\ IsFiniteSet(Pairs)
         /\ \A p \in Pairs : {p.n1, p.n2} \subseteq DOMAIN cands /\ p.n1 # p.n2
<1> DEFINE gain(m, n) ==
             Cardinality((cands[m].pos \union cands[n].pos) \intersect F)
           size(m, n) == Cardinality(cands[m].tfo) + Cardinality(cands[n].tfo)
           D == (DOMAIN cands) \X (DOMAIN cands)
           rec(p) == [n1 |-> p[1], n2 |-> p[2], gain |-> gain(p[1], p[2]),
                      size |-> size(p[1], p[2])]
           T == {rec(p) : p \in D}
           f == [p \in D |-> rec(p)]
<1>1. IsFiniteSet(D)
  BY FS_Product
<1>2. f \in Surjection(D, T)
  BY DEF Surjection
<1>3. IsFiniteSet(T)
  BY ONLY <1>1, <1>2, FS_Surjection
<1>4. Pairs \subseteq T
  BY DEF Pairs
<1>5. \A p \in Pairs : {p.n1, p.n2} \subseteq DOMAIN cands /\ p.n1 # p.n2
  <2> TAKE p \in Pairs
  <2>1. PICK q \in D : p = rec(q) /\ q[1] # q[2]
    BY DEF Pairs
  <2> QED
    BY <2>1
<1> QED
  BY <1>3, <1>4, <1>5, FS_Subset

LEMMA InitInv == Init => Inv
<1> SUFFICES ASSUME Init PROVE Inv
  OBVIOUS
<1>1. IsSequence(fixes) /\ Len(fixes) = 0
  BY DEF Init, IsSequence
<1>2. DOMAIN fixes = {} /\ DOMAIN drv = {}
  BY <1>1 DEF Init, Unpatched
<1>3. TargetsConsistent
  BY <1>2 DEF Init, Unpatched, TargetsConsistent, Targets
<1> QED
  BY <1>1, <1>3, RectifierAssumption DEF Init, Inv, Searching

(* Accepting the fixes of the nets of N, none of them a target before.     *)
(* G is the sequence of their fixes, one for every net.                    *)
LEMMA AcceptConsistent ==
  ASSUME Inv, pc # "undefined", NEW G, IsSequence(G),
         \A i, j \in DOMAIN G : G[i].target = G[j].target => i = j,
         NEW T, T = {G[i].target : i \in DOMAIN G}, T \intersect DOMAIN drv = {},
         targetSet' = DOMAIN drv \union T,
         fixes' = fixes \o G, pc' = "round",
         DOMAIN drv' = DOMAIN drv \union T,
         \A n \in DOMAIN drv : drv'[n] = drv[n],
         \A i \in DOMAIN G : drv'[G[i].target] = G[i].fn
  PROVE  IsSequence(fixes') /\ TargetsConsistent'
<1>1. PICK S : fixes \in Seq(S) /\ G \in Seq(S)
  <2>1. PICK S1 : fixes \in Seq(S1)
    BY DEF Inv, IsSequence
  <2>2. PICK S2 : G \in Seq(S2)
    BY DEF IsSequence
  <2>3. fixes \in Seq(S1 \union S2) /\ G \in Seq(S1 \union S2)
    BY <2>1, <2>2
  <2> QED
    BY <2>3
<1>2. /\ fixes' \in Seq(S) /\ Len(fixes') = Len(fixes) + Len(G)
      /\ \A i \in 1..Len(fixes') : fixes'[i] =
           IF i <= Len(fixes) THEN fixes[i] ELSE G[i - Len(fixes)]
  BY <1>1
<1>3. /\ DOMAIN fixes = 1..Len(fixes) /\ DOMAIN G = 1..Len(G)
      /\ DOMAIN fixes' = 1..(Len(fixes) + Len(G))
      /\ Len(fixes) \in Nat /\ Len(G) \in Nat
  BY <1>1, <1>2
<1>4. /\ DOMAIN drv = Targets
      /\ \A i, j \in DOMAIN fixes : fixes[i].target = fixes[j].target => i = j
      /\ \A i \in DOMAIN fixes : drv[fixes[i].target] = fixes[i].fn
  BY DEF Inv, TargetsConsistent
<1>5. \A i \in DOMAIN fixes' :
        \/ i \in DOMAIN fixes /\ fixes'[i] = fixes[i]
        \/ i - Len(fixes) \in DOMAIN G /\ fixes'[i] = G[i - Len(fixes)]
  BY <1>2, <1>3
<1>6. /\ \A i \in DOMAIN fixes : i \in DOMAIN fixes' /\ fixes'[i] = fixes[i]
      /\ \A i \in DOMAIN G : /\ i + Len(fixes) \in DOMAIN fixes'
                            /\ fixes'[i + Len(fixes)] = G[i]
  BY <1>2, <1>3
<1>7. Targets' = Targets \union T
  <2>1. Targets' \subseteq Targets \union T
    BY <1>5 DEF Targets
  <2>2. Targets \subseteq Targets'
    BY <1>6 DEF Targets
  <2>3. ASSUME NEW i \in DOMAIN G PROVE G[i].target \in Targets'
    BY <1>6 DEF Targets
  <2> QED
    BY <2>1, <2>2, <2>3
<1>8. \A i, j \in DOMAIN fixes' : fixes'[i].target = fixes'[j].target => i = j
  <2> SUFFICES ASSUME NEW i \in DOMAIN fixes', NEW j \in DOMAIN fixes',
                      fixes'[i].target = fixes'[j].target
               PROVE  i = j
    OBVIOUS
  <2>1. \A k \in DOMAIN fixes : fixes[k].target \in DOMAIN drv
    BY <1>4 DEF Targets
  <2>2. \A k \in DOMAIN G : G[k].target \notin DOMAIN drv
    OBVIOUS
  <2>3. i \in Int /\ j \in Int
    BY <1>3
  <2> QED
    BY <1>3, <1>4, <1>5, <2>1, <2>2, <2>3
<1>9. \A i \in DOMAIN fixes' : drv'[fixes'[i].target] = fixes'[i].fn
  <2> TAKE i \in DOMAIN fixes'
  <2>1. CASE i \in DOMAIN fixes /\ fixes'[i] = fixes[i]
    <3>1. fixes[i].target \in DOMAIN drv
      BY <1>4, <2>1 DEF Targets
    <3> QED
      BY <1>4, <2>1, <3>1
  <2>2. CASE i - Len(fixes) \in DOMAIN G /\ fixes'[i] = G[i - Len(fixes)]
    BY <2>2
  <2> QED
    BY <1>5, <2>1, <2>2
<1> QED
  BY <1>2, <1>4, <1>7, <1>8, <1>9 DEF TargetsConsistent, IsSequence

-----------------------------------------------------------------------------
(* What a step does: keep the invariant, keep every accepted fix, and make *)
(* the failing set smaller whenever it ends a round.                       *)
FixesKept ==
  /\ DOMAIN drv \subseteq DOMAIN drv'
  /\ \A n \in DOMAIN drv : drv'[n] = drv[n]
  /\ round' > round => carryF' \subseteq F /\ carryF' # F

LEMMA SameFixes ==
  ASSUME Inv, UNCHANGED <<drv, round>>
  PROVE  FixesKept
BY DEF Inv, FixesKept

(* TargetsConsistent does not change with anything but these.              *)
LEMMA SameTargets ==
  ASSUME TargetsConsistent, UNCHANGED <<drv, fixes>>, pc # "undefined",
         pc' # "undefined" =>
           \/ /\ pc' \notin Pairing
              /\ targetSet' = DOMAIN drv
           \/ /\ pc' \in Pairing
              /\ pair'.n1 # pair'.n2
              /\ {pair'.n1, pair'.n2} \intersect DOMAIN drv = {}
              /\ targetSet' = DOMAIN drv \union {pair'.n1, pair'.n2}
  PROVE  TargetsConsistent'
BY DEF TargetsConsistent, Targets, Pairing

LEMMA StartRoundInv ==
  ASSUME Inv, StartRound
  PROVE  Inv' /\ FixesKept
<1>1. pc = "round" /\ round < MaxRounds /\ targetSet = DOMAIN drv
  BY DEF StartRound, Inv, TargetsConsistent
<1>2. F' \subseteq circ.pos
  BY DEF StartRound, Inv, Failing
<1>3. /\ UNCHANGED <<circ, drv, targetSet, fixes, round, carryF, best, pairs, pair>>
      /\ pc' \in {"done", "undefined", "cands"}
      /\ pc' = "cands" => cands' = Candidates(cur', F') /\ todo' = DOMAIN cands'
  BY DEF StartRound
<1>4. pc' = "cands" => SearchInv'
  <2> SUFFICES ASSUME pc' = "cands" PROVE SearchInv'
    OBVIOUS
  <2>1. /\ DOMAIN cands' \subseteq circ.nets \ targetSet
        /\ IsFiniteSet(DOMAIN cands')
        /\ \A n \in DOMAIN cands' :
             /\ cands'[n].pos = circ.pos \intersect cands'[n].tfo
             /\ cands'[n].pos \intersect F' # {}
    BY <1>2, <1>3, CandidatesInv DEF Inv
  <2> QED
    BY <1>1, <1>3, <2>1 DEF SearchInv, Inv, NoBest, Pairing
<1>5. TargetsConsistent'
  BY <1>1, <1>3, SameTargets DEF Inv, Pairing
<1> QED
  BY <1>1, <1>2, <1>3, <1>4, <1>5, SameFixes DEF Inv, Searching

(* Steps of the search that only look for a fix.                           *)
LEMMA SearchStep ==
  ASSUME Inv, pc \in Searching, pc' \in Searching \union {"done", "undefined"},
         UNCHANGED <<circ, drv, fixes, round, carryF, F, cands>>,
         TargetsConsistent', pc' \in Searching => SearchInv'
  PROVE  Inv' /\ FixesKept
BY SameFixes DEF Inv, Searching

LEMMA TryCandidateInv ==
  ASSUME Inv, TryCandidate
  PROVE  Inv' /\ FixesKept
<1>1. SearchInv /\ pc = "cands" /\ targetSet = DOMAIN drv
  BY DEF TryCandidate, Inv, Searching, TargetsConsistent
<1>2. PICK n \in todo :
        /\ todo' = todo \ {n}
        /\ pc' \in {"cands", "apply", "undefined"}
        /\ \/ best' = best
           \/ best'.nid = n /\ best'.pos = cands[n].pos
  BY <1>1 DEF TryCandidate
<1>3. UNCHANGED <<circ, drv, targetSet, fixes, round, carryF, F, cands, pairs,
                  pair>>
  BY DEF TryCandidate
<1>4. IsFiniteSet(todo')
  BY <1>1, <1>2, FS_RemoveElement DEF SearchInv
<1>5. SearchInv'
  BY <1>1, <1>2, <1>3, <1>4 DEF SearchInv, Pairing
<1>6. TargetsConsistent'
  BY <1>1, <1>2, <1>3, SameTargets DEF Inv, Pairing
<1> QED
  BY <1>1, <1>2, <1>3, <1>5, <1>6, SearchStep DEF Searching

LEMMA StopTryingInv ==
  ASSUME Inv, StopTrying
  PROVE  Inv' /\ FixesKept
<1>1. SearchInv /\ pc = "cands" /\ pc' = "apply" /\ targetSet = DOMAIN drv
  BY DEF StopTrying, Inv, Searching, TargetsConsistent
<1>2. UNCHANGED <<circ, drv, targetSet, fixes, round, carryF, F, cands, todo,
                  best, pairs, pair>>
  BY DEF StopTrying, searchVars
<1>3. SearchInv' /\ TargetsConsistent'
  BY <1>1, <1>2, SameTargets DEF Inv, SearchInv, Pairing
<1> QED
  BY <1>1, <1>2, <1>3, SearchStep DEF Searching

LEMMA RankPairsInv ==
  ASSUME Inv, RankPairs
  PROVE  Inv' /\ FixesKept
<1>1. SearchInv /\ pc = "apply" /\ pc' = "pairs" /\ targetSet = DOMAIN drv
  BY DEF RankPairs, Inv, Searching, TargetsConsistent
<1>2. /\ UNCHANGED <<circ, drv, targetSet, fixes, round, carryF, F, cands, todo,
                     best, pair>>
      /\ pairs' = Pairs
  BY DEF RankPairs
<1>3. IsFiniteSet(DOMAIN cands)
  BY <1>1, FS_Subset, RectifierAssumption DEF Inv, SearchInv, Repairable, IsCircuit
<1>4. SearchInv' /\ TargetsConsistent'
  BY <1>1, <1>2, <1>3, PairsInv, SameTargets DEF Inv, SearchInv, Pairing
<1> QED
  BY <1>1, <1>2, <1>4, SearchStep DEF Searching

LEMMA TryPairInv ==
  ASSUME Inv, TryPair
  PROVE  Inv' /\ FixesKept
<1>1. SearchInv /\ pc = "pairs" /\ targetSet = DOMAIN drv
  BY DEF TryPair, Inv, Searching, TargetsConsistent
<1>2. PICK p \in pairs :
        /\ pairs' = pairs \ {p}
        /\ \/ UNCHANGED <<targetSet, pair, pc>>
           \/ /\ targetSet' = targetSet \union {p.n1, p.n2}
              /\ pair'.n1 = p.n1 /\ pair'.n2 = p.n2
              /\ pair'.tfo = cands[p.n1].tfo \union cands[p.n2].tfo
              /\ pc' \in {"undefined", "pairA"}
  BY DEF TryPair, PairsLeft
<1>3. UNCHANGED <<circ, drv, fixes, round, carryF, F, cands, todo, best>>
  BY DEF TryPair
<1>4. IsFiniteSet(pairs')
  BY <1>1, <1>2, FS_RemoveElement DEF SearchInv, Pairing
<1>5. {p.n1, p.n2} \subseteq DOMAIN cands /\ p.n1 # p.n2
  BY <1>1, <1>2 DEF SearchInv, Pairing
<1>6. SearchInv'
  BY <1>1, <1>2, <1>3, <1>4, <1>5 DEF SearchInv, Pairing
<1>7. TargetsConsistent'
  <2>1. {p.n1, p.n2} \intersect DOMAIN drv = {}
    BY <1>1, <1>5 DEF SearchInv
  <2> QED
    BY <1>1, <1>2, <1>3, <1>5, <2>1, SameTargets DEF Inv, Pairing
<1> QED
  BY <1>1, <1>2, <1>3, <1>6, <1>7, SearchStep DEF Searching

LEMMA BailInv ==
  ASSUME Inv, pc \in Pairing, Bail
  PROVE  Inv' /\ FixesKept
<1>1. SearchInv /\ pc' = "pairs"
  BY DEF Bail, Inv, Searching, Pairing
<1>2. UNCHANGED <<circ, drv, fixes, round, carryF, F, cands, todo, best, pairs>>
  BY DEF Bail
<1>3. targetSet' = DOMAIN drv
  BY DEF Bail, Unregistered, Inv, TargetsConsistent, Pairing
<1>4. SearchInv'
  BY <1>1, <1>2 DEF SearchInv, Pairing
<1>5. TargetsConsistent'
  BY <1>1, <1>2, <1>3, SameTargets DEF Inv, Pairing
<1> QED
  BY <1>1, <1>2, <1>4, <1>5, SearchStep DEF Searching, Pairing

LEMMA PairFirstInv ==
  ASSUME Inv, PairFirst
  PROVE  Inv' /\ FixesKept
<1>1. SearchInv /\ pc = "pairA"
  BY DEF PairFirst, Inv, Searching
<1>2. CASE Bail
  BY <1>1, <1>2, BailInv DEF Pairing
<1>3. CASE ~Bail
  <2>1. /\ pair'.n1 = pair.n1 /\ pair'.n2 = pair.n2 /\ pair'.tfo = pair.tfo
        /\ pc' = "pairB"
        /\ UNCHANGED <<circ, drv, targetSet, fixes, round, carryF, F, cands,
                       todo, best, pairs>>
    BY <1>3 DEF PairFirst
  <2>2. SearchInv'
    BY <1>1, <2>1 DEF SearchInv, Pairing
  <2>3. TargetsConsistent'
    BY <1>1, <2>1, SameTargets DEF Inv, Pairing, TargetsConsistent
  <2> QED
    BY <1>1, <2>1, <2>2, <2>3, SearchStep DEF Searching
<1> QED
  BY <1>2, <1>3

LEMMA GiveUpInv ==
  ASSUME Inv, GiveUp
  PROVE  Inv' /\ FixesKept
<1>1. /\ pc = "pairs" /\ pc' = "done" /\ targetSet = DOMAIN drv
      /\ UNCHANGED <<circ, drv, targetSet, fixes, round, carryF, F, cands>>
  BY DEF GiveUp, Inv, TargetsConsistent, searchVars
<1>2. TargetsConsistent'
  BY <1>1, SameTargets DEF Inv, Pairing
<1> QED
  BY <1>1, <1>2, SearchStep DEF Searching

LEMMA FinalCheckInv ==
  ASSUME Inv, FinalCheck
  PROVE  Inv' /\ FixesKept
<1>1. /\ pc = "round" /\ pc' \in {"done", "undefined"} /\ targetSet = DOMAIN drv
      /\ UNCHANGED <<circ, drv, targetSet, fixes, round, carryF, F>>
  BY DEF FinalCheck, Inv, TargetsConsistent
<1>2. TargetsConsistent'
  BY <1>1, SameTargets DEF Inv, Pairing
<1> QED
  BY <1>1, <1>2, SameFixes DEF Inv, Searching

(* A fix that is accepted ends the round.                                  *)
LEMMA EndRoundInv ==
  ASSUME Inv, pc \in Searching, EndRound, UNCHANGED <<circ, F>>,
         NEW P \in SUBSET circ.pos, P \intersect F # {}, carryF' = F \ P,
         DOMAIN drv \subseteq DOMAIN drv', \A n \in DOMAIN drv : drv'[n] = drv[n],
         IsSequence(fixes'), TargetsConsistent'
  PROVE  Inv' /\ FixesKept
<1>1. /\ round \in Nat /\ round < MaxRounds /\ round' = round + 1 /\ pc' = "round"
      /\ best' = NoBest
  BY DEF Inv, EndRound
<1>2. carryF' \subseteq F /\ carryF' # F /\ F \subseteq circ.pos
  BY DEF Inv
<1>3. FixesKept
  BY <1>2 DEF FixesKept
<1>4. round' \in 0..MaxRounds
  BY <1>1, RectifierAssumption
<1> QED
  BY <1>1, <1>2, <1>3, <1>4 DEF Inv, Searching

LEMMA ApplyBestInv ==
  ASSUME Inv, ApplyBest
  PROVE  Inv' /\ FixesKept
<1> DEFINE e == [target |-> best.nid, fn |-> best.fn]
           T == {best.nid}
<1>1. SearchInv /\ pc = "apply" /\ targetSet = DOMAIN drv /\ best.nid # 0
  BY DEF ApplyBest, Inv, Searching, TargetsConsistent
<1>2. best.nid \in DOMAIN cands /\ best.pos = cands[best.nid].pos
  BY <1>1 DEF SearchInv
<1>3. best.pos \in SUBSET circ.pos /\ best.pos \intersect F # {}
  BY <1>1, <1>2 DEF SearchInv
<1>4. T \intersect DOMAIN drv = {}
  BY <1>1, <1>2 DEF SearchInv
<1>5. /\ DOMAIN drv' = DOMAIN drv \union T /\ targetSet' = DOMAIN drv \union T
      /\ drv'[best.nid] = best.fn
      /\ \A n \in DOMAIN drv : drv'[n] = drv[n]
      /\ carryF' = F \ best.pos /\ UNCHANGED <<circ, F>> /\ EndRound
      /\ pc' = "round"
  BY <1>1, <1>4 DEF ApplyBest, Carry, EndRound
<1>6. fixes' = fixes \o <<e>>
  <2>1. fixes' = Append(fixes, e)
    BY DEF ApplyBest
  <2>2. PICK S : fixes \in Seq(S)
    BY DEF Inv, IsSequence
  <2>3. fixes \in Seq(S \union {e}) /\ e \in S \union {e}
    BY <2>2
  <2> QED
    BY <2>1, <2>3, AppendIsConcat
<1>7. /\ IsSequence(<<e>>) /\ DOMAIN <<e>> = {1} /\ <<e>>[1] = e
      /\ e.target = best.nid /\ e.fn = best.fn
  <2>1. e.target = best.nid /\ e.fn = best.fn
    OBVIOUS
  <2> HIDE DEF e
  <2>2. <<e>> \in Seq({e}) /\ DOMAIN <<e>> = {1} /\ <<e>>[1] = e
    OBVIOUS
  <2> QED
    BY <2>1, <2>2 DEF IsSequence
<1>8. T = {<<e>>[i].target : i \in DOMAIN <<e>>}
  BY <1>7
<1>9. IsSequence(fixes') /\ TargetsConsistent'
  <2> HIDE DEF e, T
  <2>1. \A i, j \in DOMAIN <<e>> : <<e>>[i].target = <<e>>[j].target => i = j
    BY <1>7
  <2>2. drv'[<<e>>[1].target] = <<e>>[1].fn
    BY <1>5, <1>7
  <2> QED
    BY <1>1, <2>1, <2>2, <1>4, <1>5, <1>6, <1>7, <1>8, AcceptConsistent
<1> QED
  BY <1>1, <1>3, <1>5, <1>9, EndRoundInv DEF Searching

LEMMA PairSecondInv ==
  ASSUME Inv, PairSecond
  PROVE  Inv' /\ FixesKept
<1>1. SearchInv /\ pc = "pairB"
  BY DEF PairSecond, Inv, Searching
<1>2. CASE Bail
  BY <1>1, <1>2, BailInv DEF Pairing
<1>3. CASE ~Bail
  <2> DEFINE n1 == pair.n1
             n2 == pair.n2
             T == {n1, n2}
             P == circ.pos \intersect pair.tfo
  <2>1. /\ n1 \in DOMAIN cands /\ n2 \in DOMAIN cands
        /\ pair.tfo = cands[n1].tfo \union cands[n2].tfo
    BY <1>1 DEF SearchInv, Pairing
  <2>2. P \in SUBSET circ.pos /\ P \intersect F # {}
    BY <1>1, <2>1 DEF SearchInv
  <2>3. /\ n1 # n2 /\ T \intersect DOMAIN drv = {}
        /\ targetSet = DOMAIN drv \union T
    BY <1>1 DEF Inv, TargetsConsistent
  <2>4. PICK f2 :
          /\ drv' = [n \in DOMAIN drv \union {n1, n2} |->
                       IF n = n1 THEN pair.f1
                       ELSE IF n = n2 THEN f2 ELSE drv[n]]
          /\ fixes' = fixes \o <<[target |-> n1, fn |-> pair.f1],
                                 [target |-> n2, fn |-> f2]>>
          /\ carryF' = Carry(P) /\ EndRound
          /\ UNCHANGED <<circ, targetSet, cur, F, result>>
    BY <1>3 DEF PairSecond
  <2> DEFINE G == <<[target |-> n1, fn |-> pair.f1], [target |-> n2, fn |-> f2]>>
  <2>5. /\ IsSequence(G) /\ DOMAIN G = {1, 2}
        /\ G[1].target = n1 /\ G[1].fn = pair.f1
        /\ G[2].target = n2 /\ G[2].fn = f2
    <3> DEFINE a == [target |-> n1, fn |-> pair.f1]
               b == [target |-> n2, fn |-> f2]
    <3>1. a.target = n1 /\ a.fn = pair.f1 /\ b.target = n2 /\ b.fn = f2
      OBVIOUS
    <3> HIDE DEF a, b
    <3>2. /\ <<a, b>> \in Seq({a, b}) /\ DOMAIN <<a, b>> = {1, 2}
          /\ <<a, b>>[1] = a /\ <<a, b>>[2] = b
      OBVIOUS
    <3>3. G = <<a, b>>
      BY DEF a, b
    <3> QED
      BY <3>1, <3>2, <3>3 DEF IsSequence
  <2>6. T = {G[i].target : i \in DOMAIN G}
    BY <2>5
  <2>7. \A i, j \in DOMAIN G : G[i].target = G[j].target => i = j
    BY <2>3, <2>5
  <2>8. /\ DOMAIN drv' = DOMAIN drv \union T
        /\ \A n \in DOMAIN drv : drv'[n] = drv[n]
        /\ \A i \in DOMAIN G : drv'[G[i].target] = G[i].fn
    BY <2>3, <2>4, <2>5
  <2>9. /\ fixes' = fixes \o G /\ pc' = "round" /\ carryF' = F \ P
        /\ targetSet' = DOMAIN drv \union T /\ EndRound /\ UNCHANGED <<circ, F>>
    BY <2>3, <2>4 DEF EndRound, Carry
  <2>10. IsSequence(fixes') /\ TargetsConsistent'
    <3> HIDE DEF G, T
    <3> QED
      BY <1>1, <2>3, <2>5, <2>6, <2>7, <2>8, <2>9, AcceptConsistent
  <2> QED
    BY <1>1, <2>2, <2>8, <2>9, <2>10, EndRoundInv DEF Searching
<1> QED
  BY <1>2, <1>3

LEMMA NextInv == Inv /\ [Next]_vars => Inv' /\ (FixesKept \/ UNCHANGED vars)
<1>1. ASSUME Inv, UNCHANGED vars PROVE Inv'
  BY <1>1 DEF Inv, vars, searchVars, SearchInv, TargetsConsistent, Targets,
    IsSequence
<1> QED
  BY <1>1, StartRoundInv, TryCandidateInv, StopTryingInv, ApplyBestInv,
    RankPairsInv, TryPairInv, PairFirstInv, PairSecondInv, GiveUpInv,
    FinalCheckInv DEF Next, Step, Finished

LEMMA AlwaysInv == Spec => []Inv
BY InitInv, NextInv, PTL DEF Spec

(* For all circuits and bounds: patchedDrv, targetSet and fixes hold the   *)
(* same targets whenever the search is defined, every one of them fixed    *)
(* once, and a pair that bails out leaves no target behind.                *)
THEOREM TargetsCorrect == Spec => []TargetsConsistent
<1>1. Inv => TargetsConsistent
  BY DEF Inv
<1> QED
  BY <1>1, AlwaysInv, PTL

(* For all circuits and bounds: no fix is undone or replaced, and every    *)
(* accepted fix takes an output out of the failing set.                    *)
THEOREM ProgressCorrect == Spec => Progress
<1>1. Inv /\ [Next]_vars =>
        [/\ DOMAIN drv \subseteq DOMAIN drv'
         /\ \A n \in DOMAIN drv : drv'[n] = drv[n]
         /\ round' > round => carryF' \subseteq F /\ carryF' # F]_vars
  BY NextInv DEF FixesKept
<1> QED
  BY <1>1, AlwaysInv, PTL DEF Spec, Progress

(* What Advances says of one step.                                         *)
MovesOn ==
  /\ round' <= MaxRounds
  /\ \/ round' > round
     \/ round' = round /\ Phase' > Phase
     \/ round' = round /\ Phase' = Phase /\ Untried' < Untried

LEMMA StepMovesOn ==
  ASSUME Inv, Step
  PROVE  MovesOn
<1> USE RectifierAssumption
<1>1. round \in Nat /\ round <= MaxRounds
  BY DEF Inv
<1>2. pc \in Searching => SearchInv /\ round < MaxRounds
  BY DEF Inv
<1>3. ASSUME StartRound \/ StopTrying \/ RankPairs \/ GiveUp \/ FinalCheck
      PROVE  MovesOn
  BY <1>1, <1>3 DEF StartRound, StopTrying, RankPairs, GiveUp, FinalCheck,
    MovesOn, Phase
<1>4. ASSUME EndRound, pc \in Searching PROVE MovesOn
  BY <1>1, <1>2, <1>4 DEF EndRound, MovesOn
<1>5. CASE ApplyBest
  BY <1>4, <1>5 DEF ApplyBest, Searching
<1>6. CASE TryCandidate
  <2>1. PICK n \in todo : /\ todo' = todo \ {n}
                         /\ pc' \in {"cands", "apply", "undefined"}
    BY <1>6 DEF TryCandidate
  <2>2. pc = "cands" /\ round' = round /\ IsFiniteSet(todo)
    BY <1>2, <1>6 DEF TryCandidate, Searching, SearchInv
  <2>3. /\ Cardinality(todo) \in Nat
        /\ Cardinality(todo') = Cardinality(todo) - 1
    BY <2>1, <2>2, FS_RemoveElement, FS_CardinalityType
  <2> QED
    BY <1>1, <2>1, <2>2, <2>3 DEF MovesOn, Phase, Untried
<1>7. CASE TryPair
  <2>1. PICK p \in pairs : pairs' = pairs \ {p}
    BY <1>7 DEF TryPair, PairsLeft
  <2>2. /\ pc = "pairs" /\ round' = round /\ IsFiniteSet(pairs)
        /\ pc' \in {"pairs", "pairA", "undefined"}
    BY <1>2, <1>7 DEF TryPair, Searching, SearchInv
  <2>3. /\ Cardinality(pairs) \in Nat
        /\ Cardinality(pairs') = Cardinality(pairs) - 1
    BY <2>1, <2>2, FS_RemoveElement, FS_CardinalityType
  <2> QED
    BY <1>1, <2>2, <2>3 DEF MovesOn, Phase, Untried
<1>8. ASSUME pc \in Pairing PROVE Cardinality(pairs) \in Nat
  BY <1>2, <1>8, FS_CardinalityType DEF Searching, Pairing, SearchInv
<1>9. CASE PairFirst
  <2>1. /\ pc = "pairA" /\ pc' \in {"pairs", "pairB"}
        /\ UNCHANGED <<round, pairs>>
    BY <1>9 DEF PairFirst, Bail
  <2> QED
    BY <1>1, <1>8, <2>1 DEF MovesOn, Phase, Untried, Pairing
<1>10. CASE PairSecond
  <2>1. pc = "pairB" /\ (Bail \/ EndRound)
    BY <1>10 DEF PairSecond
  <2>2. CASE Bail
    <3>1. pc' = "pairs" /\ UNCHANGED <<round, pairs>>
      BY <2>2 DEF Bail
    <3> QED
      BY <1>1, <1>8, <2>1, <3>1 DEF MovesOn, Phase, Untried, Pairing
  <2> QED
    BY <1>4, <2>1, <2>2 DEF Searching
<1> QED
  BY <1>3, <1>5, <1>6, <1>7, <1>9, <1>10 DEF Step

(* For all circuits and bounds: run() comes to an end.  Every step moves   *)
(* on to a later round, of which there are MaxRounds, or to a later phase  *)
(* of its round, or leaves fewer candidates or pairs to try.               *)
THEOREM AdvancesCorrect == Spec => Advances
<1>1. Inv /\ [Next]_vars =>
        [/\ round' <= MaxRounds
         /\ \/ round' > round
            \/ round' = round /\ Phase' > Phase
            \/ round' = round /\ Phase' = Phase /\ Untried' < Untried]_vars
  BY StepMovesOn DEF Next, Finished, MovesOn
<1> QED
  BY <1>1, AlwaysInv, PTL DEF Spec, Advances

-----------------------------------------------------------------------------
(* The values of nets.                                                     *)

(* Before the first fix every net has a value.                             *)
LEMMA CircuitFacts ==
  ASSUME circ \in Circuits
  PROVE  /\ IsCircuit(circ) /\ circ.pos \subseteq circ.nets
         /\ \A o \in circ.pos : circ.spec[o] \subseteq Patterns(circ)
         /\ circ.nets \subseteq Inputs(circ) \union Driven(circ)
         /\ Whole(circ, Unpatched, Evaluate(circ, Unpatched))
         /\ circ.nets \subseteq Nat \ {0, 1} /\ IsFiniteSet(circ.nets)
<1>1. Repairable(circ)
  BY RectifierAssumption
<1>2. DOMAIN Unpatched = {}
  BY DEF Unpatched
<1>3. Whole(circ, Unpatched, Evaluate(circ, Unpatched))
  BY <1>1, <1>2 DEF Whole, PatchesOK, Repairable
<1>4. PICK v : v = Evaluate(circ, Unpatched)
  OBVIOUS
<1>5. circ.nets \subseteq Inputs(circ) \union DOMAIN Unpatched \union Driven(circ)
  <2>1. Whole(circ, Unpatched, v)
    BY <1>3, <1>4
  <2>. QED BY <2>1, WholeValues
<1>. QED BY <1>1, <1>2, <1>3, <1>5 DEF Repairable, IsCircuit

(* Evaluation is typed, whatever the patches do.                           *)
LEMMA PatchesFacts ==
  ASSUME circ \in Circuits, DOMAIN drv \subseteq circ.nets, \A n \in DOMAIN drv : IsFn(n, drv[n])
  PROVE  /\ OwnOld(circ, drv) /\ PatchesOK(circ, drv)
         /\ Evaluate(circ, drv) \in [NetsOf(circ) -> Values(circ)]
<1>1. /\ IsCircuit(circ) /\ circ.nets \subseteq Inputs(circ) \union Driven(circ)
      /\ circ.nets \subseteq Nat \ {0, 1}
  BY CircuitFacts
<1>2. OwnOld(circ, drv)
  BY DEF OwnOld, IsFn
<1>3. Adds(circ, drv, drv, {})
  BY <1>1, <1>2 DEF Adds
<1>4. PatchesOK(circ, drv)
  BY <1>3, AddsPatchesOK
<1>5. Evaluate(circ, drv) \in [NetsOf(circ) -> Values(circ)]
  BY <1>1, <1>4, EvaluateEvaluates DEF IsEvaluated, Partly
<1>. QED BY <1>2, <1>4, <1>5

LEMMA InitValueInv == Init => ValueInv
<1>1. SUFFICES ASSUME Init PROVE ValueInv
  OBVIOUS
<1>2. Inv /\ circ \in Circuits /\ drv = Unpatched /\ DOMAIN drv = {}
  BY <1>1, InitInv DEF Init, Inv, Unpatched
<1>3. TypeInv
  <2>1. Evaluate(circ, drv) \in [NetsOf(circ) -> Values(circ)]
    BY <1>2, PatchesFacts
  <2>2. DOMAIN cands = {} /\ DOMAIN cands \subseteq circ.nets /\ todo = {}
    BY <1>1 DEF Init, NoCands
  <2>3. BestType
    BY <1>1 DEF Init, NoBest, BestType
  <2>4. Len(fixes) <= 2 * round
    BY <1>1 DEF Init
  <2>. QED BY <1>1, <1>2, <2>1, <2>2, <2>3, <2>4 DEF Init, TypeInv
<1>4. StableFacts
  BY <1>1, <1>2, CircuitFacts DEF Init, StableFacts, Current, Searching
<1>. QED BY <1>1, <1>2, <1>3, <1>4 DEF Init, ValueInv, Searching

LEMMA FnTyped ==
  ASSUME circ \in Circuits, NEW n \in circ.nets, NEW T, NEW v, NEW tfo, NEW b0, NEW b1,
         NEW f \in Synthesized(circ, T, v, n, tfo, b0, b1, MaxSup)
  PROVE  IsFn(n, f) /\ \A known : FixCost(f, known) \in Nat
<1>1. FixFor(circ, v, n, tfo, b0, b1, f)
  BY CircuitFacts, SynthesizedFn
<1>2. IsFn(n, f)
  <2>1. IsConstant(f) => f.sup = {}
    BY DEF Synthesized
  <2>. QED BY <1>1, <2>1 DEF FixFor, IsFn
<1>3. ASSUME NEW known PROVE FixCost(f, known) \in Nat
  <2>1. IsFiniteSet(f.sup \ known)
    BY <1>2, FS_Subset DEF IsFn
  <2>2. Cardinality(f.sup \ known) \in Nat
    BY <2>1, FS_CardinalityType
  <2>. QED BY <2>2 DEF FixCost
<1>. QED BY <1>2, <1>3

(* Cofactors have values wherever the circuit has.                         *)
LEMMA CofactorDefined ==
  ASSUME circ \in Circuits, NEW v, Whole(circ, drv, v), NEW P, P \subseteq circ.nets,
         NEW forced, DOMAIN forced \subseteq circ.nets, NEW tfo
  PROVE  Bad(circ, P, Cofactor(circ, drv, v, forced, tfo)) # Unset
<1>1. PICK w : w = Cofactor(circ, drv, v, forced, tfo)
  OBVIOUS
<1>2. \A n \in NetsOf(circ) : w[n] # Unset
  BY <1>1, CofactorWhole
<1>3. Bad(circ, P, w) \subseteq Patterns(circ)
  BY <1>2 DEF Bad, NetsOf
<1>4. Bad(circ, P, w) # Unset
  BY <1>3, CircuitFacts, IsValue
<1>. QED BY <1>1, <1>4

(* Steps of the search that only look for a fix.                           *)
LEMMA SearchOn ==
  ASSUME ValueInv, Inv', pc \in Searching, pc' \in Searching \union {"done", "undefined"},
         UNCHANGED <<circ, drv, fixes, cur, round, F, cands>>, result' \in BOOLEAN,
         targetSet' \subseteq circ.nets, todo' \subseteq todo, BestType',
         pc' = "pairB" => IsFn(pair.n1, pair.f1)',
         pc' \in Searching => BestFacts' /\ PairFacts',
         Stable(circ, drv) => pc' # "undefined"
  PROVE  ValueInv'
<1>1. TypeInv'
  BY DEF ValueInv, TypeInv, IsFn, Searching
<1>2. pc' \in Searching => CandFacts' /\ BestFacts' /\ PairFacts'
  BY DEF ValueInv, CandFacts, Candidate
<1>3. Stable(circ', drv') => StableFacts'
  BY DEF ValueInv, StableFacts, Current, Failing, Searching
<1>. QED BY <1>1, <1>2, <1>3 DEF ValueInv

LEMMA StartRoundValues ==
  ASSUME ValueInv, StartRound
  PROVE  ValueInv'
<1>1. Inv /\ Inv' /\ TypeInv
  BY StartRoundInv DEF ValueInv
<1>2. /\ pc = "round" /\ round < MaxRounds /\ cur' = Evaluate(circ, drv)
      /\ F' = IF round = 0 THEN Failing(cur') ELSE carryF
      /\ UNCHANGED <<circ, drv, targetSet, fixes, round, carryF, best, pairs, pair>>
      /\ best = NoBest /\ cands = NoCands /\ todo = {}
      /\ circ \in Circuits /\ F' \subseteq circ.pos
  BY <1>1 DEF StartRound, Inv, TypeInv
<1>3. \/ pc' = "done" /\ result' \in BOOLEAN /\ UNCHANGED <<cands, todo>>
      \/ /\ cands' = Candidates(cur', F') /\ todo' = DOMAIN cands'
         /\ pc' = IF \E n \in todo' : Unset \in {cands'[n].bad0, cands'[n].bad1}
                  THEN "undefined" ELSE "cands"
         /\ UNCHANGED result
  BY DEF StartRound
<1>4. cur' \in [NetsOf(circ) -> Values(circ)]
  BY <1>1, <1>2, PatchesFacts DEF TypeInv
<1>5. DOMAIN cands' \subseteq circ.nets /\ todo' \subseteq DOMAIN cands'
  BY <1>1, <1>2, <1>3, CandidatesInv DEF TypeInv
<1>6. TypeInv'
  <2>1. BestType'
    BY <1>2 DEF BestType, NoBest
  <2>2. result' \in BOOLEAN /\ pc' \notin {"round", "pairB"}
    BY <1>1, <1>3 DEF TypeInv
  <2>3. \A n \in DOMAIN drv : IsFn(n, drv[n])'
    BY <1>1, <1>2 DEF TypeInv, IsFn
  <2>. QED BY <1>1, <1>2, <1>4, <1>5, <2>1, <2>2, <2>3 DEF TypeInv
<1>7. ASSUME pc' \in {"cands", "undefined"}
      PROVE  \A n \in DOMAIN cands' : n \in circ.nets /\ cands'[n] = Candidate(cur', n, F')
  BY <1>3, <1>5, <1>7 DEF Candidates
<1>8. pc' \in Searching => CandFacts' /\ BestFacts' /\ PairFacts'
  <2>1. SUFFICES ASSUME pc' = "cands" PROVE CandFacts' /\ BestFacts' /\ PairFacts'
    BY <1>3 DEF Searching
  <2>2. CandFacts'
    BY <1>2, <1>7, <2>1 DEF CandFacts, Candidate
  <2>. QED BY <1>2, <2>1, <2>2 DEF BestFacts, NoBest, PairFacts, Pairing
<1>9. ASSUME Stable(circ, drv) PROVE StableFacts'
  <2>1. /\ Whole(circ, drv, Evaluate(circ, drv))
        /\ round > 0 => carryF = Failing(Evaluate(circ, drv))
    BY <1>2, <1>9 DEF ValueInv, StableFacts
  <2>2. F' = Failing(cur')
    BY <1>1, <1>2, <2>1 DEF Inv
  <2>3. pc' # "undefined"
    <3>1. SUFFICES ASSUME pc' \in {"cands", "undefined"}, NEW n \in DOMAIN cands'
                   PROVE  Unset \notin {cands'[n].bad0, cands'[n].bad1}
      BY <1>3, <1>5
    <3>2. n \in circ.nets /\ cands'[n] = Candidate(cur', n, F')
      BY <1>7, <3>1
    <3>3. PICK t : t = Tfo(circ, drv, n)
      OBVIOUS
    <3>4. circ.pos \intersect t \subseteq circ.nets
      BY <1>2, CircuitFacts
    <3>5. \A x \in {0, 1} :
            Bad(circ, circ.pos \intersect t,
                Cofactor(circ, drv, Evaluate(circ, drv), [m \in {n} |-> x], t)) # Unset
      BY <1>2, <2>1, <3>2, <3>4, CofactorDefined
    <3>. QED BY <1>2, <3>2, <3>3, <3>5 DEF Candidate
  <2>. QED BY <1>2, <1>3, <2>1, <2>2, <2>3 DEF StableFacts, Failing
<1>. QED BY <1>1, <1>2, <1>6, <1>8, <1>9 DEF ValueInv

LEMMA TryCandidateValues ==
  ASSUME ValueInv, TryCandidate
  PROVE  ValueInv'
<1>1. Inv /\ Inv' /\ TypeInv /\ CandFacts /\ BestFacts /\ SearchInv
  BY TryCandidateInv DEF ValueInv, TryCandidate, Searching, Inv
<1>2. /\ pc = "cands" /\ circ \in Circuits /\ targetSet = DOMAIN drv
      /\ UNCHANGED <<circ, drv, targetSet, fixes, cur, round, carryF, F, cands,
                     pairs, pair, result>>
  BY <1>1 DEF TryCandidate, Inv, TargetsConsistent
<1>3. PICK n \in todo :
        /\ todo' = todo \ {n}
        /\ \/ UNCHANGED <<best, pc>>
           \/ cur[n] = Unset /\ pc' = "undefined" /\ UNCHANGED best
           \/ /\ \E f \in Synthesized(circ, targetSet, cur, n, cands[n].tfo, cands[n].bad0,
                                      cands[n].bad1, MaxSup) :
                   \/ best' = best
                   \/ best' = [nid |-> n, fn |-> f, cost |-> FixCost(f, Known),
                               fixNow |-> cands[n].fixNow, pos |-> cands[n].pos]
              /\ pc' \in {"apply", "cands"}
  <2>1. PICK n \in todo :
          /\ todo' = todo \ {n}
          /\ \/ UNCHANGED <<best, pc>>
             \/ cur[n] = Unset /\ pc' = "undefined" /\ UNCHANGED best
             \/ /\ \E f \in Synthesized(circ, targetSet, cur, n, cands[n].tfo, cands[n].bad0,
                                        cands[n].bad1, MaxSup) :
                     LET cost == FixCost(f, Known) IN
                     best' = IF best.nid = 0 \/ cost < best.cost
                             THEN [nid |-> n, fn |-> f, cost |-> cost,
                                   fixNow |-> cands[n].fixNow, pos |-> cands[n].pos]
                             ELSE best
                /\ pc' = IF best'.cost <= 3 THEN "apply" ELSE "cands"
    BY DEF TryCandidate
  <2>. QED BY <2>1
<1>4. n \in DOMAIN cands /\ n \in circ.nets /\ n # 0
  BY <1>1, <1>2, <1>3, CircuitFacts DEF TypeInv
<1>5. BestType' /\ BestFacts'
  <2>1. CASE best' = best
    BY <1>1, <1>2, <2>1 DEF TypeInv, BestType, BestFacts, IsFn
  <2>2. CASE \E f \in Synthesized(circ, targetSet, cur, n, cands[n].tfo, cands[n].bad0,
                                  cands[n].bad1, MaxSup) :
               best' = [nid |-> n, fn |-> f, cost |-> FixCost(f, Known),
                        fixNow |-> cands[n].fixNow, pos |-> cands[n].pos]
    <3>1. PICK f \in Synthesized(circ, targetSet, cur, n, cands[n].tfo, cands[n].bad0,
                                 cands[n].bad1, MaxSup) :
                 best' = [nid |-> n, fn |-> f, cost |-> FixCost(f, Known),
                          fixNow |-> cands[n].fixNow, pos |-> cands[n].pos]
      BY <2>2
    <3>2. best'.nid = n /\ best'.fn = f /\ best'.cost = FixCost(f, Known)
      BY <3>1
    <3>3. IsFn(n, f) /\ FixCost(f, Known) \in Nat
      BY <1>2, <1>4, FnTyped
    <3>4. BestType'
      BY <1>2, <1>4, <3>2, <3>3 DEF BestType, IsFn
    <3>5. BestFacts'
      BY <1>2, <3>2 DEF BestFacts
    <3>. QED BY <3>4, <3>5
  <2>. QED BY <1>3, <2>1, <2>2
<1>6. Stable(circ, drv) => pc' # "undefined"
  <2>1. SUFFICES ASSUME Stable(circ, drv), cur[n] = Unset PROVE FALSE
    BY <1>2, <1>3
  <2>2. Whole(circ, drv, cur)
    BY <1>1, <2>1 DEF ValueInv, StableFacts, CandFacts
  <2>. QED BY <1>4, <2>1, <2>2 DEF Whole
<1>7. pc' \in {"cands", "apply", "undefined"}
  BY <1>2, <1>3
<1>8. PairFacts'
  BY <1>7 DEF PairFacts, Pairing
<1>. QED BY <1>1, <1>2, <1>3, <1>5, <1>6, <1>7, <1>8, SearchOn DEF TypeInv, Searching

LEMMA StopTryingValues ==
  ASSUME ValueInv, StopTrying \/ RankPairs \/ GiveUp
  PROVE  ValueInv'
<1>1. Inv /\ Inv' /\ TypeInv /\ pc \in Searching
  BY StopTryingInv, RankPairsInv, GiveUpInv DEF ValueInv, StopTrying, RankPairs, GiveUp, Searching
<1>2. /\ pc' \in {"apply", "pairs", "done"} /\ BestFacts
      /\ UNCHANGED <<circ, drv, targetSet, fixes, cur, round, F, cands, todo, best, pair>>
      /\ result' \in BOOLEAN
  BY <1>1 DEF ValueInv, StopTrying, RankPairs, GiveUp, searchVars, TypeInv
<1>3. BestType' /\ BestFacts' /\ PairFacts' /\ targetSet' \subseteq circ.nets
  BY <1>1, <1>2 DEF TypeInv, BestType, BestFacts, IsFn, PairFacts, Pairing
<1>. QED BY <1>1, <1>2, <1>3, SearchOn DEF Searching

LEMMA TryPairValues ==
  ASSUME ValueInv, TryPair
  PROVE  ValueInv'
<1>1. /\ Inv /\ Inv' /\ TypeInv /\ CandFacts /\ BestFacts /\ SearchInv
      /\ pc = "pairs" /\ circ \in Circuits
  BY TryPairInv DEF ValueInv, TryPair, Searching, Inv
<1>2. UNCHANGED <<circ, drv, fixes, cur, round, carryF, F, cands, todo, best, result>>
  BY DEF TryPair
<1>3. PICK p \in pairs :
        LET tfo == cands[p.n1].tfo \union cands[p.n2].tfo
            bad == [combo \in 0..3 |->
                      Bad(circ, circ.pos \intersect tfo,
                          Cofactor(circ, drv, cur, PairForced(p.n1, p.n2, combo), tfo))]
        IN  \/ UNCHANGED <<targetSet, pair, pc>>
            \/ /\ targetSet' = targetSet \union {p.n1, p.n2}
               /\ pair' = [n1 |-> p.n1, n2 |-> p.n2, gain |-> p.gain,
                           tfo |-> tfo, bad |-> bad, f1 |-> NoFn]
               /\ pc' = IF \/ \E i \in 0..3 : bad[i] = Unset
                           \/ Unset \in {cur[p.n1], cur[p.n2]}
                        THEN "undefined" ELSE "pairA"
  BY DEF TryPair, PairForced
<1>4. PICK tfo : tfo = cands[p.n1].tfo \union cands[p.n2].tfo
  OBVIOUS
<1>5. PICK bad : bad = [combo \in 0..3 |->
                      Bad(circ, circ.pos \intersect tfo,
                          Cofactor(circ, drv, cur, PairForced(p.n1, p.n2, combo), tfo))]
  OBVIOUS
<1>6. \/ UNCHANGED <<targetSet, pair, pc>>
      \/ /\ targetSet' = targetSet \union {p.n1, p.n2}
         /\ pair' = [n1 |-> p.n1, n2 |-> p.n2, gain |-> p.gain,
                     tfo |-> tfo, bad |-> bad, f1 |-> NoFn]
         /\ pc' = IF \/ \E i \in 0..3 : bad[i] = Unset
                     \/ Unset \in {cur[p.n1], cur[p.n2]}
                  THEN "undefined" ELSE "pairA"
  BY <1>3, <1>4, <1>5
<1>7. p.n1 \in circ.nets /\ p.n2 \in circ.nets
  BY <1>1, <1>3 DEF SearchInv
<1>8. Stable(circ, drv) => pc' # "undefined"
  <2>1. SUFFICES ASSUME Stable(circ, drv), pc' = "undefined" PROVE FALSE
    OBVIOUS
  <2>2. Whole(circ, drv, cur)
    BY <1>1, <2>1 DEF ValueInv, StableFacts, CandFacts
  <2>3. cur[p.n1] # Unset /\ cur[p.n2] # Unset
    BY <1>7, <2>2 DEF Whole
  <2>4. ASSUME NEW i \in 0 .. 3 PROVE bad[i] # Unset
    <3>1. PICK forced : forced = PairForced(p.n1, p.n2, i)
      OBVIOUS
    <3>2. DOMAIN forced \subseteq circ.nets
      BY <1>7, <3>1 DEF PairForced
    <3>3. circ.pos \intersect tfo \subseteq circ.nets
      BY <1>1, CircuitFacts
    <3>4. Bad(circ, circ.pos \intersect tfo, Cofactor(circ, drv, cur, forced, tfo)) # Unset
      BY <1>1, <2>2, <3>2, <3>3, CofactorDefined
    <3>. QED BY <1>5, <3>1, <3>4
  <2>. QED BY <1>1, <1>6, <2>1, <2>3, <2>4
<1>9. PairFacts'
  <2>1. CASE pc' = "pairA"
    <3>1. pair'.n1 = p.n1 /\ pair'.n2 = p.n2 /\ pair'.tfo = tfo /\ pair'.bad = bad
      BY <1>1, <1>6, <2>1
    <3>. QED BY <1>2, <1>5, <2>1, <3>1 DEF PairFacts, Pairing
  <2>2. CASE pc' # "pairA"
    BY <1>1, <1>6, <2>2 DEF PairFacts, Pairing
  <2>. QED BY <2>1, <2>2
<1>10. pc' \in {"pairs", "undefined", "pairA"} /\ targetSet' \subseteq circ.nets
  BY <1>1, <1>6, <1>7 DEF TypeInv
<1>11. BestType' /\ BestFacts'
  BY <1>1, <1>2 DEF TypeInv, BestType, BestFacts, IsFn
<1>. QED BY <1>1, <1>2, <1>8, <1>9, <1>10, <1>11, SearchOn DEF TypeInv, Searching

LEMMA BailValues ==
  ASSUME ValueInv, pc \in Pairing, Bail
  PROVE  ValueInv'
<1>1. Inv /\ Inv' /\ TypeInv /\ BestFacts /\ pc \in Searching
  BY BailInv DEF ValueInv, Pairing, Searching
<1>2. /\ pc' = "pairs" /\ targetSet' \subseteq targetSet
      /\ UNCHANGED <<circ, drv, fixes, cur, round, carryF, F, cands, todo, best, result>>
  BY DEF Bail, Unregistered
<1>3. BestType' /\ BestFacts' /\ PairFacts'
  BY <1>1, <1>2 DEF TypeInv, BestType, BestFacts, IsFn, PairFacts, Pairing
<1>. QED BY <1>1, <1>2, <1>3, SearchOn DEF TypeInv, Searching

LEMMA PairFirstValues ==
  ASSUME ValueInv, PairFirst
  PROVE  ValueInv'
<1>1. /\ Inv /\ Inv' /\ TypeInv /\ BestFacts /\ PairFacts /\ SearchInv
      /\ pc = "pairA" /\ circ \in Circuits
  BY PairFirstInv DEF ValueInv, PairFirst, Searching, Inv
<1>2. CASE Bail
  BY <1>1, <1>2, BailValues DEF Pairing
<1>3. CASE ~Bail
  <2>1. PICK f \in Synthesized(circ, targetSet, cur, pair.n1, pair.tfo,
                     pair.bad[0] \intersect pair.bad[1],
                     pair.bad[2] \intersect pair.bad[3], MaxSup) :
          pair' = [n1 |-> pair.n1, n2 |-> pair.n2, gain |-> pair.gain,
                   tfo |-> pair.tfo, bad |-> pair.bad, f1 |-> f]
    BY <1>3 DEF PairFirst
  <2>2. /\ pair'.n1 = pair.n1 /\ pair'.n2 = pair.n2 /\ pair'.tfo = pair.tfo
        /\ pair'.bad = pair.bad /\ pair'.f1 = f /\ pc' = "pairB"
        /\ UNCHANGED <<circ, drv, targetSet, fixes, cur, round, carryF, F, cands,
                       todo, best, pairs, result>>
    BY <1>3, <2>1 DEF PairFirst
  <2>3. pair.n1 \in circ.nets
    BY <1>1 DEF SearchInv, Pairing
  <2>4. IsFn(pair.n1, pair.f1)'
    <3>1. IsFn(pair.n1, f)
      BY <1>1, <2>3, FnTyped
    <3>. QED BY <2>2, <3>1 DEF IsFn
  <2>5. PairFacts'
    BY <1>1, <2>2 DEF PairFacts, Pairing
  <2>6. BestType' /\ BestFacts'
    BY <1>1, <2>2 DEF TypeInv, BestType, BestFacts, IsFn
  <2>. QED BY <1>1, <2>2, <2>4, <2>5, <2>6, SearchOn DEF TypeInv, Searching
<1>. QED BY <1>2, <1>3

LEMMA FinalCheckValues ==
  ASSUME ValueInv, FinalCheck
  PROVE  ValueInv'
<1>1. Inv /\ Inv' /\ TypeInv /\ circ \in Circuits
  BY FinalCheckInv DEF ValueInv, Inv
<1>2. /\ pc = "round" /\ round = MaxRounds /\ cur' = Evaluate(circ, drv) /\ result' \in BOOLEAN
      /\ pc' = IF \E o \in circ.pos : cur'[o] = Unset THEN "undefined" ELSE "done"
      /\ UNCHANGED <<circ, drv, targetSet, fixes, round, carryF, F, cands, todo, best, pair>>
  BY DEF FinalCheck, searchVars
<1>3. TypeInv'
  BY <1>1, <1>2, PatchesFacts DEF TypeInv, BestType, IsFn
<1>4. ASSUME Stable(circ, drv) PROVE StableFacts'
  <2>1. Whole(circ, drv, cur')
    BY <1>2, <1>4 DEF ValueInv, StableFacts
  <2>2. pc' = "done"
    BY <1>1, <1>2, <2>1, CircuitFacts DEF Whole
  <2>3. round \notin {r \in Nat : r < MaxRounds}
    BY <1>2, RectifierAssumption
  <2>. QED BY <1>1, <1>2, <2>1, <2>2, <2>3, RectifierAssumption DEF StableFacts, Current, Searching
<1>. QED BY <1>1, <1>2, <1>3, <1>4 DEF ValueInv, Searching

(* A fix that is accepted: while old values are stable it makes the        *)
(* outputs of tfo right, and leaves the others as they were.               *)
LEMMA EndRoundValues ==
  ASSUME ValueInv, Inv', pc \in Searching, EndRound, UNCHANGED <<circ, cur, F, result>>,
         DOMAIN drv' \subseteq circ.nets, \A n \in DOMAIN drv' : IsFn(n, drv'[n]),
         targetSet' \subseteq circ.nets, Len(fixes') <= Len(fixes) + 2, Len(fixes) \in Nat,
         NEW tfo, carryF' = F \ (circ.pos \intersect tfo),
         NEW w, w = Evaluate(circ, drv'),
         Stable(circ, drv') =>
           /\ Stable(circ, drv) /\ Whole(circ, drv', w)
           /\ \A o \in circ.pos : w[o] = IF o \in tfo THEN circ.spec[o] ELSE cur[o]
  PROVE  ValueInv'
<1>1. /\ Inv /\ TypeInv /\ round \in Nat
      /\ round' = round + 1 /\ pc' = "round" /\ cands' = NoCands /\ todo' = {} /\ best' = NoBest
  BY DEF ValueInv, Inv, EndRound
<1>2. TypeInv'
  <2>1. Len(fixes') <= 2 * round'
    <3>1. Len(fixes) <= 2 * round
      BY <1>1 DEF TypeInv
    <3>2. Len(fixes') \in Int
      <4>1. PICK S : fixes' \in Seq(S)
        BY DEF Inv, IsSequence
      <4>. QED BY <4>1
    <3>. QED BY <1>1, <3>1, <3>2
  <2>2. DOMAIN cands' = {} /\ BestType'
    BY <1>1 DEF NoCands, NoBest, BestType
  <2>3. \A n \in DOMAIN drv' : IsFn(n, drv[n])'
    BY DEF IsFn
  <2>. QED BY <1>1, <2>1, <2>2, <2>3 DEF TypeInv
<1>3. ASSUME Stable(circ, drv') PROVE StableFacts'
  <2>1. F = Failing(cur)
    BY <1>3 DEF ValueInv, StableFacts, Current
  <2>2. carryF' = {o \in circ.pos : w[o] # circ.spec[o]}
    BY <1>3, <2>1 DEF Failing
  <2>. QED BY <1>1, <1>3, <2>2 DEF StableFacts, Failing, Current, Searching
<1>. QED BY <1>1, <1>2, <1>3 DEF ValueInv, Searching

LEMMA ApplyBestValues ==
  ASSUME ValueInv, ApplyBest
  PROVE  ValueInv'
<1>1. /\ Inv /\ Inv' /\ TypeInv /\ CandFacts /\ BestFacts /\ SearchInv
      /\ pc = "apply" /\ circ \in Circuits
  BY ApplyBestInv DEF ValueInv, ApplyBest, Searching, Inv
<1>2. PICK t : t = best.nid
  OBVIOUS
<1>3. /\ t \in DOMAIN cands /\ t \in circ.nets /\ t \notin DOMAIN drv /\ t # 0
      /\ IsFn(t, best.fn) /\ best.pos = cands[t].pos /\ targetSet = DOMAIN drv
  BY <1>1, <1>2 DEF SearchInv, ApplyBest, TypeInv, BestType, Inv, TargetsConsistent
<1>4. PICK new : new = [n \in DOMAIN drv \union {t} |-> IF n = t THEN best.fn ELSE drv[n]]
  OBVIOUS
<1>5. /\ drv' = new /\ targetSet' = targetSet \union {t} /\ carryF' = F \ best.pos
      /\ EndRound /\ UNCHANGED <<circ, cur, F, result>>
      /\ fixes' = Append(fixes, [target |-> t, fn |-> best.fn])
  BY <1>2, <1>4 DEF ApplyBest, Carry
<1>6. /\ DOMAIN new = DOMAIN drv \union {t} /\ new[t] = best.fn
      /\ \A n \in DOMAIN drv : new[n] = drv[n]
  BY <1>3, <1>4
<1>7. \A n \in DOMAIN new : n \in circ.nets /\ IsFn(n, new[n])
  BY <1>1, <1>3, <1>6 DEF TypeInv
<1>8. Len(fixes') <= Len(fixes) + 2 /\ Len(fixes) \in Nat
  <2>1. PICK S : fixes \in Seq(S)
    BY <1>1 DEF Inv, IsSequence
  <2>2. PICK e : e = [target |-> t, fn |-> best.fn]
    OBVIOUS
  <2>3. fixes \in Seq(S \union {e}) /\ e \in S \union {e} /\ fixes' = Append(fixes, e)
    BY <1>5, <2>1, <2>2
  <2>4. Len(fixes') = Len(fixes) + 1 /\ Len(fixes) \in Nat
    BY <2>3
  <2>. QED BY <2>4
<1>9. PICK D : D = Tfo(circ, drv, t)
  OBVIOUS
<1>10. PICK P : P = circ.pos \intersect D
  OBVIOUS
<1>11. /\ cands[t].pos = P /\ cands[t].tfo = D
       /\ cands[t].bad0 = Bad(circ, P, Cofactor(circ, drv, cur, [m \in {t} |-> 0], D))
       /\ cands[t].bad1 = Bad(circ, P, Cofactor(circ, drv, cur, [m \in {t} |-> 1], D))
  <2>1. cands[t] = Candidate(cur, t, F)
    BY <1>1, <1>3 DEF CandFacts
  <2>. QED BY <1>9, <1>10, <2>1 DEF Candidate
<1>12. PICK w : w = Evaluate(circ, new)
  OBVIOUS
<1>13. ASSUME Stable(circ, new)
       PROVE  /\ Stable(circ, drv) /\ Whole(circ, new, w)
              /\ \A o \in circ.pos : w[o] = IF o \in D THEN circ.spec[o] ELSE cur[o]
  <2>1. Adds(circ, drv, new, {t})
    <3>1. OwnOld(circ, new)
      BY <1>7 DEF OwnOld, IsFn
    <3>. QED BY <1>1, <1>3, <1>6, <3>1, CircuitFacts DEF Adds
  <2>2. Stable(circ, drv)
    BY <1>13, <2>1, StableBefore
  <2>3. PICK v : v = cur
    OBVIOUS
  <2>4. Whole(circ, drv, v)
    BY <1>1, <2>2, <2>3 DEF ValueInv, StableFacts, CandFacts
  <2>5. PICK T : T = DOMAIN drv
    OBVIOUS
  <2>6. new[t] \in Synthesized(circ, T, v, t, D,
                     Bad(circ, P, Cofactor(circ, drv, v, [m \in {t} |-> 0], D)),
                     Bad(circ, P, Cofactor(circ, drv, v, [m \in {t} |-> 1], D)), MaxSup)
    BY <1>1, <1>2, <1>3, <1>6, <1>11, <2>3, <2>5 DEF BestFacts
  <2>7. P \subseteq circ.nets /\ \A o \in P : circ.spec[o] \subseteq Patterns(circ)
    BY <1>1, <1>10, CircuitFacts
  <2>8. /\ Whole(circ, new, w) /\ \A n \in NetsOf(circ) \ D : w[n] = v[n]
        /\ \A o \in P : w[o] = circ.spec[o]
    BY ONLY <1>9, <1>12, <1>13, <2>1, <2>4, <2>6, <2>7, SingleFix
  <2>9. circ.pos \subseteq NetsOf(circ)
    BY <1>1, CircuitFacts DEF NetsOf
  <2>. QED BY <1>10, <2>2, <2>3, <2>8, <2>9
<1>14. carryF' = F \ (circ.pos \intersect D)
  BY <1>3, <1>5, <1>10, <1>11
<1>15. targetSet' \subseteq circ.nets /\ w = Evaluate(circ, drv') /\ pc \in Searching
  BY <1>1, <1>3, <1>5, <1>12 DEF TypeInv, Searching
<1>16. /\ DOMAIN drv' \subseteq circ.nets /\ \A n \in DOMAIN drv' : IsFn(n, drv'[n])
       /\ Stable(circ, drv') =>
            /\ Stable(circ, drv) /\ Whole(circ, drv', w)
            /\ \A o \in circ.pos : w[o] = IF o \in D THEN circ.spec[o] ELSE cur[o]
  BY <1>5, <1>7, <1>13
<1>. QED BY ONLY ValueInv, <1>1, <1>5, <1>8, <1>14, <1>15, <1>16, EndRoundValues

LEMMA PairSecondValues ==
  ASSUME ValueInv, PairSecond
  PROVE  ValueInv'
<1>1. /\ Inv /\ Inv' /\ TypeInv /\ CandFacts /\ PairFacts /\ SearchInv
      /\ pc = "pairB" /\ circ \in Circuits
  BY PairSecondInv DEF ValueInv, PairSecond, Searching, Inv
<1>2. CASE Bail
  BY <1>1, <1>2, BailValues DEF Pairing
<1>3. CASE ~Bail
  <2>1. PICK s, t, D, bad, f1 :
          s = pair.n1 /\ t = pair.n2 /\ D = pair.tfo /\ bad = pair.bad /\ f1 = pair.f1
    OBVIOUS
  <2>2. PICK b : \A x \in {0, 1} : b[x] =
           {q \in Patterns(circ) : q \in bad[x + IF q \in PatchValue(circ, cur, f1) THEN 2 ELSE 0]}
    <3>1. PICK b : b = [x \in {0, 1} |->
           {q \in Patterns(circ) : q \in bad[x + IF q \in PatchValue(circ, cur, f1) THEN 2 ELSE 0]}]
      OBVIOUS
    <3>. QED BY <3>1
  <2>3. PICK f2 \in Synthesized(circ, targetSet, cur, t, D, b[0], b[1], MaxSup) :
          /\ drv' = [n \in DOMAIN drv \union {s, t} |->
                       IF n = s THEN f1 ELSE IF n = t THEN f2 ELSE drv[n]]
          /\ fixes' = fixes \o <<[target |-> s, fn |-> f1], [target |-> t, fn |-> f2]>>
          /\ carryF' = F \ (circ.pos \intersect D)
          /\ EndRound
          /\ UNCHANGED <<circ, targetSet, cur, F, result>>
    <3>1. PICK x0, x1 :
            /\ x0 = {q \in Patterns(circ) :
                       q \in pair.bad[0 + IF q \in PatchValue(circ, cur, pair.f1) THEN 2 ELSE 0]}
            /\ x1 = {q \in Patterns(circ) :
                       q \in pair.bad[1 + IF q \in PatchValue(circ, cur, pair.f1) THEN 2 ELSE 0]}
      OBVIOUS
    <3>2. PICK f2 \in Synthesized(circ, targetSet, cur, pair.n2, pair.tfo, x0, x1, MaxSup) :
            /\ drv' = [n \in DOMAIN drv \union {pair.n1, pair.n2} |->
                         IF n = pair.n1 THEN pair.f1 ELSE IF n = pair.n2 THEN f2 ELSE drv[n]]
            /\ fixes' = fixes \o <<[target |-> pair.n1, fn |-> pair.f1],
                                   [target |-> pair.n2, fn |-> f2]>>
            /\ carryF' = Carry(circ.pos \intersect pair.tfo)
            /\ EndRound
            /\ UNCHANGED <<circ, targetSet, cur, F, result>>
      BY ONLY PairSecond, <1>3, <3>1 DEF PairSecond
    <3>3. x0 = b[0] /\ x1 = b[1]
      BY <2>1, <2>2, <3>1
    <3>4. f2 \in Synthesized(circ, targetSet, cur, t, D, b[0], b[1], MaxSup)
      BY <2>1, <3>3
    <3>5. /\ drv' = [n \in DOMAIN drv \union {s, t} |->
                       IF n = s THEN f1 ELSE IF n = t THEN f2 ELSE drv[n]]
          /\ fixes' = fixes \o <<[target |-> s, fn |-> f1], [target |-> t, fn |-> f2]>>
          /\ carryF' = F \ (circ.pos \intersect D)
      BY <2>1, <3>2 DEF Carry
    <3>. QED BY <3>2, <3>4, <3>5
  <2>4. PICK new : new = [n \in DOMAIN drv \union {s, t} |->
                            IF n = s THEN f1 ELSE IF n = t THEN f2 ELSE drv[n]]
    OBVIOUS
  <2>5. /\ s \in DOMAIN cands /\ t \in DOMAIN cands /\ s \in circ.nets /\ t \in circ.nets /\ s # t
        /\ s \notin DOMAIN drv /\ t \notin DOMAIN drv /\ IsFn(s, f1)
        /\ D = cands[s].tfo \union cands[t].tfo
    BY <1>1, <2>1 DEF SearchInv, Pairing, TypeInv, Inv, TargetsConsistent
  <2>6. IsFn(t, f2)
    BY <1>1, <2>5, FnTyped
  <2>7. /\ DOMAIN new = DOMAIN drv \union {s, t} /\ new[s] = f1 /\ new[t] = f2
        /\ \A n \in DOMAIN drv : new[n] = drv[n]
    BY <2>4, <2>5
  <2>8. \A n \in DOMAIN new : n \in circ.nets /\ IsFn(n, new[n])
    BY <1>1, <2>5, <2>6, <2>7 DEF TypeInv
  <2>9. Len(fixes') <= Len(fixes) + 2 /\ Len(fixes) \in Nat
    <3>1. PICK S : fixes \in Seq(S)
      BY <1>1 DEF Inv, IsSequence
    <3>2. PICK d, e : d = [target |-> s, fn |-> f1] /\ e = [target |-> t, fn |-> f2]
      OBVIOUS
    <3>3. fixes \in Seq(S \union {d, e}) /\ <<d, e>> \in Seq(S \union {d, e})
          /\ fixes' = fixes \o <<d, e>> /\ Len(<<d, e>>) = 2
      BY <2>3, <3>1, <3>2
    <3>4. Len(fixes') = Len(fixes) + 2 /\ Len(fixes) \in Nat
      BY <3>3
    <3>. QED BY <3>4
  <2>10. D = Tfo(circ, drv, s) \union Tfo(circ, drv, t)
    <3>1. cands[s] = Candidate(cur, s, F) /\ cands[t] = Candidate(cur, t, F)
      BY <1>1, <2>5 DEF CandFacts
    <3>2. cands[s].tfo = Tfo(circ, drv, s) /\ cands[t].tfo = Tfo(circ, drv, t)
      BY <3>1 DEF Candidate
    <3>. QED BY <2>5, <3>2
  <2>11. PICK P : P = circ.pos \intersect D
    OBVIOUS
  <2>12. PICK w : w = Evaluate(circ, new)
    OBVIOUS
  <2>13. ASSUME Stable(circ, new)
         PROVE  /\ Stable(circ, drv) /\ Whole(circ, new, w)
                /\ \A o \in circ.pos : w[o] = IF o \in D THEN circ.spec[o] ELSE cur[o]
    <3>1. Adds(circ, drv, new, {s, t})
      <4>1. OwnOld(circ, new)
        BY <2>8 DEF OwnOld, IsFn
      <4>. QED BY <1>1, <2>5, <2>7, <4>1, CircuitFacts DEF Adds
    <3>2. Stable(circ, drv)
      BY <2>13, <3>1, StableBefore
    <3>3. PICK v, T, a0, a1 :
            /\ v = cur /\ T = targetSet
            /\ a0 = pair.bad[0] \intersect pair.bad[1] /\ a1 = pair.bad[2] \intersect pair.bad[3]
      OBVIOUS
    <3>4. Whole(circ, drv, v)
      BY <1>1, <3>2, <3>3 DEF ValueInv, StableFacts, CandFacts
    <3>5. P \subseteq circ.nets /\ \A o \in P : circ.spec[o] \subseteq Patterns(circ)
      BY <1>1, <2>11, CircuitFacts
    <3>6. \A combo \in 0 .. 3 :
            bad[combo] = Bad(circ, P, Cofactor(circ, drv, v, PairForced(s, t, combo), D))
      BY <1>1, <2>1, <2>11, <3>3 DEF PairFacts, Pairing
    <3>7. new[s] \in Synthesized(circ, T, v, s, D, a0, a1, MaxSup)
      BY <1>1, <2>1, <2>7, <3>3 DEF PairFacts
    <3>8. \A x \in {0, 1} : b[x] =
            {q \in Patterns(circ) : q \in bad[x + IF q \in PatchValue(circ, v, new[s]) THEN 2 ELSE 0]}
      BY <2>2, <2>7, <3>3
    <3>9. new[t] \in Synthesized(circ, T, v, t, D, b[0], b[1], MaxSup)
      BY <2>3, <2>7, <3>3
    <3>10. /\ Whole(circ, new, w) /\ \A n \in NetsOf(circ) \ D : w[n] = v[n]
           /\ \A o \in P : w[o] = circ.spec[o]
      BY ONLY <2>5, <2>10, <2>12, <2>13, <3>1, <3>4, <3>5, <3>6, <3>7, <3>8, <3>9, PairFix
    <3>11. circ.pos \subseteq NetsOf(circ)
      BY <1>1, CircuitFacts DEF NetsOf
    <3>. QED BY <2>11, <3>2, <3>3, <3>10, <3>11
  <2>. QED BY <1>1, <2>3, <2>4, <2>8, <2>9, <2>12, <2>13, EndRoundValues DEF Searching, TypeInv
<1>. QED BY <1>2, <1>3

LEMMA NextValueInv == ValueInv /\ [Next]_vars => ValueInv'
<1>1. ASSUME ValueInv, UNCHANGED vars PROVE ValueInv'
  <2>1. Inv'
    BY <1>1, NextInv DEF ValueInv
  <2>2. TypeInv'
    BY <1>1 DEF ValueInv, TypeInv, BestType, IsFn, vars, searchVars
  <2>3. pc' \in Searching => CandFacts' /\ BestFacts' /\ PairFacts'
    BY <1>1 DEF ValueInv, CandFacts, Candidate, BestFacts, PairFacts, vars, searchVars
  <2>4. Stable(circ', drv') => StableFacts'
    BY <1>1 DEF ValueInv, StableFacts, Current, Failing, vars
  <2>. QED BY <2>1, <2>2, <2>3, <2>4 DEF ValueInv
<1>. QED BY <1>1, StartRoundValues, TryCandidateValues, StopTryingValues, ApplyBestValues,
  TryPairValues, PairFirstValues, PairSecondValues, FinalCheckValues DEF Next, Step, Finished

LEMMA AlwaysValueInv == Spec => []ValueInv
BY InitValueInv, NextValueInv, PTL DEF Spec

(* For all circuits and bounds: nets, values and counters stay in range.   *)
THEOREM RectifierTyped == Spec => []TypeOK
<1>1. ValueInv => TypeOK
  <2>1. SUFFICES ASSUME ValueInv PROVE TypeOK
    OBVIOUS
  <2>2. /\ Inv /\ TypeInv /\ circ \in Circuits /\ round \in 0 .. MaxRounds
        /\ circ.nets \subseteq Nat \ {0, 1}
    BY <2>1, CircuitFacts DEF ValueInv, Inv
  <2>3. ASSUME NEW n \in circ.nets, NEW f, IsFn(n, f)
        PROVE  f.sup \subseteq circ.nets \union {-m : m \in circ.nets} /\ f.on \subseteq SUBSET f.sup
    BY <2>3 DEF IsFn
  <2>4. \A n \in DOMAIN drv : /\ drv[n].sup \subseteq circ.nets \union {-m : m \in circ.nets}
                              /\ drv[n].on \subseteq SUBSET drv[n].sup
    BY <2>2, <2>3 DEF TypeInv
  <2>5. /\ best.fn.sup \subseteq circ.nets \union {-m : m \in circ.nets}
        /\ best.fn.on \subseteq SUBSET best.fn.sup
        /\ best.nid \in DOMAIN cands \union {0} /\ best.cost \in Nat
    BY <2>2, <2>3 DEF TypeInv, BestType, NoFn
  <2>6. Len(fixes) <= 2 * MaxRounds
    <3>1. Len(fixes) <= 2 * round
      BY <2>2 DEF TypeInv
    <3>2. PICK S : fixes \in Seq(S)
      BY <2>2 DEF Inv, IsSequence
    <3>3. Len(fixes) \in Int /\ MaxRounds \in Nat
      BY <3>2, RectifierAssumption
    <3>. QED BY <2>2, <3>1, <3>3
  <2>7. DOMAIN cur = circ.nets \union {0, 1}
        /\ \A n \in DOMAIN cur : cur[n] \subseteq Patterns(circ) \/ cur[n] = Unset
    BY <2>2 DEF TypeInv, NetsOf, Values
  <2>. QED BY <2>2, <2>4, <2>5, <2>6, <2>7 DEF TypeOK, TypeInv, Inv, Searching
<1>. QED BY <1>1, AlwaysValueInv, PTL

LEMMA StableIs == OldValuesStable <=> Stable(circ, drv)
BY DEF OldValuesStable, Stable, ReadsOld, DependsOn, Depends

(* For all circuits and bounds: as long as no fix reads the old value of a *)
(* net downstream of another fix, the failing set carried from round to    *)
(* round is the set of outputs that fail.                                  *)
THEOREM CarryCorrect == Spec => []CarryExactIfStable
<1>1. ValueInv => CarryExactIfStable
  BY StableIs DEF ValueInv, StableFacts, CarryExactIfStable, FIsCurrent, Current, Searching
<1>. QED BY <1>1, AlwaysValueInv, PTL

(* For all circuits and bounds: as long as old values are stable the       *)
(* patched circuit has no cycle, and the search never uses a net without a *)
(* value.                                                                  *)
THEOREM DefinedCorrect == Spec => []DefinedIfStable
<1>1. ValueInv => DefinedIfStable
  BY StableIs DEF ValueInv, StableFacts, DefinedIfStable, FIsCurrent, Current, Searching, Whole
<1>. QED BY <1>1, AlwaysValueInv, PTL

-----------------------------------------------------------------------------
(* Sweeping and rewriting patches.                                         *)

ReadBy(p, K) == UNION {Range(p.gates[i].ins) : i \in K}

LEMMA ReadByIs ==
  ASSUME NEW p, NEW K
  PROVE  /\ Read(Restrict(p.gates, K)) = ReadBy(p, K)
         /\ Used(p, K) = {k \in K : p.gates[k].out \in Outs(p) \union ReadBy(p, K)}
<1>1. Read(Restrict(p.gates, K)) = ReadBy(p, K)
  BY DEF Read, Restrict, ReadBy
<1>. QED BY <1>1 DEF Used

(* No gate outside K is an output or read by one in K.                     *)
Keeps(p, K) ==
  \A k \in DOMAIN p.gates : p.gates[k].out \in Outs(p) \union ReadBy(p, K) => k \in K

LEMMA SweepEnds ==
  ASSUME NEW p, IsFiniteSet(DOMAIN p.gates)
  PROVE  \E K \in SUBSET (DOMAIN p.gates) :
           DeadSweep(p) = Without(p, K) /\ Used(p, K) = K /\ Keeps(p, K)
<1>. DEFINE N == Cardinality(DOMAIN p.gates)
            V == SUBSET (DOMAIN p.gates)
            G == [K \in V |-> Used(p, K)]
            mu == [K \in V |-> N - Cardinality(K)]
            at(f, i) == IF i = 0 THEN DOMAIN p.gates ELSE Used(p, f[i - 1])
            E == CHOOSE left : left = [i \in 0 .. N |-> at(left, i)]
<1>1. N \in Nat /\ DOMAIN p.gates \in V
  BY FS_CardinalityType
<1>2. \A K \in V : Used(p, K) \in V /\ Used(p, K) \subseteq K
  BY ReadByIs
<1>3. G \in [V -> V]
  BY <1>2
<1>4. \A K \in V : IsFiniteSet(K) /\ Cardinality(K) \in Nat /\ Cardinality(K) <= N
  BY FS_Subset, FS_CardinalityType
<1>5. mu \in [V -> 0 .. N]
  <2>1. \A K \in V : N - Cardinality(K) \in 0 .. N
    <3>. HIDE DEF N, V
    <3>. QED BY <1>1, <1>4
  <2>. HIDE DEF N, V
  <2>. QED BY <2>1
<1>6. ASSUME NEW K \in V PROVE G[K] = K \/ mu[G[K]] > mu[K]
  <2>1. G[K] = Used(p, K) /\ Used(p, K) \in V /\ Used(p, K) \subseteq K
    BY <1>2
  <2>2. mu[K] = N - Cardinality(K) /\ mu[G[K]] = N - Cardinality(Used(p, K))
    BY <2>1
  <2>3. /\ Cardinality(Used(p, K)) <= Cardinality(K)
        /\ Cardinality(K) = Cardinality(Used(p, K)) => K = Used(p, K)
    BY <1>4, <2>1, FS_Subset
  <2>4. Cardinality(K) \in Nat /\ Cardinality(Used(p, K)) \in Nat
    BY <1>4, <2>1
  <2>. HIDE DEF G, mu, V, N
  <2>. QED BY <1>1, <2>1, <2>2, <2>3, <2>4
<1>7. PICK f : IsIteration(f, DOMAIN p.gates, G, V, N)
  <2>. HIDE DEF V, G, N
  <2>. QED BY <1>1, <1>3, IterationExists
<1>8. G[f[N]] = f[N] /\ f[N] \in V
  <2>1. mu[DOMAIN p.gates] = 0
    BY <1>1
  <2>. HIDE DEF V, G, N, mu
  <2>2. N <= mu[DOMAIN p.gates] + N
    BY <1>1, <2>1
  <2>3. G[f[N]] = f[N]
    BY <1>1, <1>5, <1>6, <1>7, <2>2, IterationStops
  <2>4. f[N] \in V
    BY <1>1, <1>7 DEF IsIteration
  <2>. QED BY <2>3, <2>4
<1>9. Keeps(p, f[N])
  <2>. DEFINE S == {K \in V : Keeps(p, K)}
  <2>1. DOMAIN p.gates \in S
    BY DEF Keeps
  <2>2. ASSUME NEW K \in V, K \in S PROVE G[K] \in S
    <3>1. ReadBy(p, Used(p, K)) \subseteq ReadBy(p, K)
      BY <1>2 DEF ReadBy
    <3>2. Keeps(p, Used(p, K))
      BY <2>2, <3>1, ReadByIs DEF Keeps
    <3>. QED BY <1>2, <3>2
  <2>3. \A i \in 0 .. N : f[i] \in S
    <3>. HIDE DEF S, V, G, N
    <3>. QED BY <1>7, <2>1, <2>2, IterationKeeps
  <2>. QED BY <1>1, <2>3
<1>10. f = [i \in 0 .. N |-> at(f, i)]
  <2>1. \A i \in 0 .. N : f[i] = at(f, i)
    <3>1. ASSUME NEW i \in 0 .. N, i # 0 PROVE f[i] = Used(p, f[i - 1])
      <4>1. i \in 1 .. N /\ i - 1 \in 0 .. N
        BY <1>1, <3>1
      <4>2. f[i] = G[f[i - 1]] /\ f[i - 1] \in V
        BY <1>7, <4>1 DEF IsIteration
      <4>. QED BY <4>2
    <3>2. f[0] = DOMAIN p.gates
      BY <1>7 DEF IsIteration
    <3>. QED BY <3>1, <3>2
  <2>2. DOMAIN f = 0 .. N /\ f = [i \in 0 .. N |-> f[i]]
    BY <1>7 DEF IsIteration
  <2>. HIDE DEF at
  <2>. QED BY <2>1, <2>2
<1>11. E = [i \in 0 .. N |-> at(E, i)]
  <2>. HIDE DEF at, N
  <2>. QED BY <1>10
<1>12. DeadSweep(p) = Without(p, E[N])
  BY DEF DeadSweep
<1>13. \A i \in 0 .. N : E[i] = f[i]
  <2>. DEFINE T == {i \in 0 .. N : E[i] # f[i]}
  <2>1. SUFFICES ASSUME T # {} PROVE FALSE
    OBVIOUS
  <2>2. PICK i \in T : \A j \in T : i <= j
    <3>1. T \subseteq Nat
      BY <1>1
    <3>. HIDE DEF T
    <3>. QED BY <2>1, <3>1, Smallest
  <2>3. E[i] = at(E, i) /\ f[i] = at(f, i)
    <3>. HIDE DEF E, at
    <3>. QED BY <1>10, <1>11
  <2>. HIDE DEF E
  <2>4. i # 0
    BY <2>3
  <2>5. i - 1 \in 0 .. N /\ ~(i <= i - 1)
    BY <1>1, <2>4
  <2>. QED BY <2>2, <2>3, <2>4, <2>5
<1>14. DeadSweep(p) = Without(p, f[N]) /\ Used(p, f[N]) = f[N]
  <2>1. E[N] = f[N]
    <3>. HIDE DEF E
    <3>. QED BY <1>1, <1>13
  <2>. HIDE DEF E
  <2>. QED BY <1>8, <1>12, <2>1
<1>. QED BY <1>8, <1>9, <1>14

(* Whatever is read, and every output, comes from somewhere.               *)
HasSources(p) ==
  /\ Outs(p) \subseteq GateOuts(p)
  /\ Read(p.gates) \subseteq p.inputs \union GateOuts(p) \union {0, 1}

LEMMA SweptTidy ==
  ASSUME NEW c, NEW p, IsPatch(c, p), HasSources(p)
  PROVE  /\ IsPatch(c, DeadSweep(p)) /\ Tidy(DeadSweep(p))
         /\ DeadSweep(p).outputs = p.outputs
<1>1. PICK K \in SUBSET (DOMAIN p.gates) :
        DeadSweep(p) = Without(p, K) /\ Used(p, K) = K /\ Keeps(p, K)
  BY SweepEnds DEF IsPatch
<1>2. PICK q : q = DeadSweep(p)
  OBVIOUS
<1>3. PICK g : g = Restrict(p.gates, K)
  OBVIOUS
<1>4. g = [i \in K |-> p.gates[i]]
  BY <1>3 DEF Restrict
<1>5. q = [inputs |-> p.inputs \intersect Read(g), outputs |-> p.outputs, gates |-> g]
  BY <1>1, <1>2, <1>3 DEF Without
<1>6. q.outputs = p.outputs /\ q.gates = g /\ q.inputs = p.inputs \intersect Read(g)
  BY <1>5
<1>7. Outs(q) = Outs(p) /\ GateOuts(q) = {p.gates[i].out : i \in K}
  BY <1>4, <1>6 DEF Outs, GateOuts
<1>8. Read(g) = ReadBy(p, K) /\ Read(g) \subseteq Read(p.gates)
  <2>1. Read(g) = ReadBy(p, K)
    BY <1>3, ReadByIs
  <2>2. ReadBy(p, K) \subseteq Read(p.gates)
    BY DEF ReadBy, Read
  <2>. QED BY <2>1, <2>2
<1>9. \A k \in K : p.gates[k].out \in Outs(p) \union Read(g)
  BY <1>1, <1>8, ReadByIs
<1>10. \A k \in DOMAIN p.gates : p.gates[k].out \in Outs(p) \union Read(g) => k \in K
  BY <1>1, <1>8 DEF Keeps
<1>11. Outs(p) \subseteq GateOuts(q)
  BY <1>7, <1>10 DEF HasSources, GateOuts
<1>12. Read(g) \subseteq q.inputs \union GateOuts(q) \union {0, 1}
  BY <1>6, <1>7, <1>8, <1>10 DEF HasSources, GateOuts
<1>13. Tidy(q)
  BY <1>6, <1>7, <1>9, <1>11, <1>12 DEF Tidy
<1>14. IsPatch(c, q)
  <2>1. /\ IsFiniteSet(K) /\ K \subseteq Nat /\ DOMAIN g = K
        /\ \A i \in K : g[i] = p.gates[i]
    BY <1>4, FS_Subset DEF IsPatch
  <2>. QED BY <1>6, <2>1 DEF IsPatch
<1>. QED BY <1>2, <1>6, <1>13, <1>14

(* A rewrite of p: the same gates, which read what has a source.           *)
Rewritten(c, p, q) ==
  /\ q.inputs = p.inputs /\ q.outputs = p.outputs /\ DOMAIN q.gates = DOMAIN p.gates
  /\ \A i \in DOMAIN p.gates :
       /\ q.gates[i].out = p.gates[i].out /\ q.gates[i].type \in GateTypes
       /\ q.gates[i].ins \in Seq(Int)
       /\ Range(q.gates[i].ins) \subseteq p.inputs \union GateOuts(p) \union {0, 1}

LEMMA RewrittenTidy ==
  ASSUME NEW c, NEW p, IsPatch(c, p), HasSources(p), NEW q, Rewritten(c, p, q)
  PROVE  /\ IsPatch(c, DeadSweep(q)) /\ Tidy(DeadSweep(q))
         /\ DeadSweep(q).outputs = p.outputs
<1>1. GateOuts(q) = GateOuts(p) /\ Outs(q) = Outs(p)
  BY DEF Rewritten, GateOuts, Outs
<1>2. Read(q.gates) \subseteq q.inputs \union GateOuts(q) \union {0, 1}
  BY <1>1 DEF Rewritten, Read
<1>3. HasSources(q)
  BY <1>1, <1>2 DEF HasSources
<1>4. IsPatch(c, q)
  <2>1. \A i \in DOMAIN q.gates : q.gates[i].out \in Int
    BY DEF Rewritten, IsPatch
  <2>. QED BY <2>1 DEF Rewritten, IsPatch
<1>5. q.outputs = p.outputs
  BY DEF Rewritten
<1>. QED BY <1>3, <1>4, <1>5, SweptTidy

LEMMA SignalsAre ==
  ASSUME NEW c, NEW p, NEW sm
  PROVE  DOMAIN Signals(c, p, sm) \subseteq {0, 1} \union p.inputs \union GateOuts(p)
BY DEF Signals

(* What simplify may make of a patch.                                      *)
LEMMA WithGatesRewritten ==
  ASSUME NEW c, NEW p, IsPatch(c, p), NEW g, DOMAIN g = DOMAIN p.gates,
         \A i \in DOMAIN g :
           /\ g[i].out = p.gates[i].out /\ g[i].type \in GateTypes /\ g[i].ins \in Seq(Int)
           /\ Range(g[i].ins) \subseteq p.inputs \union GateOuts(p) \union {0, 1}
  PROVE  Rewritten(c, p, WithGates(p, g))
BY DEF Rewritten, WithGates

LEMMA ConstantRewritten ==
  ASSUME NEW c, NEW p, IsPatch(c, p), HasSources(p), NEW n, NEW k \in {0, 1}, NEW g,
         g = [i \in DOMAIN p.gates |->
                Gate(p.gates[i].type, p.gates[i].out,
                     [j \in DOMAIN p.gates[i].ins |->
                        IF p.gates[i].ins[j] = n THEN k ELSE p.gates[i].ins[j]])]
  PROVE  Rewritten(c, p, WithGates(p, g))
<1>1. ASSUME NEW i \in DOMAIN p.gates
      PROVE  /\ g[i].out = p.gates[i].out /\ g[i].type \in GateTypes /\ g[i].ins \in Seq(Int)
             /\ Range(g[i].ins) \subseteq p.inputs \union GateOuts(p) \union {0, 1}
  <2>1. PICK s : s = p.gates[i].ins
    OBVIOUS
  <2>2. PICK t : t = [j \in DOMAIN s |-> IF s[j] = n THEN k ELSE s[j]]
    OBVIOUS
  <2>3. g[i].out = p.gates[i].out /\ g[i].type = p.gates[i].type /\ g[i].ins = t
    BY <2>1, <2>2 DEF Gate
  <2>4. s \in Seq(Int) /\ p.gates[i].type \in GateTypes
    BY <2>1 DEF IsPatch
  <2>5. Range(s) \subseteq p.inputs \union GateOuts(p) \union {0, 1}
    BY <2>1 DEF HasSources, Read
  <2>6. t \in Seq(Int) /\ DOMAIN t = DOMAIN s
    <3>1. DOMAIN s = 1 .. Len(s) /\ Len(s) \in Nat /\ \A j \in 1 .. Len(s) : s[j] \in Int
      BY <2>4
    <3>2. t \in [1 .. Len(s) -> Int]
      BY <2>2, <3>1
    <3>. QED BY <2>2, <3>1, <3>2
  <2>7. Range(t) \subseteq p.inputs \union GateOuts(p) \union {0, 1}
    BY <2>2, <2>5, <2>6 DEF Range
  <2>. QED BY <2>3, <2>4, <2>6, <2>7
<1>. QED BY <1>1, WithGatesRewritten

LEMMA GateRewritten ==
  ASSUME NEW c, NEW p, IsPatch(c, p), HasSources(p), NEW k \in DOMAIN p.gates,
         NEW type \in {"buf", "not"},
         NEW n \in p.inputs \union GateOuts(p) \union {0, 1}, NEW g,
         g = [p.gates EXCEPT ![k] = Gate(type, p.gates[k].out, <<n>>)]
  PROVE  Rewritten(c, p, WithGates(p, g))
<1>1. n \in Int
  BY DEF IsPatch, GateOuts
<1>2. ASSUME NEW i \in DOMAIN p.gates
      PROVE  /\ g[i].out = p.gates[i].out /\ g[i].type \in GateTypes /\ g[i].ins \in Seq(Int)
             /\ Range(g[i].ins) \subseteq p.inputs \union GateOuts(p) \union {0, 1}
  <2>1. CASE i = k
    <3>1. g[i].out = p.gates[i].out /\ g[i].type = type /\ g[i].ins = <<n>>
      BY <2>1 DEF Gate
    <3>2. <<n>> \in Seq(Int) /\ Range(<<n>>) = {n}
      BY <1>1 DEF Range
    <3>. QED BY <3>1, <3>2 DEF GateTypes
  <2>2. CASE i # k
    <3>1. g[i] = p.gates[i]
      BY <2>2
    <3>. QED BY <3>1 DEF IsPatch, HasSources, Read
  <2>. QED BY <2>1, <2>2
<1>. QED BY <1>2, WithGatesRewritten

LEMMA SimplerTidy ==
  ASSUME NEW c, NEW p, IsPatch(c, p), HasSources(p), NEW sm, NEW q \in Simpler(c, p, sm)
  PROVE  /\ IsPatch(c, q) /\ Tidy(q) /\ q.outputs = p.outputs
         /\ PatchCost(q) < PatchCost(p) /\ Verified(c, q)
<1>1. PICK sig : sig = Signals(c, p, sm)
  OBVIOUS
<1>2. DOMAIN sig \subseteq {0, 1} \union p.inputs \union GateOuts(p)
  BY <1>1, SignalsAre
<1>3. \/ q \in Better(c, p, ConstantRewrites(p, sig, sm))
      \/ q \in Better(c, p, GateRewrites(p, sig, sm))
  BY <1>1 DEF Simpler
<1>4. PatchCost(q) < PatchCost(p) /\ Verified(c, q)
  BY <1>3 DEF Better
<1>5. \E r : Rewritten(c, p, r) /\ q = DeadSweep(r)
  <2>1. CASE q \in Better(c, p, ConstantRewrites(p, sig, sm))
    <3>1. q \in ConstantRewrites(p, sig, sm)
      BY <2>1 DEF Better
    <3>2. PICK n \in p.inputs : \E k \in {0, 1} :
            q = DeadSweep(WithGates(p, [i \in DOMAIN p.gates |->
                  Gate(p.gates[i].type, p.gates[i].out,
                       [j \in DOMAIN p.gates[i].ins |->
                          IF p.gates[i].ins[j] = n THEN k ELSE p.gates[i].ins[j]])]))
      BY <3>1 DEF ConstantRewrites
    <3>. QED BY <3>2, ConstantRewritten
  <2>2. CASE q \in Better(c, p, GateRewrites(p, sig, sm))
    <3>1. q \in GateRewrites(p, sig, sm)
      BY <2>2 DEF Better
    <3>2. PICK k \in DOMAIN p.gates : \E type \in {"buf", "not"} : \E n \in DOMAIN sig :
            q = DeadSweep(WithGates(p,
                  [p.gates EXCEPT ![k] = Gate(type, p.gates[k].out, <<n>>)]))
      BY <3>1 DEF GateRewrites
    <3>. QED BY <1>2, <3>2, GateRewritten
  <2>. QED BY <1>3, <2>1, <2>2
<1>6. PICK r : Rewritten(c, p, r) /\ q = DeadSweep(r)
  BY <1>5
<1>7. IsPatch(c, DeadSweep(r)) /\ Tidy(DeadSweep(r)) /\ DeadSweep(r).outputs = p.outputs
  BY ONLY <1>6, IsPatch(c, p), HasSources(p), RewrittenTidy
<1>. QED BY ONLY <1>4, <1>6, <1>7

-----------------------------------------------------------------------------
(* The patch that replaces nothing leaves the values of G1.                *)

LEMMA EmptyPatch ==
  ASSUME NEW c
  PROVE  /\ IsPatch(c, NoPatch) /\ Tidy(NoPatch) /\ ~DrivesTwice(NoPatch)
         /\ Outs(NoPatch) = {} /\ GateOuts(NoPatch) = {}
<1>1. NoPatch.outputs = <<>> /\ NoPatch.gates = <<>> /\ NoPatch.inputs = {}
  BY DEF NoPatch
<1>2. <<>> \in Seq(c.nets) /\ DOMAIN NoPatch.gates = {} /\ DOMAIN NoPatch.outputs = {}
  BY <1>1
<1>3. IsFiniteSet({})
  BY FS_EmptySet
<1>4. Outs(NoPatch) = {} /\ GateOuts(NoPatch) = {} /\ Read(NoPatch.gates) = {}
  BY <1>2 DEF Outs, GateOuts, Read, Range
<1>. QED BY <1>1, <1>2, <1>3, <1>4 DEF IsPatch, Tidy, DrivesTwice

LEMMA EmptyValues ==
  ASSUME NEW c, NEW v, Whole(c, Unpatched, v), NEW u, u = EvalPatched(c, NoPatch)
  PROVE  \A n \in NetsOf(c) : Net(n) \in DOMAIN u /\ u[Net(n)] = v[n]
<1>1. /\ IsCircuit(c) /\ DOMAIN Unpatched = {}
      /\ v[0] = Const(c, 0) /\ v[1] = Const(c, 1)
      /\ \A n \in Inputs(c) : v[n] = c.pis[n]
      /\ \A n \in Driven(c) : v[n] = NetValue(c, Unpatched, v, n)
      /\ c.nets \subseteq Inputs(c) \union Driven(c)
  BY WholeValues DEF Whole, Unpatched
<1>2. PICK b \in Nat : \E rank \in [NetsOf(c) -> 0 .. b] :
        \A n \in Driven(c) : \A m \in Reads(c, Unpatched, n) : rank[m] < rank[n]
  BY <1>1, WholeValues
<1>3. PICK rank \in [NetsOf(c) -> 0 .. b] :
        \A n \in Driven(c) : \A m \in Reads(c, Unpatched, n) : rank[m] < rank[n]
  BY <1>2
<1>4. IsWhole(c)
  BY <1>1 DEF IsWhole
<1>5. PICK g : g = PatchedDrivers(c, NoPatch)
  OBVIOUS
<1>6. PICK start : start = InputValues(c, NoPatch)
  OBVIOUS
<1>7. IsRun(c, g, start, u)
  BY <1>4, <1>5, <1>6, EmptyPatch, PatchRunnable, SettledRuns DEF EvalPatched
<1>8. \A n : OldAs(NoPatch, n) = Net(n) /\ Net(n)[2] = n
  BY EmptyPatch DEF OldAs, Net
<1>9. /\ DOMAIN g = {Net(n) : n \in Driven(c)}
      /\ \A n \in Driven(c) : /\ g[Net(n)].type = c.gate[n].type
                              /\ DOMAIN g[Net(n)].ins = DOMAIN c.gate[n].ins
                              /\ \A j \in DOMAIN c.gate[n].ins :
                                   g[Net(n)].ins[j] = Net(c.gate[n].ins[j])
  <2>1. \A n \in Driven(c) :
              LET w == OldAs(NoPatch, n)  d == c.gate[n] IN
              /\ g[w].type = d.type /\ DOMAIN g[w].ins = DOMAIN d.ins
              /\ \A j \in DOMAIN d.ins : g[w].ins[j] = Net(d.ins[j])
    BY ONLY <1>4, <1>5, EmptyPatch, PatchedWires
  <2>2. DOMAIN g = {Net(n) : n \in Driven(c)}
    BY <1>5, <1>8, EmptyPatch DEF PatchedDrivers
  <2>. QED BY <1>8, <2>1, <2>2
<1>10. /\ DOMAIN start = {Net(n) : n \in Inputs(c) \union {0, 1}}
       /\ \A n \in Inputs(c) \union {0, 1} : start[Net(n)] = v[n]
  BY <1>1, <1>6, <1>8 DEF InputValues, IsCircuit
<1>11. /\ \A w \in DOMAIN start : w \in DOMAIN u /\ u[w] = start[w]
       /\ \A w \in DOMAIN g \ DOMAIN u : ~(Range(g[w].ins) \subseteq DOMAIN u)
       /\ \A w \in DOMAIN u \ DOMAIN start : u[w] = WireValue(c, g, u, w)
  BY <1>7 DEF IsRun, Running, ReadyWires, WiresRanked
<1>12. PICK X : X = {n \in NetsOf(c) : ~(Net(n) \in DOMAIN u /\ u[Net(n)] = v[n])}
  OBVIOUS
<1>13. SUFFICES ASSUME X # {} PROVE FALSE
  BY <1>12
<1>14. PICK n \in X : \A m \in X : rank[n] <= rank[m]
  BY <1>12, <1>13, Lowest
<1>15. n \in Driven(c) /\ n \notin Inputs(c) \union {0, 1} /\ n \in c.nets
  BY <1>1, <1>10, <1>11, <1>12, <1>14 DEF NetsOf, IsCircuit
<1>16. /\ Reads(c, Unpatched, n) = Ins(c, n) /\ Ins(c, n) \subseteq NetsOf(c)
       /\ NetValue(c, Unpatched, v, n)
            = GateFn(c, c.gate[n].type, [i \in DOMAIN c.gate[n].ins |-> v[c.gate[n].ins[i]]])
  BY <1>1, <1>15 DEF Reads, NetValue, IsCircuit, NetsOf
<1>17. \A m \in Ins(c, n) : Net(m) \in DOMAIN u /\ u[Net(m)] = v[m]
  <2>1. SUFFICES ASSUME NEW m \in Ins(c, n) PROVE m \notin X
    BY <1>12, <1>16
  <2>2. rank[m] < rank[n] /\ rank[m] \in Nat /\ rank[n] \in Nat
    BY <1>3, <1>12, <1>14, <1>15, <1>16, <2>1
  <2>. QED BY <1>14, <2>2
<1>18. \A j \in DOMAIN c.gate[n].ins :
         /\ g[Net(n)].ins[j] = Net(c.gate[n].ins[j]) /\ g[Net(n)].ins[j] \in DOMAIN u
         /\ u[g[Net(n)].ins[j]] = v[c.gate[n].ins[j]]
  BY <1>9, <1>15, <1>17 DEF Ins
<1>19. Range(g[Net(n)].ins) \subseteq DOMAIN u
  BY <1>9, <1>15, <1>18 DEF Range
<1>20. Net(n) \in DOMAIN u \ DOMAIN start
  BY <1>8, <1>9, <1>10, <1>11, <1>15, <1>19
<1>21. [j \in DOMAIN g[Net(n)].ins |-> u[g[Net(n)].ins[j]]]
         = [j \in DOMAIN c.gate[n].ins |-> v[c.gate[n].ins[j]]]
  BY <1>9, <1>15, <1>18
<1>22. u[Net(n)] = v[n]
  BY <1>1, <1>9, <1>11, <1>15, <1>16, <1>20, <1>21 DEF WireValue
<1>. QED BY <1>12, <1>14, <1>20, <1>22

LEMMA EmptyPasses ==
  ASSUME NEW c, NEW v, Whole(c, Unpatched, v), c.pos \subseteq c.nets,
         \A o \in c.pos : v[o] = c.spec[o]
  PROVE  EvaluatorPasses(c, NoPatch)
<1>1. IsWhole(c)
  BY WholeValues DEF Whole, IsWhole, Unpatched
<1>2. PICK u : u = EvalPatched(c, NoPatch)
  OBVIOUS
<1>3. \A o \in c.pos : Net(o) \in DOMAIN u /\ u[Net(o)] = v[o]
  BY <1>2, EmptyValues DEF NetsOf
<1>4. Verified(c, NoPatch)
  BY <1>2, <1>3 DEF Verified
<1>. QED BY <1>1, <1>4, EmptyPatch, SameVerdict

-----------------------------------------------------------------------------
(* Trajectories.                                                           *)

LEMMA InCircuits ==
  ASSUME circ \in Circuits
  PROVE  IsWhole(circ) /\ circ.pos \subseteq circ.nets
BY CircuitFacts DEF IsWhole

LEMMA CircuitInit == TrajInit => circ \in Circuits
BY DEF TrajInit, Init

LEMMA RectifyKeeps == Step => UNCHANGED circ /\ pc # "undefined"
BY DEF Step, StartRound, TryCandidate, StopTrying, ApplyBest, RankPairs, TryPair, PairFirst,
       PairSecond, GiveUp, FinalCheck, Bail

LEMMA CircuitKept == [TrajNext]_<<vars, ownVars>> => UNCHANGED circ
<1>1. UNCHANGED vars => UNCHANGED circ
  BY DEF vars
<1>. QED BY <1>1, RectifyKeeps
         DEF TrajNext, TrajStep, Prepare, Rectify, Assemble, Verify, Simplify, Deliver

LEMMA AlwaysCircuit == TrajSpec => [](circ \in Circuits)
<1>1. circ \in Circuits /\ [TrajNext]_<<vars, ownVars>> => (circ \in Circuits)'
  BY CircuitKept
<1>. QED BY <1>1, CircuitInit, PTL DEF TrajSpec

(* The Rectifier's invariant within a trajectory, and what is left of it   *)
(* afterwards.                                                             *)
DrvTyped == DOMAIN drv \subseteq circ.nets /\ \A n \in DOMAIN drv : IsFn(n, drv[n])

TrajInv ==
  /\ circ \in Circuits /\ DrvTyped
  /\ phase \in {"start", "rectify"} /\ pc # "undefined" => ValueInv
  /\ phase = "verify" => cur = Evaluate(circ, drv)

LEMMA ValuesTyped == ValueInv => DrvTyped /\ circ \in Circuits
BY DEF ValueInv, TypeInv, Inv, DrvTyped

LEMMA ValuesTypedNext == ValueInv' => DrvTyped' /\ circ' \in Circuits
BY DEF ValueInv, TypeInv, Inv, DrvTyped

LEMMA DrvKept ==
  ASSUME DrvTyped, UNCHANGED <<circ, drv>>
  PROVE  DrvTyped'
BY DEF DrvTyped, IsFn

LEMMA TrajStepInv ==
  ASSUME TrajInv, [TrajNext]_<<vars, ownVars>>
  PROVE  TrajInv'
<1>1. circ' \in Circuits
  BY CircuitKept DEF TrajInv
<1>2. CASE Prepare
  <2>1. UNCHANGED vars /\ phase = "start" /\ phase' \in {"delivered", "error", "rectify"}
    BY <1>2 DEF Prepare
  <2>2. ValueInv /\ pc # "undefined" => ValueInv'
    BY <2>1, NextValueInv
  <2>3. UNCHANGED <<circ, drv, pc>>
    BY <2>1 DEF vars
  <2>. QED BY <1>1, <2>1, <2>2, <2>3, DrvKept DEF TrajInv
<1>3. CASE Rectify
  <2>1. ValueInv /\ phase' = "rectify"
    BY <1>3, RectifyKeeps DEF Rectify, TrajInv, ownVars
  <2>2. ValueInv'
    BY <1>3, <2>1, NextValueInv DEF Rectify, Next
  <2>. QED BY <2>1, <2>2, ValuesTypedNext DEF TrajInv
<1>4. CASE Assemble
  <2>1. /\ UNCHANGED <<circ, drv>> /\ cur' = Evaluate(circ, drv)
        /\ phase' = "verify" \/ (phase' = phase /\ pc' = "undefined" /\ phase = "rectify")
    BY <1>4 DEF Assemble
  <2>2. phase' = "verify" => cur' = Evaluate(circ', drv')
    BY <2>1
  <2>. QED BY <1>1, <2>1, <2>2, DrvKept DEF TrajInv
<1>5. CASE UNCHANGED vars /\ phase' \in {phase, "simplify", "error", "delivered"}
  <2>1. UNCHANGED <<circ, drv, pc, cur>>
    BY <1>5 DEF vars
  <2>2. ValueInv => ValueInv'
    BY <1>5, NextValueInv
  <2>3. cur = Evaluate(circ, drv) => cur' = Evaluate(circ', drv')
    BY <2>1
  <2>. QED BY <1>1, <1>5, <2>1, <2>2, <2>3, DrvKept DEF TrajInv
<1>. QED BY <1>2, <1>3, <1>4, <1>5
         DEF TrajNext, TrajStep, Verify, Simplify, Deliver, ownVars

LEMMA AlwaysTraj == TrajSpec => []TrajInv
<1>1. TrajInit => TrajInv
  <2>. SUFFICES ASSUME TrajInit PROVE TrajInv
    OBVIOUS
  <2>1. ValueInv
    BY InitValueInv DEF TrajInit
  <2>. QED BY <2>1, ValuesTyped DEF TrajInit, TrajInv
<1>2. TrajInv /\ [TrajNext]_<<vars, ownVars>> => TrajInv'
  BY TrajStepInv
<1>. QED BY <1>1, <1>2, PTL DEF TrajSpec

(* For all circuits, bounds and fixes: noPresCheck, which evaluates gates  *)
(* in the circuit to be but patch functions in the circuit before, tells   *)
(* whether R2 functions for the failing outputs would repair everything,   *)
(* provided that no fix reads a net that changes with one of them.         *)
THEOREM NoPresCorrect == TrajSpec => []NoPresRight
<1>1. TrajInv => NoPresRight
  <2>. SUFFICES ASSUME TrajInv, phase = "verify", Untouched(Failing(cur))
                PROVE  NoPresCheck(circ, drv, cur, Failing(cur)) <=>
                         \A o \in circ.pos : Repaired(Failing(cur))[o] = circ.spec[o]
    BY DEF NoPresRight
  <2>1. PICK S : S = Failing(cur)
    OBVIOUS
  <2>2. S \subseteq circ.pos /\ cur = Evaluate(circ, drv) /\ circ \in Circuits
    BY <2>1 DEF Failing, TrajInv
  <2>3. IsCircuit(circ) /\ circ.pos \subseteq circ.nets /\ PatchesOK(circ, drv)
        /\ \A o \in circ.pos : circ.spec[o] \subseteq Patterns(circ)
    BY <2>2, CircuitFacts, PatchesFacts DEF TrajInv, DrvTyped
  <2>4. \A t \in DOMAIN drv : \A o \in S :
          Reads(circ, drv, t) \intersect Depends(circ, drv, o) = {}
    BY <2>1 DEF Untouched, DependsOn, Depends
  <2>5. S \subseteq circ.nets /\ \A o \in S : circ.spec[o] \subseteq Patterns(circ)
    BY <2>2, <2>3
  <2>6. \A n \in NetsOf(circ) :
          Ideal(circ, drv, cur, S)[n] = Settle(circ, drv, GivenSpec(circ, drv, S))[n]
    BY ONLY <2>2, <2>3, <2>4, <2>5, IdealIsSettle
  <2>7. \A o \in circ.pos : Ideal(circ, drv, cur, S)[o] = Repaired(S)[o]
    BY <2>3, <2>6 DEF Repaired, NetsOf
  <2>. QED BY <2>1, <2>7 DEF NoPresCheck
<1>. QED BY <1>1, AlwaysTraj, PTL

-----------------------------------------------------------------------------
(* Where the candidates come from, and their form.                         *)

LEMMA SubjectNow ==
  ASSUME circ \in Circuits
  PROVE  Subject(circ)
<1>1. Parsed(circ) /\ HasR2(circ) /\ WireBase \in Nat /\ Repairable(circ)
  BY TrajectoryAssumption, RectifierAssumption
<1>2. Gated(circ)
  BY <1>1 DEF Gated, Parsed, Repairable
<1>3. WiresTyped(circ)
  BY <1>1 DEF WiresTyped, Parsed, Repairable, IsCircuit
<1>. QED BY <1>1, <1>2, <1>3 DEF Subject, Repairable

(* Where the candidates come from.                                         *)
FromTargets(x, ts) == ts # <<>> /\ x.patch = CandidatePatch(circ, ts)

RectifierTargets ==
  IF fixes = <<>> \/ result THEN FixTargets(fixes)
  ELSE Hybrid(circ, drv, cur, fixes, Failing(cur), merged)

Origin(x) ==
  \/ x.from = "A" /\ FromTargets(x, Baseline(circ, merged))
  \/ x.from = "B" /\ FromTargets(x, BaselineB(circ, merged))
  \/ x.from = "R" /\ phase = "verify" /\ FromTargets(x, RectifierTargets)

FixesMatch ==
  /\ IsSequence(fixes) /\ DOMAIN drv = Targets
  /\ \A i, j \in DOMAIN fixes : fixes[i].target = fixes[j].target => i = j
  /\ \A i \in DOMAIN fixes : drv[fixes[i].target] = fixes[i].fn

KeptSet ==
  fixes = <<>> \/ result \/
    \A n \in HybridKept(circ, drv, cur, fixes, Failing(cur)) : cur[n] # Unset

OriginInv ==
  /\ TrajInv /\ \A x \in patches : Origin(x)
  /\ phase = "verify" => FixesMatch /\ KeptSet

LEMMA EmittedFrom ==
  ASSUME NEW from, NEW ts, NEW x \in Emitted(from, ts)
  PROVE  x.from = from /\ FromTargets(x, ts)
BY DEF Emitted, FromTargets

LEMMA OriginStep ==
  ASSUME OriginInv, [TrajNext]_<<vars, ownVars>>
  PROVE  OriginInv'
<1>1. TrajInv'
  BY TrajStepInv DEF OriginInv
<1>2. CASE Prepare
  <2>1. phase = "start" /\ UNCHANGED <<vars, merged>> /\ phase' # "verify"
    BY <1>2 DEF Prepare
  <2>2. UNCHANGED <<circ, drv, fixes, cur, result, merged>>
    BY <2>1 DEF vars
  <2>3. \A x \in patches : x.from # "R" /\ Origin(x)
    BY <2>1 DEF OriginInv, Origin
  <2>4. ASSUME NEW x \in patches' PROVE Origin(x)'
    <3>1. CASE x \in patches
      <4>1. \/ x.from = "A" /\ FromTargets(x, Baseline(circ, merged))
            \/ x.from = "B" /\ FromTargets(x, BaselineB(circ, merged))
        BY <2>3, <3>1 DEF Origin
      <4>. QED BY <2>2, <4>1 DEF Origin, FromTargets
    <3>2. CASE x \in Emitted("A", Baseline(circ, merged)) \union Emitted("B", BaselineB(circ, merged))
      <4>1. \/ x.from = "A" /\ FromTargets(x, Baseline(circ, merged))
            \/ x.from = "B" /\ FromTargets(x, BaselineB(circ, merged))
        BY <3>2, EmittedFrom
      <4>. QED BY <2>2, <4>1 DEF Origin, FromTargets
    <3>. QED BY <1>2, <2>4, <3>1, <3>2 DEF Prepare
  <2>. QED BY <1>1, <2>1, <2>4 DEF OriginInv
<1>3. CASE Rectify
  <2>1. phase = "rectify" /\ phase' = "rectify" /\ patches' = patches /\ merged' = merged /\ UNCHANGED circ
    BY <1>3, RectifyKeeps DEF Rectify, ownVars
  <2>2. ASSUME NEW x \in patches' PROVE Origin(x)'
    <3>1. \/ x.from = "A" /\ FromTargets(x, Baseline(circ, merged))
          \/ x.from = "B" /\ FromTargets(x, BaselineB(circ, merged))
      BY <2>1, <2>2 DEF OriginInv, Origin
    <3>. QED BY <2>1, <3>1 DEF Origin, FromTargets
  <2>. QED BY <1>1, <2>1, <2>2 DEF OriginInv
<1>4. CASE Assemble
  <2>1. /\ phase = "rectify" /\ pc = "done" /\ UNCHANGED <<circ, drv, fixes, result, merged>>
    BY <1>4 DEF Assemble
  <2>2. ASSUME NEW x \in patches PROVE Origin(x)'
    <3>1. \/ x.from = "A" /\ FromTargets(x, Baseline(circ, merged))
          \/ x.from = "B" /\ FromTargets(x, BaselineB(circ, merged))
      BY <2>1, <2>2 DEF OriginInv, Origin
    <3>. QED BY <2>1, <3>1 DEF Origin, FromTargets
  <2>3. CASE pc' = "undefined" /\ UNCHANGED <<phase, patches>>
    BY <1>1, <2>1, <2>2, <2>3 DEF OriginInv
  <2>4. CASE phase' = "verify"
    <3>1. /\ patches' = patches \union Emitted("R", RectifierTargets')
          /\ fixes = <<>> \/ result \/ NoPresCheck(circ, drv, cur', Failing(cur)')
               \/ \A n \in Readers(circ, fixes, Failing(cur)') : cur'[n] # Unset
      <4>1. RectifierTargets' = IF fixes = <<>> \/ result THEN FixTargets(fixes)
                                ELSE Hybrid(circ, drv, cur', fixes, Failing(cur)', merged)
        BY <2>1 DEF RectifierTargets
      <4>2. Failing(cur)' = Failing(cur')
        BY <2>1 DEF Failing
      <4>. QED BY <1>4, <2>1, <2>4, <4>1, <4>2 DEF Assemble
    <3>2. ASSUME NEW x \in Emitted("R", RectifierTargets') PROVE Origin(x)'
      <4>1. x.from = "R" /\ FromTargets(x, RectifierTargets')
        BY <3>2, EmittedFrom
      <4>. QED BY <2>1, <2>4, <4>1 DEF Origin, FromTargets
    <3>3. FixesMatch'
      <4>1. ValueInv
        BY <2>1 DEF OriginInv, TrajInv
      <4>2. FixesMatch
        BY <2>1, <4>1 DEF ValueInv, Inv, TargetsConsistent, FixesMatch
      <4>. QED BY <2>1, <4>2 DEF FixesMatch, Targets
    <3>4. KeptSet'
      <4>1. HybridKept(circ, drv, cur, fixes, Failing(cur))'
              = IF NoPresCheck(circ, drv, cur', Failing(cur)') THEN {} ELSE Readers(circ, fixes, Failing(cur)')
        BY <2>1 DEF HybridKept
      <4>. QED BY <2>1, <3>1, <4>1 DEF KeptSet
    <3>. QED BY <1>1, <2>2, <3>1, <3>2, <3>3, <3>4 DEF OriginInv
  <2>. QED BY <1>4, <2>3, <2>4 DEF Assemble
<1>5. CASE UNCHANGED <<vars, merged>> /\ patches' \subseteq patches
             /\ (phase' = phase \/ (phase' # "verify" /\ patches' = {}))
  <2>1. UNCHANGED <<circ, drv, fixes, cur, result, merged>>
    BY <1>5 DEF vars
  <2>2. CASE phase' = phase
    <3>1. ASSUME NEW x \in patches PROVE Origin(x)'
      <4>1. Origin(x)
        BY <3>1 DEF OriginInv
      <4>. QED BY <2>1, <2>2, <4>1 DEF Origin, FromTargets, RectifierTargets, Failing
    <3>2. FixesMatch /\ KeptSet => FixesMatch' /\ KeptSet'
      BY <2>1 DEF FixesMatch, KeptSet, Targets, Failing
    <3>. QED BY <1>1, <1>5, <2>2, <3>1, <3>2 DEF OriginInv
  <2>. QED BY <1>1, <1>5, <2>2 DEF OriginInv
<1>6. CASE Verify
  <2>1. /\ UNCHANGED <<vars, merged>> /\ patches' \subseteq patches
        /\ phase' = "verify" \/ patches' = {}
        /\ phase = "verify" /\ (patches' = {} => phase' # "verify")
    BY <1>6 DEF Verify
  <2>. QED BY <1>5, <2>1
<1>7. CASE Simplify \/ Deliver
  <2>1. UNCHANGED <<vars, merged, patches>> /\ phase = "simplify" /\ phase' # "verify"
    BY <1>7 DEF Simplify, Deliver
  <2>2. UNCHANGED <<circ, drv, fixes, cur, result, merged>>
    BY <2>1 DEF vars
  <2>3. ASSUME NEW x \in patches PROVE Origin(x)'
    <3>1. \/ x.from = "A" /\ FromTargets(x, Baseline(circ, merged))
          \/ x.from = "B" /\ FromTargets(x, BaselineB(circ, merged))
      BY <2>1, <2>3 DEF OriginInv, Origin
    <3>. QED BY <2>2, <3>1 DEF Origin, FromTargets
  <2>. QED BY <1>1, <2>1, <2>3 DEF OriginInv
<1>8. CASE UNCHANGED <<vars, ownVars>>
  BY <1>5, <1>8 DEF ownVars
<1>. QED BY <1>2, <1>3, <1>4, <1>6, <1>7, <1>8 DEF TrajNext, TrajStep

LEMMA AlwaysOrigin == TrajSpec => []OriginInv
<1>1. TrajInit => OriginInv
  <2>. SUFFICES ASSUME TrajInit PROVE OriginInv
    OBVIOUS
  <2>1. TrajInv
    <3>1. ValueInv
      BY InitValueInv DEF TrajInit
    <3>. QED BY <3>1, ValuesTyped DEF TrajInit, TrajInv
  <2>. QED BY <2>1 DEF TrajInit, OriginInv
<1>2. OriginInv /\ [TrajNext]_<<vars, ownVars>> => OriginInv'
  BY OriginStep
<1>. QED BY <1>1, <1>2, PTL DEF TrajSpec

(* What the Rectifier left.                                                *)
LEMMA FixesAreTyped ==
  ASSUME TrajInv, FixesMatch
  PROVE  /\ FixesTyped(circ, fixes) /\ PatchesOK(circ, drv) /\ FinitePatches(drv)
<1>1. circ \in Circuits /\ DrvTyped
  BY DEF TrajInv
<1>2. circ.nets \subseteq Nat \ {0, 1}
  BY <1>1, CircuitFacts
<1>3. PatchesOK(circ, drv) /\ FinitePatches(drv)
  BY <1>1, PatchesFacts DEF DrvTyped, FinitePatches, IsFn
<1>4. ASSUME NEW i \in DOMAIN fixes
      PROVE  /\ fixes[i].target \in circ.nets /\ IsFiniteSet(fixes[i].fn.sup)
             /\ fixes[i].fn.sup \subseteq Int /\ NoNet \notin fixes[i].fn.sup
  <2>1. PICK n : n = fixes[i].target
    OBVIOUS
  <2>2. n \in DOMAIN drv /\ drv[n] = fixes[i].fn
    BY <2>1 DEF FixesMatch, Targets
  <2>3. n \in circ.nets /\ drv[n].sup \subseteq circ.nets \union {-n} /\ IsFiniteSet(drv[n].sup)
    BY <1>1, <2>2 DEF DrvTyped, IsFn
  <2>4. n \in Nat /\ n # 1 /\ n # 0 /\ -n \in Int /\ -n # -1
    BY <1>2, <2>3
  <2>5. drv[n].sup \subseteq Int /\ NoNet \notin drv[n].sup
    BY <1>2, <2>3, <2>4 DEF NoNet
  <2>. QED BY <2>1, <2>2, <2>3, <2>5
<1>. QED BY <1>3, <1>4 DEF FixesTyped, FixesMatch, IsSequence

LEMMA OriginTargets ==
  ASSUME OriginInv, NEW x \in patches
  PROVE  \E ts : IsTargets(circ, ts) /\ FromTargets(x, ts)
<1>1. circ \in Circuits
  BY DEF OriginInv, TrajInv
<1>2. Subject(circ)
  BY <1>1, SubjectNow
<1>3. IsTargets(circ, Baseline(circ, merged)) /\ IsTargets(circ, BaselineB(circ, merged))
  BY <1>2, BaselineBuilt, BaselineBBuilt DEF BuiltFor
<1>4. CASE phase = "verify"
  <2>1. /\ FixesTyped(circ, fixes) /\ PatchesOK(circ, drv) /\ FinitePatches(drv)
        /\ cur = Evaluate(circ, drv) /\ Failing(cur) \subseteq circ.pos
    BY <1>4, FixesAreTyped DEF OriginInv, TrajInv, Failing
  <2>2. CASE fixes = <<>> \/ result
    BY <1>3, <2>1, <2>2, FixTargetsAre DEF OriginInv, Origin, RectifierTargets
  <2>3. CASE ~(fixes = <<>> \/ result)
    <3>1. PICK S : S = Failing(cur)
      OBVIOUS
    <3>2. Rectified(circ, drv, cur, fixes, S)
      BY <1>4, <2>1, <2>3, <3>1 DEF Rectified, OriginInv, KeptSet
    <3>3. IsTargets(circ, Hybrid(circ, drv, cur, fixes, S, merged))
      BY ONLY <1>2, <3>2, HybridTargets
    <3>. QED BY <1>3, <2>3, <3>1, <3>3 DEF OriginInv, Origin, RectifierTargets
  <2>. QED BY <2>2, <2>3
<1>5. CASE phase # "verify"
  BY <1>3, <1>5 DEF OriginInv, Origin
<1>. QED BY <1>4, <1>5

(* For all circuits: whatever is emitted, for however many targets, has no *)
(* leftovers.                                                              *)
THEOREM CandidatesCorrect == TrajSpec => []CandidatesTidy
<1>1. OriginInv => CandidatesTidy
  <2>. SUFFICES ASSUME OriginInv, NEW x \in patches
                PROVE  IsPatch(circ, x.patch) /\ Tidy(x.patch)
    BY DEF CandidatesTidy
  <2>1. PICK ts : IsTargets(circ, ts) /\ FromTargets(x, ts)
    BY OriginTargets
  <2>2. WiresTyped(circ) /\ circ.nets \subseteq Nat
    BY SubjectNow, SubjectFacts DEF Subject, OriginInv, TrajInv
  <2>3. x.patch = CandidatePatch(circ, ts)
    BY <2>1 DEF FromTargets
  <2>. QED BY <2>1, <2>2, <2>3, CandidateTidy
<1>. QED BY <1>1, AlwaysOrigin, PTL

-----------------------------------------------------------------------------
(* What passes the verification of one implementation passes the other,    *)
(* and what is delivered.                                                  *)

(* For all circuits: evalPatched of main.cpp and apply_patch of            *)
(* evaluate.py, which rename different drivers, give every output the same *)
(* value, or both none.                                                    *)
THEOREM VerdictsAgreed == TrajSpec => []VerdictsAgree
<1>1. circ \in Circuits /\ CandidatesTidy => VerdictsAgree
  <2>. SUFFICES ASSUME circ \in Circuits, CandidatesTidy, NEW x \in patches, ~DrivesTwice(x.patch)
                PROVE  Verified(circ, x.patch) <=> EvaluatorPasses(circ, x.patch)
    BY DEF VerdictsAgree
  <2>. QED BY InCircuits, SameVerdict DEF CandidatesTidy
<1>. QED BY <1>1, AlwaysCircuit, CandidatesCorrect, PTL

(* The winner is a candidate, rewritten and swept any number of times.     *)
WinnerInv == circ \in Circuits /\ IsPatch(circ, winner) /\ Tidy(winner)

LEMMA TidySources ==
  ASSUME NEW p, Tidy(p)
  PROVE  HasSources(p)
BY DEF Tidy, HasSources

LEMMA SimplifyTidy ==
  ASSUME WinnerInv, Simplify
  PROVE  /\ IsPatch(circ, winner') /\ Tidy(winner') /\ winner'.outputs = winner.outputs
         /\ PatchCost(winner') < PatchCost(winner) /\ Verified(circ, winner')
BY TidySources, SimplerTidy DEF WinnerInv, Simplify

LEMMA WinnerStep ==
  ASSUME WinnerInv, CandidatesTidy, [TrajNext]_<<vars, ownVars>>
  PROVE  WinnerInv'
<1>1. CASE Simplify
  BY <1>1, SimplifyTidy, CircuitKept DEF WinnerInv
<1>2. CASE Verify
  BY <1>2, CircuitKept DEF WinnerInv, Verify, CandidatesTidy
<1>3. CASE UNCHANGED winner
  BY <1>3, CircuitKept DEF WinnerInv
<1>. QED BY <1>1, <1>2, <1>3
         DEF TrajNext, TrajStep, Prepare, Rectify, Assemble, Deliver, ownVars

LEMMA AlwaysWinner == TrajSpec => []WinnerInv
<1>1. TrajInit => WinnerInv
  BY CircuitInit, EmptyPatch DEF TrajInit, WinnerInv
<1>2. WinnerInv /\ CandidatesTidy /\ [TrajNext]_<<vars, ownVars>> => WinnerInv'
  BY WinnerStep
<1>. QED BY <1>1, <1>2, CandidatesCorrect, PTL DEF TrajSpec

(* For all circuits: however often a pass of simplify replaces a gate or a *)
(* support, and deadSweep drops what nobody reads then, no gate and no     *)
(* input is left over, and nothing is missing.                             *)
THEOREM WinnerTidy == TrajSpec => []PatchesTidy
<1>1. WinnerInv /\ CandidatesTidy => PatchesTidy
  BY DEF WinnerInv, PatchesTidy
<1>. QED BY <1>1, AlwaysWinner, CandidatesCorrect, PTL

(* What passes eco's verification is right.                                *)
LEMMA VerifiedRight ==
  ASSUME circ \in Circuits, NEW p, IsPatch(circ, p), Verified(circ, p)
  PROVE  Right(circ, p)
BY InCircuits, SameVerdict DEF Right

LEMMA NothingRight ==
  ASSUME circ \in Circuits, FailingPos(circ) = {}
  PROVE  Right(circ, NoPatch)
<1>1. PICK v : v = Evaluate(circ, Unpatched)
  OBVIOUS
<1>2. Whole(circ, Unpatched, v) /\ circ.pos \subseteq circ.nets
  BY <1>1, CircuitFacts
<1>3. \A o \in circ.pos : v[o] = circ.spec[o]
  BY <1>1 DEF FailingPos
<1>. QED BY <1>2, <1>3, EmptyPasses DEF Right

LEMMA AnswerStep ==
  ASSUME WinnerInv, CandidatesTidy, [TrajNext]_<<vars, ownVars>>
  PROVE  [Answer!AnswerNext]_(Answer!answerVars)
<1>. USE CircuitKept
<1>1. CASE Prepare
  <2>1. Stage = "searching" /\ winner' = winner
    BY <1>1 DEF Prepare, Stage
  <2>2. CASE FailingPos(circ) = {} /\ phase' = "delivered"
    <3>1. Stage' = "delivered"
      BY <2>2 DEF Stage
    <3>. QED BY <2>1, <2>2, <3>1, NothingRight DEF WinnerInv, Answer!AnswerNext, Answer!Nothing
  <2>3. CASE phase' = "error"
    <3>1. Stage' = "failed"
      BY <2>3 DEF Stage
    <3>. QED BY <2>1, <3>1 DEF Answer!AnswerNext, Answer!Fail
  <2>4. CASE phase' = "rectify"
    <3>1. Stage' \in {"searching", "failed"}
      BY <2>4 DEF Stage
    <3>. QED BY <2>1, <3>1 DEF Answer!AnswerNext, Answer!Fail, Answer!answerVars
  <2>. QED BY <1>1, <2>2, <2>3, <2>4 DEF Prepare
<1>2. CASE Rectify
  <2>1. Stage = "searching" /\ winner' = winner /\ phase' = "rectify"
    BY <1>2, RectifyKeeps DEF Rectify, Stage, ownVars
  <2>2. Stage' \in {"searching", "failed"}
    BY <2>1 DEF Stage
  <2>. QED BY <2>1, <2>2 DEF Answer!AnswerNext, Answer!Fail, Answer!answerVars
<1>3. CASE Assemble
  <2>1. Stage = "searching" /\ winner' = winner
    BY <1>3 DEF Assemble, Stage
  <2>2. phase' = "verify" \/ (phase' = "rectify" /\ pc' = "undefined")
    BY <1>3 DEF Assemble
  <2>3. Stage' \in {"searching", "failed"}
    BY <2>2 DEF Stage
  <2>. QED BY <2>1, <2>3 DEF Answer!AnswerNext, Answer!Fail, Answer!answerVars
<1>4. CASE Verify
  <2>1. Stage = "searching"
    BY <1>4 DEF Verify, Stage
  <2>2. PICK x \in patches :
          \/ Verified(circ, x.patch) /\ winner' = x.patch /\ phase' = "simplify"
          \/ winner' = winner /\ phase' \in {"error", "verify"}
    BY <1>4 DEF Verify
  <2>3. CASE Verified(circ, x.patch) /\ winner' = x.patch /\ phase' = "simplify"
    <3>1. Stage' = "answered"
      BY <2>3 DEF Stage
    <3>2. Right(circ, winner')
      BY <2>3, VerifiedRight DEF WinnerInv, CandidatesTidy
    <3>. QED BY <2>1, <3>1, <3>2 DEF Answer!AnswerNext, Answer!Found
  <2>4. CASE winner' = winner /\ phase' \in {"error", "verify"}
    <3>1. Stage' \in {"searching", "failed"}
      BY <2>4 DEF Stage
    <3>. QED BY <2>1, <2>4, <3>1 DEF Answer!AnswerNext, Answer!Fail, Answer!answerVars
  <2>. QED BY <2>2, <2>3, <2>4
<1>5. CASE Simplify
  <2>1. Stage = "answered" /\ Stage' = "answered"
    BY <1>5 DEF Simplify, Stage
  <2>2. /\ PatchCost(winner') < PatchCost(winner) /\ winner'.outputs = winner.outputs
        /\ Right(circ, winner')
    BY <1>5, SimplifyTidy, VerifiedRight DEF WinnerInv
  <2>. QED BY <2>1, <2>2 DEF Answer!AnswerNext, Answer!Improve
<1>6. CASE Deliver
  <2>1. Stage = "answered" /\ Stage' = "delivered" /\ winner' = winner
    BY <1>6 DEF Deliver, Stage
  <2>. QED BY <2>1 DEF Answer!AnswerNext, Answer!Give
<1>7. CASE UNCHANGED <<vars, ownVars>>
  <2>1. Stage' = Stage /\ winner' = winner
    BY <1>7 DEF Stage, vars, ownVars
  <2>. QED BY <2>1 DEF Answer!answerVars
<1>. QED BY <1>1, <1>2, <1>3, <1>4, <1>5, <1>6, <1>7 DEF TrajNext, TrajStep

(* For all circuits, a trajectory implements the safety part of EcoAnswer: *)
(* what it delivers passes the evaluator (unless it drives a net twice),   *)
(* even when no output fails and the patch is empty, and simplify only     *)
(* ever exchanges it for a cheaper patch of the same outputs that passes   *)
(* as well.                                                                *)
THEOREM AnswersSafe == TrajSpec => Answer!AnswerSafe
<1>1. TrajInit => Answer!AnswerInit
  BY DEF TrajInit, Answer!AnswerInit, Stage
<1>2. WinnerInv /\ CandidatesTidy /\ [TrajNext]_<<vars, ownVars>>
        => [Answer!AnswerNext]_(Answer!answerVars)
  BY AnswerStep
<1>. QED BY <1>1, <1>2, AlwaysWinner, CandidatesCorrect, PTL DEF TrajSpec, Answer!AnswerSafe

-----------------------------------------------------------------------------
(* The baseline: failing outputs from R2, the rest as before.              *)

(* The old values: what G1 computes without a patch.                       *)
LEMMA OldWhole ==
  ASSUME NEW c, Subject(c), NEW old, old = Evaluate(c, Unpatched)
  PROVE  /\ Whole(c, Unpatched, old) /\ IsWhole(c)
         /\ old[0] = Const(c, 0) /\ old[1] = Const(c, 1)
         /\ \A n \in NetsOf(c) : old[n] \subseteq Patterns(c)
<1>1. IsCircuit(c) /\ PatchesOK(c, Unpatched)
  BY SubjectFacts DEF PatchesOK, Unpatched
<1>2. Whole(c, Unpatched, old)
  BY <1>1 DEF Whole, Subject
<1>3. IsWhole(c)
  BY <1>1, <1>2, WholeValues DEF IsWhole, Unpatched
<1>4. /\ old \in [NetsOf(c) -> Values(c)] /\ (\A n \in NetsOf(c) : old[n] # Unset)
      /\ old[0] = Const(c, 0) /\ old[1] = Const(c, 1)
  BY <1>2, WholeValues
<1>5. \A n \in NetsOf(c) : old[n] \subseteq Patterns(c)
  BY <1>4 DEF Values
<1>. QED BY <1>2, <1>3, <1>4, <1>5

(* Values that agree with the old ones wherever the driver of a net looks. *)
OldAround(c, R, t) == t \in Inputs(c) \/ \A m \in Ins(c, t) : R[m] = Evaluate(c, Unpatched)[m]

LEMMA OldPort ==
  ASSUME NEW c, Subject(c), NEW t \in c.nets, NEW R, OldAround(c, R, t)
  PROVE  PortValue(c, R, -t) = Evaluate(c, Unpatched)[t]
<1>1. PICK old : old = Evaluate(c, Unpatched)
  OBVIOUS
<1>2. /\ t \in Inputs(c) \union Driven(c) /\ Inputs(c) \intersect Driven(c) = {} /\ t \in Int
      /\ ~(-t > 0) /\ - (-t) = t
  BY OldWhole DEF IsWhole, IsCircuit
<1>3. Whole(c, Unpatched, old)
  BY <1>1, OldWhole
<1>4. DOMAIN Unpatched = {}
  BY DEF Unpatched
<1>5. CASE t \in Inputs(c)
  <2>1. old[t] = c.pis[t]
    BY <1>3, <1>4, <1>5, WholeValues
  <2>. QED BY <1>1, <1>2, <1>5, <2>1 DEF PortValue
<1>6. CASE t \in Driven(c)
  <2>1. old[t] = NetValue(c, Unpatched, old, t)
    BY <1>3, <1>4, <1>6, WholeValues
  <2>2. PICK g : g = c.gate[t]
    OBVIOUS
  <2>3. t \notin Inputs(c)
    BY <1>2, <1>6
  <2>4. \A j \in DOMAIN g.ins : R[g.ins[j]] = old[g.ins[j]]
    BY <1>1, <2>2, <2>3 DEF OldAround, Ins
  <2>5. [j \in DOMAIN g.ins |-> R[g.ins[j]]] = [j \in DOMAIN g.ins |-> old[g.ins[j]]]
    BY <2>4
  <2>6. NetValue(c, Unpatched, old, t) = GateFn(c, g.type, [j \in DOMAIN g.ins |-> old[g.ins[j]]])
    BY <1>4, <2>2 DEF NetValue
  <2>7. PortValue(c, R, -t) = GateFn(c, g.type, [j \in DOMAIN g.ins |-> R[g.ins[j]]])
    BY <1>2, <2>2, <2>3 DEF PortValue
  <2>. QED BY <1>1, <2>1, <2>5, <2>6, <2>7
<1>. QED BY <1>2, <1>5, <1>6

LEMMA CarriedValue ==
  ASSUME NEW c, NEW l, NEW X, Carries(c, l, X)
  PROVE  Valued(c, l) /\ Value(c, l) = X /\ X \subseteq Patterns(c) /\ l \in Lits
<1>1. /\ l \in Lits /\ PortsOf(l) \subseteq Inputs(c) /\ Suited(Patterns(c), AllInputs(c), l)
      /\ X \subseteq Patterns(c) /\ TermValue(Patterns(c), AllInputs(c), l) = X
  BY MeansSuited DEF Carries, Means
<1>2. Inputs(c) \subseteq DOMAIN AllInputs(c)
  BY DEF AllInputs
<1>. QED BY <1>1, <1>2 DEF Valued, Value

LEMMA R2Valued ==
  ASSUME NEW c, Subject(c), NEW o \in c.pos
  PROVE  Valued(c, c.r2[o]) /\ Value(c, c.r2[o]) = c.spec[o] /\ c.spec[o] \subseteq Patterns(c)
<1>1. /\ c.r2[o] \in Lits /\ PortsOf(c.r2[o]) \subseteq DOMAIN AllInputs(c)
      /\ Value(c, c.r2[o]) = c.spec[o]
      /\ \A n \in DOMAIN c.free : c.free[n] \subseteq Patterns(c)
  BY LiteralIn DEF Subject, HasR2
<1>2. \A n \in Inputs(c) : c.pis[n] \subseteq Patterns(c)
  BY SubjectFacts DEF IsCircuit
<1>3. \A n \in DOMAIN AllInputs(c) : AllInputs(c)[n] \subseteq Patterns(c)
  BY <1>1, <1>2 DEF AllInputs
<1>4. Suited(Patterns(c), AllInputs(c), c.r2[o])
  BY <1>1, <1>3 DEF Suited
<1>. QED BY <1>1, <1>4 DEF Valued, Subject

LEMMA LitsExplained ==
  ASSUME NEW c, NEW ctx, NEW R, NEW ts, NEW spec, SpecMeant(c, ctx, R, ts, spec),
         BuiltFor(c, ctx, spec, ts),
         \A o \in DOMAIN spec : o \in DOMAIN R /\ R[o] = Value(c, spec[o])
  PROVE  \A o, k : LastFor(ts, o, k) => LitExplained(c, R, o, ts[k].lit)
<1>1. SUFFICES ASSUME NEW o, NEW k, LastFor(ts, o, k)
               PROVE  o \in DOMAIN R /\ R[o] = LitValue(c, R, ts[k].lit)
  BY DEF LitExplained
<1>2. k \in DOMAIN ts /\ ts[k].out = o
  BY <1>1 DEF LastFor
<1>3. o \in DOMAIN spec
  <2>1. ts # <<>>
    BY <1>2
  <2>. QED BY <1>2, <2>1 DEF BuiltFor, TargetNets
<1>4. LitValue(c, R, ts[k].lit) = Value(c, spec[o])
  BY <1>2 DEF SpecMeant
<1>. QED BY <1>3, <1>4

LEMMA SpecPortsFit ==
  ASSUME NEW c, NEW ctx, NEW R, NEW ts, NEW spec, SpecMeant(c, ctx, R, ts, spec),
         ctx.outs \subseteq TargetNets(ts)
  PROVE  PortsFit(c, ts)
BY DEF SpecMeant, PortsFit

(* What a baseline candidate should compute: the failing outputs are       *)
(* right, the other nets are as they were.                                 *)
BaselineValues(c) ==
  [n \in NetsOf(c) |-> IF n \in FailingPos(c) THEN c.spec[n] ELSE Evaluate(c, Unpatched)[n]]

LEMMA BaselineValuesAre ==
  ASSUME NEW c, Subject(c), NEW R, R = BaselineValues(c), NEW old, old = Evaluate(c, Unpatched)
  PROVE  /\ DOMAIN R = NetsOf(c) /\ \A n \in FailingPos(c) : R[n] = c.spec[n]
         /\ \A n \in NetsOf(c) \ FailingPos(c) : R[n] = old[n]
         /\ \A n \in {0, 1} : n \in DOMAIN R /\ R[n] = Const(c, n)
         /\ \A t \in c.nets : (t \in Driven(c) => Ins(c, t) \intersect FailingPos(c) = {}) =>
              PortValue(c, R, -t) = old[t]
<1>1. /\ DOMAIN R = NetsOf(c) /\ \A n \in FailingPos(c) : n \in NetsOf(c) => R[n] = c.spec[n]
      /\ \A n \in NetsOf(c) \ FailingPos(c) : R[n] = old[n]
  BY DEF BaselineValues
<1>2. FailingPos(c) \subseteq c.nets /\ 0 \notin c.nets /\ 1 \notin c.nets /\ IsCircuit(c)
  BY SubjectFacts DEF Subject
<1>3. old[0] = Const(c, 0) /\ old[1] = Const(c, 1) /\ IsWhole(c)
  BY OldWhole
<1>4. \A n \in {0, 1} : n \in DOMAIN R /\ R[n] = Const(c, n)
  BY <1>1, <1>2, <1>3 DEF NetsOf
<1>5. ASSUME NEW t \in c.nets, t \in Driven(c) => Ins(c, t) \intersect FailingPos(c) = {}
      PROVE  PortValue(c, R, -t) = old[t]
  <2>1. t \in Inputs(c) \union Driven(c)
    BY <1>3 DEF IsWhole
  <2>2. t \in Driven(c) => Ins(c, t) \subseteq NetsOf(c)
    BY <1>2 DEF IsCircuit, NetsOf
  <2>3. OldAround(c, R, t)
    BY <1>1, <1>5, <2>1, <2>2 DEF OldAround
  <2>. QED BY <2>3, OldPort
<1>. QED BY <1>1, <1>2, <1>4, <1>5 DEF NetsOf

LEMMA BaselineCarried ==
  ASSUME NEW c, Subject(c), NEW mrg
  PROVE  CarriedBy(c, BaselineCtx(c, mrg), BaselineValues(c))
<1>1. PICK R, old, ctx, fails : /\ R = BaselineValues(c) /\ old = Evaluate(c, Unpatched)
                            /\ ctx = BaselineCtx(c, mrg) /\ fails = FailingPos(c)
  OBVIOUS
<1>2. /\ ctx.outs = fails \union Preserved(c, fails) /\ ctx.changed = fails /\ ctx.nets = CurLits(c, Unpatched)
      /\ DOMAIN ctx.lazy = {}
  BY <1>1 DEF BaselineCtx, NoLazy
<1>3. /\ DOMAIN ctx.nets = NetsOf(c)
      /\ \A n \in DOMAIN ctx.nets : ctx.nets[n] \in Lits /\ Carries(c, ctx.nets[n], old[n])
  BY <1>1, <1>2, OldLits
<1>4. c.nets \subseteq Nat /\ 0 \notin c.nets
  BY SubjectFacts
<1>5. ASSUME NEW n \in c.nets \intersect DOMAIN ctx.nets, Usable(c, ctx, n) # NoNet
      PROVE  /\ ctx.nets[n] \in Lits /\ Value(c, ctx.nets[n]) \subseteq Patterns(c)
             /\ PortValue(c, R, Usable(c, ctx, n)) = Value(c, ctx.nets[n])
  <2>1. ctx.nets[n] \in Lits /\ Value(c, ctx.nets[n]) = old[n] /\ old[n] \subseteq Patterns(c)
    BY <1>3, <1>5, CarriedValue
  <2>2. CASE Usable(c, ctx, n) = n /\ n \notin ctx.outs \union ctx.changed
    <3>1. n \notin fails /\ n \in NetsOf(c) /\ n > 0
      BY <1>2, <1>3, <1>4, <1>5, <2>2
    <3>2. R[n] = old[n]
      BY <1>1, <3>1, BaselineValuesAre
    <3>. QED BY <2>1, <2>2, <3>1, <3>2 DEF PortValue
  <2>3. CASE Usable(c, ctx, n) = -n /\ n \in ctx.outs /\ InSafe(c, n, ctx.changed)
    <3>1. Ins(c, n) \intersect fails = {}
      BY <1>2, <2>3 DEF InSafe
    <3>2. PortValue(c, R, -n) = old[n]
      BY <1>1, <1>5, <3>1, BaselineValuesAre
    <3>. QED BY <2>1, <2>3, <3>2
  <2>. QED BY <1>5, <2>2, <2>3, UsableIs
<1>. QED BY <1>1, <1>2, <1>5 DEF CarriedBy

LEMMA BaselineExplained ==
  ASSUME NEW c, Subject(c), NEW mrg, NEW ts, ts = Baseline(c, mrg), ts # <<>>
  PROVE  Explains(c, ts, BaselineValues(c)) /\ PortsFit(c, ts) /\ IsTargets(c, ts)
<1>1. PICK R, old, ctx, fails, spec : /\ R = BaselineValues(c) /\ old = Evaluate(c, Unpatched)
                                  /\ ctx = BaselineCtx(c, mrg) /\ fails = FailingPos(c)
                                  /\ spec = BaselineSpec(c, fails)
  OBVIOUS
<1>2. ctx.outs = fails \union Preserved(c, fails) /\ ctx.lazy = NoLazy
  BY <1>1 DEF BaselineCtx
<1>3. /\ c.nets \subseteq Nat /\ 0 \notin c.nets /\ fails \subseteq c.pos /\ c.pos \subseteq c.nets
      /\ Preserved(c, fails) \subseteq c.nets
  BY <1>1, SubjectFacts
<1>4. Choosing(c, ctx)
  BY <1>2, <1>3 DEF Choosing, NoLazy
<1>5. BuiltFor(c, ctx, spec, ts)
  BY <1>1, BaselineBuilt
<1>6. DOMAIN spec = fails \union Preserved(c, fails) /\ TargetNets(ts) = DOMAIN spec /\ IsTargets(c, ts)
  BY <1>1, <1>5 DEF BuiltFor, BaselineSpec
<1>7. ASSUME NEW n \in DOMAIN spec
      PROVE  Valued(c, spec[n]) /\ n \in DOMAIN R /\ R[n] = Value(c, spec[n])
  <2>1. n \in DOMAIN R
    <3>1. n \in NetsOf(c)
      BY <1>3, <1>6, <1>7 DEF NetsOf
    <3>2. DOMAIN R = NetsOf(c)
      BY <1>1, BaselineValuesAre
    <3>. QED BY <3>1, <3>2
  <2>2. CASE n \in fails
    <3>1. spec[n] = c.r2[n]
      BY <1>1, <1>6, <2>2 DEF BaselineSpec
    <3>2. R[n] = c.spec[n]
      BY <1>1, <2>2, BaselineValuesAre
    <3>. QED BY <1>3, <2>1, <2>2, <3>1, <3>2, R2Valued
  <2>3. CASE n \notin fails
    <3>1. spec[n] = CurLits(c, Unpatched)[n] /\ n \in NetsOf(c)
      BY <1>1, <1>3, <1>6, <1>7, <2>3 DEF BaselineSpec, NetsOf
    <3>2. R[n] = old[n]
      BY <1>1, <2>3, <3>1, BaselineValuesAre
    <3>3. Carries(c, spec[n], old[n])
      BY <1>1, <3>1, OldLits
    <3>. QED BY <2>1, <3>2, <3>3, CarriedValue
  <2>. QED BY <2>2, <2>3
<1>8. CarriedBy(c, ctx, R)
  BY <1>1, BaselineCarried
<1>9. SpecMeant(c, ctx, R, ts, spec)
  BY <1>3, <1>4, <1>5, <1>7, <1>8, BuiltMeant
<1>10. \A o, k : LastFor(ts, o, k) => LitExplained(c, R, o, ts[k].lit)
  BY <1>5, <1>7, <1>9, LitsExplained
<1>11. PortsFit(c, ts)
  BY <1>2, <1>6, <1>9, SpecPortsFit
<1>12. ASSUME NEW n \in c.nets \ TargetNets(ts) PROVE NetExplained(c, R, n)
  <2>1. n \notin fails /\ n \notin Preserved(c, fails) /\ n \in NetsOf(c)
    BY <1>6, <1>12 DEF NetsOf
  <2>2. n \in Driven(c) => Ins(c, n) \intersect fails = {}
    BY <2>1 DEF Preserved, Consumers
  <2>3. n \in DOMAIN R /\ R[n] = old[n] /\ PortValue(c, R, -n) = old[n]
    BY <1>1, <2>1, <2>2, BaselineValuesAre
  <2>. QED BY <2>3 DEF NetExplained
<1>13. \A n \in {0, 1} : n \in DOMAIN R /\ R[n] = Const(c, n)
  BY <1>1, BaselineValuesAre
<1>. QED BY <1>1, <1>6, <1>10, <1>11, <1>12, <1>13 DEF Explains

(* A baseline candidate gives every net that has a value the right one.    *)
LEMMA BaselineRight ==
  ASSUME NEW c, Subject(c), Fresh(c), NEW mrg, NEW ts, ts = Baseline(c, mrg), ts # <<>>,
         NEW v, v = EvalPatched(c, CandidatePatch(c, ts))
  PROVE  \A n \in c.nets : Net(n) \in DOMAIN v => v[Net(n)] = BaselineValues(c)[n]
<1>1. PICK R : R = BaselineValues(c)
  OBVIOUS
<1>2. Explains(c, ts, R) /\ PortsFit(c, ts) /\ IsTargets(c, ts)
  BY <1>1, BaselineExplained
<1>3. IsWhole(c)
  BY OldWhole
<1>4. \A n \in c.nets : Kept(v, R, n)
  BY <1>2, <1>3, CandidateSound
<1>. QED BY <1>1, <1>4 DEF Kept

LEMMA FreshNow ==
  ASSUME circ \in Circuits, WiresFresh
  PROVE  Fresh(circ)
<1>1. Subject(circ) /\ Parsed(circ) /\ WireBase \in Nat
  BY SubjectNow, TrajectoryAssumption
<1>2. circ.nets \subseteq Nat /\ 0 \notin circ.nets /\ 1 \notin circ.nets
  BY <1>1, SubjectFacts
<1>. QED BY <1>1, <1>2 DEF Fresh, WiresFresh, Parsed

LEMMA BaselineNow ==
  ASSUME OriginInv, NEW x \in patches, x.from = "A", WiresFresh,
         NEW n \in FailingPos(circ) \union Preserved(circ, FailingPos(circ)),
         Net(n) \in DOMAIN Val(x.patch)
  PROVE  Val(x.patch)[Net(n)] = IF n \in FailingPos(circ) THEN circ.spec[n]
                                ELSE Evaluate(circ, Unpatched)[n]
<1>1. FromTargets(x, Baseline(circ, merged)) /\ circ \in Circuits
  BY DEF OriginInv, Origin, TrajInv
<1>2. Subject(circ) /\ Fresh(circ)
  BY <1>1, SubjectNow, FreshNow
<1>3. n \in circ.nets
  BY <1>2, SubjectFacts
<1>4. PICK ts, v : ts = Baseline(circ, merged) /\ v = Val(x.patch)
  OBVIOUS
<1>5. ts # <<>> /\ v = EvalPatched(circ, CandidatePatch(circ, ts))
  BY <1>1, <1>4 DEF FromTargets, Val
<1>6. \A m \in circ.nets : Net(m) \in DOMAIN v => v[Net(m)] = BaselineValues(circ)[m]
  BY <1>2, <1>4, <1>5, BaselineRight
<1>7. v[Net(n)] = BaselineValues(circ)[n]
  BY <1>3, <1>4, <1>6
<1>8. n \in NetsOf(circ)
  BY <1>3 DEF NetsOf
<1>. QED BY <1>4, <1>7, <1>8 DEF BaselineValues

(* For all circuits: a baseline candidate gives no failing output another  *)
(* function than R2's, and no gate that reads one another than its old.    *)
THEOREM BaselineCorrect == TrajSpec => []BaselineExact
<1>1. OriginInv => BaselineExact
  <2>. SUFFICES ASSUME OriginInv PROVE BaselineExact
    OBVIOUS
  <2>. QED BY BaselineNow DEF BaselineExact
<1>. QED BY <1>1, AlwaysOrigin, PTL

-----------------------------------------------------------------------------
(* The patch of the fixes computes what the Rectifier evaluated.           *)

LEMMA DrivesOnce ==
  ASSUME NEW c, NEW ts, NEW q, Patching(c, ts, q), Distinct(ts)
  PROVE  ~DrivesTwice(q)
<1>1. PICK at : Shaped(ts, at, q.gates)
  BY DEF Patching
<1>2. Laid(ts, Len(ts), at, q.gates) /\ WiresOwn(q.gates)
  BY <1>1 DEF Shaped
<1>3. /\ IsTargets(c, ts) /\ c.nets \subseteq Nat /\ \A n \in c.nets : n < WireBase
      /\ WireBase \in Nat
  BY DEF Patching, Fresh
<1>4. DOMAIN ts = 1 .. Len(ts)
  <2>1. PICK V : V = [out : c.nets, lit : Plain]
    OBVIOUS
  <2>2. ts \in Seq(V)
    BY <1>3, <2>1 DEF IsTargets
  <2>. QED BY <2>2
<1>5. \A i \in DOMAIN q.gates : q.gates[i].type = "buf" => q.gates[i].out \in c.nets
  BY <1>1, <1>3, BuffersDrive
<1>6. \A i \in DOMAIN q.gates : q.gates[i].type # "buf" => q.gates[i].out >= WireBase
  BY <1>2 DEF WiresOwn
<1>7. SUFFICES ASSUME NEW i \in DOMAIN q.gates, NEW j \in DOMAIN q.gates,
                      q.gates[i].out = q.gates[j].out
               PROVE  i = j
  BY DEF DrivesTwice
<1>8. CASE q.gates[i].type # "buf" /\ q.gates[j].type # "buf"
  BY <1>2, <1>7, <1>8 DEF WiresOwn
<1>9. CASE q.gates[i].type = "buf" /\ q.gates[j].type = "buf"
  <2>1. PICK a \in 1 .. Len(ts) : i = at[a]
    BY <1>2, <1>9 DEF Laid
  <2>2. PICK b \in 1 .. Len(ts) : j = at[b]
    BY <1>2, <1>9 DEF Laid
  <2>3. ts[a].out = ts[b].out
    BY <1>2, <1>7, <2>1, <2>2 DEF Laid
  <2>4. a = b
    BY <1>4, <2>3 DEF Distinct
  <2>. QED BY <2>1, <2>2, <2>4
<1>10. CASE ~(q.gates[i].type = "buf" <=> q.gates[j].type = "buf")
  <2>1. q.gates[i].out \in c.nets /\ q.gates[i].out >= WireBase
    BY <1>5, <1>6, <1>7, <1>10
  <2>. QED BY <1>3, <2>1
<1>. QED BY <1>8, <1>9, <1>10

(* The patch AIG of a patch function.                                      *)
PortsFnLit(f) == FnLit(f.sup, f.on, [p \in f.sup |-> Port(p)])

OnCells(pats, val, sup, on) == {q \in pats : {p \in sup : q \in val[p]} \in on}

LEMMA FnLitMeans ==
  ASSUME NEW pats, NEW val, NEW f, NEW sup, NEW on, f.sup = sup, f.on = on,
         IsFiniteSet(sup), sup \subseteq Int, \A p \in sup : val[p] \subseteq pats
  PROVE  Means(pats, val, sup, PortsFnLit(f), OnCells(pats, val, sup, on))
<1>1. PICK lit : lit = [p \in sup |-> Port(p)]
  OBVIOUS
<1>2. \A p \in sup : Means(pats, val, sup, Port(p), val[p])
  BY MeansLeaf
<1>3. \A p \in sup : Port(p) \in Lits
  BY <1>2 DEF Means
<1>4. lit \in [sup -> Lits] /\ \A p \in sup : Means(pats, val, sup, lit[p], val[p])
  BY <1>1, <1>2, <1>3
<1>5. FnMeans(pats, val, sup, sup, on, lit, val)
  BY <1>4 DEF FnMeans
<1>6. Means(pats, val, sup, FnLit(sup, on, lit), {q \in pats : {p \in sup : q \in val[p]} \in on})
  BY ONLY <1>5, MeansFn
<1>. QED BY <1>1, <1>6 DEF PortsFnLit, OnCells

LEMMA FnLitMeant ==
  ASSUME NEW c, NEW R, NEW f, IsFiniteSet(f.sup), f.sup \subseteq Int,
         \A p \in f.sup : PortValue(c, R, p) \subseteq Patterns(c)
  PROVE  LitValue(c, R, PortsFnLit(f)) = PatchValue(c, R, f) /\ PortsOf(PortsFnLit(f)) \subseteq f.sup
<1>1. PICK sup, on, has : sup = f.sup /\ on = f.on /\ has = [p \in sup |-> PortValue(c, R, p)]
  OBVIOUS
<1>2. \A p \in sup : has[p] = PortValue(c, R, p) /\ has[p] \subseteq Patterns(c)
  BY <1>1
<1>3. PICK X : X = OnCells(Patterns(c), has, sup, on)
  OBVIOUS
<1>4. Means(Patterns(c), has, sup, PortsFnLit(f), OnCells(Patterns(c), has, sup, on))
  BY <1>1, <1>2, FnLitMeans
<1>5. LitValue(c, R, PortsFnLit(f)) = OnCells(Patterns(c), has, sup, on)
  BY <1>2, <1>4, LitMeant
<1>6. \A q : {p \in sup : q \in has[p]} = {p \in sup : q \in PortValue(c, R, p)}
  BY <1>2
<1>7. OnCells(Patterns(c), has, sup, on) = PatchValue(c, R, f)
  BY <1>1, <1>6 DEF PatchValue, OnCells
<1>. QED BY <1>1, <1>4, <1>5, <1>7 DEF Means

(* The ports of the AIG of a function.                                     *)
Cell(sup, X) == [q \in sup |-> IF q \in X THEN {0} ELSE {}]

Tells(sup, on, l, X, v) ==
  /\ l \in Lits /\ PortsOf(l) \subseteq sup /\ Suited({0}, v, l)
  /\ (0 \in TermValue({0}, v, l)) <=> (X \in on)

LEMMA CellTells ==
  ASSUME NEW f, NEW sup, NEW on, f.sup = sup, f.on = on, IsFiniteSet(sup), sup \subseteq Int,
         NEW X, X \subseteq sup, NEW v, v = Cell(sup, X)
  PROVE  Tells(sup, on, PortsFnLit(f), X, v)
<1>1. \A q \in sup : v[q] \subseteq {0} /\ (0 \in v[q] <=> q \in X)
  BY DEF Cell
<1>2. Means({0}, v, sup, PortsFnLit(f), OnCells({0}, v, sup, on))
  BY <1>1, FnLitMeans
<1>3. {q \in sup : 0 \in v[q]} = X
  BY <1>1
<1>4. 0 \in OnCells({0}, v, sup, on) <=> X \in on
  BY <1>3 DEF OnCells
<1>5. Suited({0}, v, PortsFnLit(f))
  BY <1>2, MeansSuited
<1>. QED BY <1>2, <1>4, <1>5 DEF Means, Tells

(* What shannon makes of the ports S, those of ones being 1.               *)
LEMMA SplitTells ==
  ASSUME NEW sup, NEW on, NEW f, NEW S, NEW ones, SplitOfPorts(sup, on, f, S, ones),
         NEW X \in SUBSET S,
         NEW v, v = Cell(sup, X), NEW l, l = f[S][ones]
  PROVE  /\ l \in Lits /\ Suited({0}, v, l)
         /\ (0 \in TermValue({0}, v, l)) <=> (X \union ones \in on)
<1>0. /\ IsFiniteSet(sup) /\ sup \subseteq Int /\ IsSplit(sup, on, PortLits(sup), f)
      /\ S \in SUBSET sup /\ ones \in SUBSET sup
  BY DEF SplitOfPorts
<1>1. PICK lit : lit = PortLits(sup)
  OBVIOUS
<1>2. \A p \in sup : v[p] \subseteq {0} /\ (0 \in v[p] <=> p \in X)
  BY DEF Cell
<1>3. \A p \in sup : Means({0}, v, sup, Port(p), v[p])
  BY <1>0, <1>2, MeansLeaf
<1>4. \A p \in sup : Port(p) \in Lits
  BY <1>3 DEF Means
<1>5. FnMeans({0}, v, sup, sup, on, lit, v)
  BY <1>0, <1>1, <1>2, <1>3, <1>4 DEF FnMeans, PortLits
<1>6. Means({0}, v, sup, l, OnFrom({0}, v, on, S, ones))
  BY <1>0, <1>1, <1>5, MeansSplit
<1>7. {p \in S : 0 \in v[p]} = X
  BY <1>0, <1>2
<1>8. 0 \in OnFrom({0}, v, on, S, ones) <=> X \union ones \in on
  BY <1>7 DEF OnFrom
<1>9. l \in Lits /\ Suited({0}, v, l) /\ TermValue({0}, v, l) = OnFrom({0}, v, on, S, ones)
  <2>1. l \in Lits /\ Suited({0}, v, l)
    BY ONLY <1>6, MeansSuited
  <2>. QED BY <1>6, <2>1 DEF Means
<1>. QED BY <1>8, <1>9

(* What is left of a function after some ports is not constant.            *)
Varies(on, S, ones) == \E X, Y \in SUBSET S : X \union ones \in on /\ Y \union ones \notin on
VariesOn(sup, on, S) == \A ones \in SUBSET (sup \ S) : Varies(on, S, ones)

LEMMA VariesNode ==
  ASSUME NEW sup, NEW on, NEW f, NEW S, NEW ones, SplitOfPorts(sup, on, f, S, ones),
         Varies(on, S, ones)
  PROVE  f[S][ones].node # Zero.node
<1>1. SUFFICES ASSUME f[S][ones].node = Zero.node PROVE FALSE
  OBVIOUS
<1>2. PICK X \in SUBSET S, Y \in SUBSET S : X \union ones \in on /\ Y \union ones \notin on
  BY DEF Varies
<1>3. PICK l, v, w : l = f[S][ones] /\ v = Cell(sup, X) /\ w = Cell(sup, Y)
  OBVIOUS
<1>4. /\ l \in Lits /\ Suited({0}, v, l)
      /\ (0 \in TermValue({0}, v, l)) <=> (X \union ones \in on)
  BY <1>3, SplitTells
<1>5. (0 \in TermValue({0}, w, l)) <=> (Y \union ones \in on)
  BY <1>3, SplitTells
<1>6. PortsOf(l) = {}
  <2>1. l = Lit(Zero.node, l.ph)
    BY <1>1, <1>3, <1>4, LitIs
  <2>2. PortsOf(Lit(Zero.node, l.ph)) = PortsOf(Zero)
    BY LitsMade, PortsAre
  <2>. QED BY <2>1, <2>2, PortsAre
<1>7. TermValue({0}, v, l) = TermValue({0}, w, l)
  BY <1>4, <1>6, TermSame
<1>. QED BY <1>2, <1>4, <1>5, <1>7

LEMMA IdleDropped ==
  ASSUME NEW sup, NEW on, NEW S \in SUBSET sup, VariesOn(sup, on, S),
         NEW p \in S, Idle(sup, on, p)
  PROVE  VariesOn(sup, on, S \ {p})
<1>1. SUFFICES ASSUME NEW ones \in SUBSET (sup \ (S \ {p})) PROVE Varies(on, S \ {p}, ones)
  BY DEF VariesOn
<1>2. PICK less : less = ones \ {p}
  OBVIOUS
<1>3. less \in SUBSET (sup \ S)
  BY <1>1, <1>2
<1>4. PICK X \in SUBSET S, Y \in SUBSET S : X \union less \in on /\ Y \union less \notin on
  BY <1>3 DEF VariesOn, Varies
<1>5. ASSUME NEW Z \in SUBSET S
      PROVE  Z \union less \in on <=> (Z \ {p}) \union ones \in on
  <2>1. PICK cell, more : cell = (Z \ {p}) \union less /\ more = cell \union {p}
    OBVIOUS
  <2>2. cell \in on <=> more \in on
    <3>1. cell \in SUBSET (sup \ {p})
      BY <1>3, <2>1
    <3>. QED BY <2>1, <3>1 DEF Idle
  <2>3. Z \union less \in {cell, more}
    BY <2>1
  <2>4. (Z \ {p}) \union ones \in {cell, more}
    BY <1>2, <2>1
  <2>. QED BY ONLY <2>2, <2>3, <2>4
<1>6. (X \ {p}) \union ones \in on /\ (Y \ {p}) \union ones \notin on
  BY <1>4, <1>5
<1>. QED BY <1>6 DEF Varies

LEMMA IdleFirst ==
  ASSUME NEW sup, NEW on, NEW S, IsFiniteSet(S), S \subseteq Int,
         NEW p \in S, Idle(sup, on, p)
  PROVE  NextPort(sup, on, S) \in S /\ Idle(sup, on, NextPort(sup, on, S))
<1>1. PICK idle : idle = {q \in S : Idle(sup, on, q)}
  OBVIOUS
<1>2. IsFiniteSet(idle) /\ idle \subseteq Int /\ idle # {}
  BY <1>1, FS_Subset
<1>3. Greatest(idle) \in idle
  BY <1>2, GreatestIs
<1>. QED BY <1>1, <1>2, <1>3 DEF NextPort

(* shannon keeps a port that does not matter, as it is split first.        *)
LEMMA IdleKept ==
  ASSUME NEW sup, NEW on, IsFiniteSet(sup), sup \subseteq Int, VariesOn(sup, on, sup),
         NEW f, IsSplit(sup, on, PortLits(sup), f),
         NEW p \in sup, Idle(sup, on, p)
  PROVE  p \in PortsOf(f[sup][{}])
<1>. DEFINE Good(S) == \A ones \in SUBSET (sup \ S) :
              /\ f[S][ones].node # Zero.node
              /\ \A q \in S : Idle(sup, on, q) => q \in PortsOf(f[S][ones])
            G == {S \in SUBSET sup : VariesOn(sup, on, S) => Good(S)}
<1>1. \A S \in SUBSET sup : IsFiniteSet(S) /\ S \subseteq Int
  BY FS_Subset
<1>2. ASSUME NEW S \in SUBSET sup, \A q \in S : S \ {q} \in G PROVE S \in G
  <2>1. SUFFICES ASSUME VariesOn(sup, on, S), NEW ones \in SUBSET (sup \ S)
                 PROVE  /\ f[S][ones].node # Zero.node
                        /\ \A q \in S : Idle(sup, on, q) => q \in PortsOf(f[S][ones])
    OBVIOUS
  <2>2. CASE \A q \in S : ~Idle(sup, on, q)
    <3>1. SplitOfPorts(sup, on, f, S, ones) /\ Varies(on, S, ones)
      BY <2>1 DEF VariesOn, SplitOfPorts
    <3>. QED BY <2>2, <3>1, VariesNode
  <2>3. CASE \E q \in S : Idle(sup, on, q)
    <3>1. PICK r : r = NextPort(sup, on, S)
      OBVIOUS
    <3>2. r \in S /\ r \in sup /\ Idle(sup, on, r)
      BY <1>1, <2>3, <3>1, IdleFirst
    <3>3. PICK L, a, b : L = S \ {r} /\ a = f[L][ones \union {r}] /\ b = f[L][ones]
      OBVIOUS
    <3>4. L \in SUBSET sup /\ VariesOn(sup, on, L) /\ L \in G
      BY <1>2, <2>1, <3>2, <3>3, IdleDropped
    <3>5. Good(L)
      <4>. HIDE DEF Good
      <4>. QED BY <3>4
    <3>6. ones \union {r} \in SUBSET (sup \ L) /\ ones \in SUBSET (sup \ L)
      BY <3>2, <3>3
    <3>7. /\ a.node # Zero.node /\ b.node # Zero.node
          /\ \A q \in L : Idle(sup, on, q) => q \in PortsOf(b)
      BY <3>3, <3>5, <3>6
    <3>8. a \in Lits /\ b \in Lits /\ r \notin PortsOf(a) /\ r \notin PortsOf(b)
      <4>1. SplitOfPorts(sup, on, f, L, ones \union {r}) /\ SplitOfPorts(sup, on, f, L, ones)
        BY <3>4, <3>6 DEF SplitOfPorts
      <4>2. /\ f[L][ones \union {r}] \in Lits /\ PortsOf(f[L][ones \union {r}]) \subseteq L
            /\ f[L][ones] \in Lits /\ PortsOf(f[L][ones]) \subseteq L
        BY ONLY <4>1, SplitPorts
      <4>. QED BY <3>3, <4>2
    <3>9. f[S][ones] = Mux(Port(r), a, b)
      <4>1. f[S][ones] = Split(sup, on, PortLits(sup), f, S, ones)
        BY DEF IsSplit
      <4>. QED BY <2>3, <3>1, <3>2, <3>3, <4>1 DEF Split, PortLits
    <3>10. /\ Mux(Port(r), a, b).node # Zero.node
           /\ PortsOf(Mux(Port(r), a, b)) = {r} \union PortsOf(a) \union PortsOf(b)
      <4>1. r \in Int
        BY <1>1, <3>2
      <4>. QED BY ONLY <3>7, <3>8, <4>1, MuxKept
    <3>. QED BY <3>3, <3>7, <3>9, <3>10
  <2>. QED BY <2>2, <2>3
<1>3. sup \in G
  <2>. HIDE DEF G
  <2>. QED BY <1>2, SubsetsAll
<1>4. Good(sup)
  <2>. HIDE DEF Good
  <2>. QED BY <1>3
<1>. QED BY <1>4

(* A function that is not constant has all its ports in its AIG: those     *)
(* that matter, as its value depends on them, and those that do not.       *)
LEMMA FnLitPorts ==
  ASSUME NEW f, IsFiniteSet(f.sup), f.sup \subseteq Int, f.on \subseteq SUBSET f.sup,
         IsConstant(f) => f.sup = {}
  PROVE  PortsOf(PortsFnLit(f)) = f.sup
<1>1. PICK sup, on, l : sup = f.sup /\ on = f.on /\ l = PortsFnLit(f)
  OBVIOUS
<1>2. ASSUME NEW X, X \subseteq sup, NEW v, v = Cell(sup, X) PROVE Tells(sup, on, l, X, v)
  BY <1>1, <1>2, CellTells
<1>3. ASSUME NEW p \in sup, ~Idle(sup, on, p), p \notin PortsOf(l) PROVE FALSE
  <2>1. PICK X \in SUBSET (sup \ {p}) : ~(X \in on <=> (X \union {p}) \in on)
    BY <1>3 DEF Idle
  <2>2. PICK Y, v, w : Y = X \union {p} /\ v = Cell(sup, X) /\ w = Cell(sup, Y)
    OBVIOUS
  <2>3. X \subseteq sup /\ Y \subseteq sup
    BY <1>3, <2>2
  <2>4. Tells(sup, on, l, X, v) /\ Tells(sup, on, l, Y, w)
    BY <1>2, <2>2, <2>3
  <2>5. ASSUME NEW q \in PortsOf(l) PROVE v[q] = w[q]
    <3>1. q \in sup /\ q # p
      BY <1>3, <2>4, <2>5 DEF Tells
    <3>. QED BY <2>2, <3>1 DEF Cell
  <2>6. l \in Lits /\ Suited({0}, v, l)
    BY <2>4 DEF Tells
  <2>7. TermValue({0}, v, l) = TermValue({0}, w, l)
    BY <2>5, <2>6, TermSame
  <2>8. (X \in on) <=> (Y \in on)
    BY <2>4, <2>7 DEF Tells
  <2>. QED BY <2>1, <2>2, <2>8
<1>4. PortsOf(l) \subseteq sup
  <2>1. Tells(sup, on, l, {}, Cell(sup, {}))
    BY <1>2
  <2>. QED BY <2>1 DEF Tells
<1>5. ASSUME NEW p \in sup, Idle(sup, on, p) PROVE p \in PortsOf(l)
  <2>1. PICK lit : lit = PortLits(sup)
    OBVIOUS
  <2>2. FnLits(sup, on, lit)
    BY <1>1, <2>1, LitsMade DEF FnLits, PortLits
  <2>3. PICK g : IsSplit(sup, on, lit, g) /\ FnLit(sup, on, lit) = g[sup][{}]
    BY <2>2, SplitIs
  <2>4. VariesOn(sup, on, sup)
    <3>1. on # {} /\ on # SUBSET sup /\ on \subseteq SUBSET sup
      BY <1>1, <1>5 DEF IsConstant
    <3>2. PICK X \in SUBSET sup, Y \in SUBSET sup : X \in on /\ Y \notin on
      BY <3>1
    <3>3. X \union {} = X /\ Y \union {} = Y
      OBVIOUS
    <3>4. \A ones \in SUBSET (sup \ sup) : ones = {}
      OBVIOUS
    <3>. QED BY <3>2, <3>3, <3>4 DEF VariesOn, Varies
  <2>5. p \in PortsOf(g[sup][{}])
    BY <1>1, <1>5, <2>1, <2>3, <2>4, IdleKept
  <2>. QED BY <1>1, <2>1, <2>3, <2>5 DEF PortsFnLit, PortLits
<1>6. PortsOf(l) = sup
  BY <1>3, <1>4, <1>5
<1>. QED BY <1>1, <1>6

(* Fixes as targets: each has the AIG of its function.                     *)
FixOf(c, f, t, l) ==
  /\ l = PortsFnLit(f) /\ PortsOf(l) = f.sup
  /\ IsFiniteSet(f.sup) /\ f.sup \subseteq c.nets \union {-t}

Fixing(c, fns, ts) ==
  /\ IsWhole(c) /\ c.nets \subseteq Nat /\ PatchesOK(c, fns)
  /\ IsTargets(c, ts) /\ Distinct(ts) /\ TargetNets(ts) = DOMAIN fns
  /\ \A k \in DOMAIN ts : FixOf(c, fns[ts[k].out], ts[k].out, ts[k].lit)

(* The nets that evalInto gave a value.                                    *)
SettledNets(c, vals) == {n \in NetsOf(c) : vals[n] # Unset}
SettledPart(c, vals) == [n \in SettledNets(c, vals) |-> vals[n]]

LEMMA PartPort ==
  ASSUME NEW c, IsWhole(c), NEW vals, vals \in [NetsOf(c) -> Values(c)],
         NEW R, R = SettledPart(c, vals), NEW p \in Int, p \in c.nets \/ -p \in c.nets,
         PortKnown(c, R, p)
  PROVE  PortValue(c, R, p) = PortValue(c, vals, p) /\ PortValue(c, R, p) \subseteq Patterns(c)
<1>1. DOMAIN R = SettledNets(c, vals) /\ \A n \in SettledNets(c, vals) : R[n] = vals[n]
  BY DEF SettledPart
<1>2. \A n \in SettledNets(c, vals) : vals[n] \subseteq Patterns(c)
  BY DEF SettledNets, Values
<1>3. c.nets \subseteq Nat /\ IsCircuit(c)
  BY DEF IsWhole, IsCircuit
<1>4. CASE p > 0
  BY <1>1, <1>2, <1>4 DEF PortKnown, PortValue
<1>5. CASE ~(p > 0) /\ -p \in Inputs(c)
  BY <1>3, <1>5 DEF PortValue, IsCircuit
<1>6. CASE ~(p > 0) /\ -p \notin Inputs(c)
  <2>1. -p \in Driven(c) /\ Ins(c, -p) \subseteq DOMAIN R
    BY <1>3, <1>6 DEF PortKnown, IsWhole, IsCircuit
  <2>2. \A i \in DOMAIN c.gate[-p].ins : R[c.gate[-p].ins[i]] = vals[c.gate[-p].ins[i]]
    BY <1>1, <2>1 DEF Ins
  <2>3. c.gate[-p].type \in GateTypes
    BY <1>3, <2>1 DEF IsCircuit
  <2>4. [i \in DOMAIN c.gate[-p].ins |-> R[c.gate[-p].ins[i]]]
          = [i \in DOMAIN c.gate[-p].ins |-> vals[c.gate[-p].ins[i]]]
    BY <2>2
  <2>. QED BY <1>6, <2>3, <2>4, GateFnTyped DEF PortValue
<1>. QED BY <1>4, <1>5, <1>6

LEMMA KnownReads ==
  ASSUME NEW c, NEW fns, NEW ts, Fixing(c, fns, ts), NEW vals, NEW R, R = SettledPart(c, vals),
         NEW t \in DOMAIN fns
  PROVE  (\A p \in fns[t].sup : PortKnown(c, R, p)) <=> \A m \in Reads(c, fns, t) : vals[m] # Unset
<1>1. DOMAIN R = SettledNets(c, vals)
  BY DEF SettledPart
<1>2. IsCircuit(c) /\ PatchesOK(c, fns)
  BY DEF Fixing, IsWhole
<1>3. t \in c.nets /\ Reads(c, fns, t) \subseteq NetsOf(c)
  BY <1>2, ReadsTyped
<1>4. \A m \in Reads(c, fns, t) : m \in DOMAIN R <=> vals[m] # Unset
  BY <1>1, <1>3 DEF SettledNets
<1>. DEFINE of(p) == IF p > 0 THEN {p} ELSE IF -p \in Inputs(c) THEN {} ELSE Ins(c, -p)
<1>5. \A p \in fns[t].sup : PortKnown(c, R, p) <=> of(p) \subseteq DOMAIN R
  BY DEF PortKnown
<1>6. Reads(c, fns, t) = UNION {of(p) : p \in fns[t].sup}
  BY DEF Reads
<1>. HIDE DEF of
<1>7. (\A p \in fns[t].sup : PortKnown(c, R, p)) <=> Reads(c, fns, t) \subseteq DOMAIN R
  BY <1>5, <1>6
<1>. QED BY <1>4, <1>7

LEMMA FixExplained ==
  ASSUME NEW c, NEW fns, NEW ts, Fixing(c, fns, ts), NEW vals, IsEvaluated(c, fns, vals),
         NEW R, R = SettledPart(c, vals), NEW k \in DOMAIN ts
  PROVE  LitExplained(c, R, ts[k].out, ts[k].lit)
<1>1. PICK t, f, l : t = ts[k].out /\ f = fns[t] /\ l = ts[k].lit
  OBVIOUS
<1>2. t \in DOMAIN fns /\ FixOf(c, f, t, l)
  BY <1>1 DEF Fixing, TargetNets
<1>3. IsWhole(c) /\ c.nets \subseteq Nat /\ PatchesOK(c, fns) /\ t \in c.nets
  BY <1>2 DEF Fixing, PatchesOK
<1>4. l = PortsFnLit(f) /\ PortsOf(l) = f.sup /\ IsFiniteSet(f.sup) /\ f.sup \subseteq c.nets \union {-t}
  BY <1>2 DEF FixOf
<1>5. SUFFICES ASSUME \A p \in f.sup : PortKnown(c, R, p)
               PROVE  t \in DOMAIN R /\ R[t] = LitValue(c, R, l)
  BY <1>1, <1>4 DEF LitExplained
<1>6. vals \in [NetsOf(c) -> Values(c)]
  BY DEF IsEvaluated
<1>7. ASSUME NEW p \in f.sup
      PROVE  p \in Int /\ PortValue(c, R, p) = PortValue(c, vals, p) /\ PortValue(c, R, p) \subseteq Patterns(c)
  <2>1. p \in Int /\ (p \in c.nets \/ -p \in c.nets)
    BY <1>3, <1>4, <1>7
  <2>. QED BY <1>3, <1>5, <1>6, <2>1, PartPort
<1>8. LitValue(c, R, l) = PatchValue(c, R, f)
  BY <1>4, <1>7, FnLitMeant
<1>9. PatchValue(c, R, f) = PatchValue(c, vals, f)
  <2>1. \A q : {p \in f.sup : q \in PortValue(c, R, p)} = {p \in f.sup : q \in PortValue(c, vals, p)}
    BY <1>7
  <2>. QED BY <2>1 DEF PatchValue
<1>10. \A m \in Reads(c, fns, t) : vals[m] # Unset
  BY <1>1, <1>2, <1>5, KnownReads
<1>11. vals[t] # Unset /\ vals[t] = NetValue(c, fns, vals, t)
  BY <1>2, <1>10 DEF IsEvaluated
<1>12. vals[t] = PatchValue(c, vals, f)
  BY <1>1, <1>2, <1>11 DEF NetValue
<1>13. t \in DOMAIN R /\ R[t] = vals[t]
  BY <1>3, <1>11 DEF SettledPart, SettledNets, NetsOf
<1>. QED BY <1>8, <1>9, <1>12, <1>13

LEMMA FixesExplained ==
  ASSUME NEW c, NEW fns, NEW ts, Fixing(c, fns, ts), NEW vals, IsEvaluated(c, fns, vals),
         NEW R, R = SettledPart(c, vals)
  PROVE  Explains(c, ts, R) /\ PortsFit(c, ts)
<1>1. /\ IsWhole(c) /\ c.nets \subseteq Nat /\ PatchesOK(c, fns) /\ TargetNets(ts) = DOMAIN fns
      /\ IsCircuit(c)
  BY DEF Fixing, IsWhole
<1>2. \A n \in {0, 1} : n \in DOMAIN R /\ R[n] = Const(c, n)
  <2>1. \A n \in {0, 1} : vals[n] = Const(c, n) /\ Const(c, n) \subseteq Patterns(c)
    BY DEF IsEvaluated, Const
  <2>2. \A n \in {0, 1} : vals[n] # Unset
    BY <1>1, <2>1, IsValue
  <2>. QED BY <2>1, <2>2 DEF SettledPart, SettledNets, NetsOf
<1>3. ASSUME NEW n \in c.nets \ TargetNets(ts), PortKnown(c, R, -n)
      PROVE  n \in DOMAIN R /\ R[n] = PortValue(c, R, -n)
  <2>1. vals \in [NetsOf(c) -> Values(c)] /\ -n \in Int /\ -(-n) = n
    BY <1>1, <1>3 DEF IsEvaluated
  <2>2. PortValue(c, R, -n) = PortValue(c, vals, -n) /\ n \notin DOMAIN fns /\ ~(-n > 0)
    BY <1>1, <1>3, <2>1, PartPort
  <2>3. vals[n] # Unset /\ vals[n] = PortValue(c, vals, -n)
    <3>1. CASE n \in Inputs(c)
      <4>1. vals[n] = c.pis[n] /\ c.pis[n] \subseteq Patterns(c)
        BY <1>1, <2>2, <3>1 DEF IsEvaluated, IsCircuit
      <4>. QED BY <1>1, <2>1, <2>2, <3>1, <4>1, IsValue DEF PortValue
    <3>2. CASE n \notin Inputs(c)
      <4>1. n \in Driven(c) /\ Ins(c, n) \subseteq DOMAIN R
        BY <1>1, <1>3, <2>1, <2>2, <3>2 DEF IsWhole, PortKnown
      <4>2. \A m \in Reads(c, fns, n) : vals[m] # Unset
        BY <2>2, <4>1 DEF Reads, SettledPart, SettledNets
      <4>3. vals[n] # Unset /\ vals[n] = NetValue(c, fns, vals, n)
        BY <4>1, <4>2 DEF IsEvaluated
      <4>. QED BY <2>1, <2>2, <3>2, <4>3 DEF NetValue, PortValue
    <3>. QED BY <3>1, <3>2
  <2>4. n \in DOMAIN R /\ R[n] = vals[n]
    BY <2>3 DEF SettledPart, SettledNets, NetsOf
  <2>. QED BY <2>2, <2>3, <2>4
<1>4. \A o, k : LastFor(ts, o, k) => LitExplained(c, R, o, ts[k].lit)
  BY FixExplained DEF LastFor
<1>5. ASSUME NEW k \in DOMAIN ts, NEW p \in PortsOf(ts[k].lit)
      PROVE  p \in c.nets \/ -p \in TargetNets(ts)
  <2>1. ts[k].out \in TargetNets(ts) /\ ts[k].out \in c.nets
    BY <1>1 DEF TargetNets, PatchesOK
  <2>2. p \in c.nets \/ p = -ts[k].out
    BY <1>5 DEF Fixing, FixOf
  <2>3. -(-ts[k].out) = ts[k].out
    BY <1>1, <2>1
  <2>. QED BY <2>1, <2>2, <2>3
<1>. QED BY <1>2, <1>3, <1>4, <1>5 DEF Explains, NetExplained, PortsFit

LEMMA FixesGrounded ==
  ASSUME NEW c, NEW fns, NEW ts, Fixing(c, fns, ts), NEW vals, IsEvaluated(c, fns, vals),
         NEW S, S = {n \in c.nets : vals[n] # Unset}
  PROVE  \E h : Grounded(c, ts, S, h)
<1>1. /\ IsWhole(c) /\ c.nets \subseteq Nat /\ PatchesOK(c, fns) /\ TargetNets(ts) = DOMAIN fns
      /\ IsCircuit(c)
  BY DEF Fixing, IsWhole
<1>2. PICK b \in Nat : \E rank \in [NetsOf(c) -> 0 .. b] :
        \A n \in DOMAIN fns \union Driven(c) : vals[n] # Unset => \A m \in Reads(c, fns, n) : rank[m] < rank[n]
  BY DEF IsEvaluated
<1>2a. PICK rank \in [NetsOf(c) -> 0 .. b] :
        \A n \in DOMAIN fns \union Driven(c) : vals[n] # Unset => \A m \in Reads(c, fns, n) : rank[m] < rank[n]
  BY <1>2
<1>3. PICK h : h = [n \in S |-> rank[n]]
  OBVIOUS
<1>4. S \subseteq c.nets /\ h \in [S -> Nat]
  BY <1>2a, <1>3 DEF NetsOf
<1>5. ASSUME NEW n \in S, n \in DOMAIN fns \union Driven(c), NEW m \in Reads(c, fns, n) \ {0, 1}
      PROVE  m \in S /\ h[m] < h[n]
  <2>1. vals[m] # Unset /\ rank[m] < rank[n] /\ m \in NetsOf(c)
    BY <1>2a, <1>1, <1>5, ReadsTyped DEF IsEvaluated
  <2>2. m \in S
    BY <1>5, <2>1 DEF NetsOf
  <2>. QED BY <1>3, <1>5, <2>1, <2>2
<1>6. ASSUME NEW n \in S \ TargetNets(ts)
      PROVE  Below(c, S, h, n, h[n])
  <2>1. n \in Inputs(c) \/ (n \in Driven(c) /\ Reads(c, fns, n) = Ins(c, n))
    BY <1>1, <1>4, <1>6 DEF IsWhole, Reads
  <2>. QED BY <1>5, <1>6, <2>1 DEF Below
<1>7. ASSUME NEW n \in S, NEW k \in DOMAIN ts, LastFor(ts, n, k), NEW p \in PortsOf(ts[k].lit)
      PROVE  \/ p \in S /\ h[p] < h[n]
             \/ -p \in TargetNets(ts) /\ Below(c, S, h, -p, h[n])
  <2>1. n = ts[k].out /\ n \in DOMAIN fns /\ n \in c.nets /\ n \in Nat
    BY <1>1, <1>4, <1>7 DEF LastFor, TargetNets
  <2>2. FixOf(c, fns[n], n, ts[k].lit)
    BY <2>1 DEF Fixing
  <2>3. p \in fns[n].sup /\ (p \in c.nets \/ p = -n)
    BY <1>7, <2>2 DEF FixOf
  <2>4. CASE p \in c.nets
    <3>1. p > 0 /\ p \notin {0, 1}
      BY <1>1, <2>4 DEF IsCircuit
    <3>2. p \in Reads(c, fns, n)
      BY <2>1, <2>3, <3>1 DEF Reads
    <3>. QED BY <1>5, <2>1, <3>1, <3>2
  <2>5. CASE p \notin c.nets /\ p = -n
    <3>1. -p = n /\ ~(p > 0)
      BY <2>1, <2>5
    <3>2. n \in Inputs(c) \/ Ins(c, n) \subseteq Reads(c, fns, n)
      BY <2>1, <2>3, <3>1 DEF Reads
    <3>3. Below(c, S, h, n, h[n])
      BY <1>5, <2>1, <3>2 DEF Below
    <3>. QED BY <1>1, <2>1, <3>1, <3>3
  <2>. QED BY <2>3, <2>4, <2>5
<1>. QED BY <1>4, <1>6, <1>7 DEF Grounded

(* The fixes, emitted as a patch, drive nothing twice and give every net   *)
(* the value that evalInto gave it, or none.                               *)
LEMMA FixesSame ==
  ASSUME NEW c, NEW fns, NEW ts, Fixing(c, fns, ts), Fresh(c), ts # <<>>,
         NEW vals, vals = Evaluate(c, fns), NEW q, q = CandidatePatch(c, ts),
         NEW v, v = EvalPatched(c, q)
  PROVE  /\ ~DrivesTwice(q)
         /\ \A n \in c.nets : vals[n] = IF Net(n) \in DOMAIN v THEN v[Net(n)] ELSE Unset
<1>1. IsWhole(c) /\ IsCircuit(c) /\ PatchesOK(c, fns) /\ IsTargets(c, ts) /\ Distinct(ts)
  BY DEF Fixing, IsWhole
<1>2. IsEvaluated(c, fns, vals)
  BY <1>1, EvaluateEvaluates
<1>3. PICK R, S : R = SettledPart(c, vals) /\ S = {n \in c.nets : vals[n] # Unset}
  OBVIOUS
<1>4. Explains(c, ts, R) /\ PortsFit(c, ts)
  BY <1>2, <1>3, FixesExplained
<1>5. PICK h : Grounded(c, ts, S, h)
  BY <1>2, <1>3, FixesGrounded
<1>6. ~DrivesTwice(q)
  <2>1. Patching(c, ts, q)
    BY <1>1, <1>4, CandidatePatching
  <2>. QED BY <1>1, <2>1, DrivesOnce
<1>7. \A n \in c.nets : Kept(v, R, n)
  BY <1>1, <1>4, CandidateSound
<1>8. \A n \in S : Net(n) \in DOMAIN v
  BY <1>1, <1>4, <1>5, CandidateDefined
<1>9. ASSUME NEW n \in c.nets
      PROVE  vals[n] = IF Net(n) \in DOMAIN v THEN v[Net(n)] ELSE Unset
  <2>1. CASE Net(n) \in DOMAIN v
    <3>1. n \in DOMAIN R /\ v[Net(n)] = R[n]
      BY <1>7, <1>9, <2>1 DEF Kept
    <3>. QED BY <1>3, <2>1, <3>1 DEF SettledPart
  <2>2. CASE Net(n) \notin DOMAIN v
    BY <1>3, <1>8, <1>9, <2>2
  <2>. QED BY <2>1, <2>2
<1>. QED BY <1>6, <1>9

LEMMA FixesFixing ==
  ASSUME TrajInv, FixesMatch, NEW ts, ts = FixTargets(fixes)
  PROVE  Fixing(circ, drv, ts)
<1>1. circ \in Circuits /\ DrvTyped
  BY DEF TrajInv
<1>2. /\ circ.nets \subseteq Nat \ {0, 1} /\ IsCircuit(circ)
      /\ circ.nets \subseteq Inputs(circ) \union Driven(circ)
  BY <1>1, CircuitFacts
<1>3. FixesTyped(circ, fixes) /\ PatchesOK(circ, drv)
  BY FixesAreTyped
<1>4. /\ IsTargets(circ, ts) /\ DOMAIN ts = DOMAIN fixes
      /\ \A i \in DOMAIN fixes :
           /\ ts[i].out = fixes[i].target
           /\ ts[i].lit = FnLit(fixes[i].fn.sup, fixes[i].fn.on, [p \in fixes[i].fn.sup |-> Port(p)])
  BY <1>3, FixTargetsAre
<1>5. Distinct(ts) /\ TargetNets(ts) = DOMAIN drv
  <2>1. DOMAIN ts = DOMAIN fixes /\ \A i \in DOMAIN fixes : ts[i].out = fixes[i].target
    BY <1>4
  <2>2. /\ \A i, j \in DOMAIN fixes : fixes[i].target = fixes[j].target => i = j
        /\ DOMAIN drv = {fixes[i].target : i \in DOMAIN fixes}
    BY DEF FixesMatch, Targets
  <2>. QED BY ONLY <2>1, <2>2 DEF Distinct, TargetNets
<1>6. ASSUME NEW k \in DOMAIN ts
      PROVE  FixOf(circ, drv[ts[k].out], ts[k].out, ts[k].lit)
  <2>1. PICK t, f : t = ts[k].out /\ f = drv[t]
    OBVIOUS
  <2>2. t \in DOMAIN drv /\ f = fixes[k].fn
    BY <1>4, <1>5, <1>6, <2>1 DEF FixesMatch, TargetNets
  <2>3. ts[k].lit = PortsFnLit(f)
    BY <1>4, <1>6, <2>2 DEF PortsFnLit
  <2>4. IsFn(t, f) /\ t \in Nat
    BY <1>1, <1>2, <2>1, <2>2 DEF DrvTyped
  <2>5. /\ f.sup \subseteq Int /\ IsFiniteSet(f.sup) /\ f.on \subseteq SUBSET f.sup
        /\ IsConstant(f) => f.sup = {}
    BY <1>2, <2>4 DEF IsFn
  <2>6. PortsOf(PortsFnLit(f)) = f.sup
    BY <2>5, FnLitPorts
  <2>. QED BY <2>1, <2>3, <2>4, <2>6 DEF FixOf, IsFn
<1>. QED BY <1>2, <1>3, <1>4, <1>5, <1>6 DEF Fixing, IsWhole

LEMMA FixesNow ==
  ASSUME OriginInv, NEW x \in patches, x.from = "R", result, WiresFresh
  PROVE  /\ ~DrivesTwice(x.patch)
         /\ \A n \in circ.nets :
              cur[n] = IF Net(n) \in DOMAIN Val(x.patch) THEN Val(x.patch)[Net(n)] ELSE Unset
<1>1. phase = "verify" /\ FromTargets(x, RectifierTargets)
  BY DEF OriginInv, Origin
<1>2. TrajInv /\ FixesMatch /\ circ \in Circuits /\ cur = Evaluate(circ, drv)
  BY <1>1 DEF OriginInv, TrajInv
<1>3. PICK ts, v : ts = FixTargets(fixes) /\ v = Val(x.patch)
  OBVIOUS
<1>4. ts # <<>> /\ x.patch = CandidatePatch(circ, ts) /\ v = EvalPatched(circ, x.patch)
  BY <1>1, <1>3 DEF FromTargets, RectifierTargets, Val
<1>5. Fixing(circ, drv, ts) /\ Fresh(circ)
  BY <1>2, <1>3, FixesFixing, FreshNow
<1>6. /\ ~DrivesTwice(x.patch)
      /\ \A n \in circ.nets : cur[n] = IF Net(n) \in DOMAIN v THEN v[Net(n)] ELSE Unset
  BY <1>2, <1>4, <1>5, FixesSame
<1>. QED BY <1>3, <1>6

(* For all circuits, and any number of fixes: what is emitted for them is  *)
(* the circuit that the Rectifier evaluated.                               *)
THEOREM FixesCorrect == TrajSpec => []FixesAsEvaluated
<1>1. OriginInv => FixesAsEvaluated
  <2>. SUFFICES ASSUME OriginInv PROVE FixesAsEvaluated
    OBVIOUS
  <2>. QED BY FixesNow DEF FixesAsEvaluated
<1>. QED BY <1>1, AlwaysOrigin, PTL

-----------------------------------------------------------------------------
(* Variant B: with the wires of G1 that R2 shares as cut points.           *)

(* The circuit in which the outputs of fails have their R2 functions.      *)
Given(c, fns, fails, R) ==
  /\ R \in [NetsOf(c) -> Values(c)] /\ \A n \in NetsOf(c) : R[n] # Unset
  /\ R[0] = Const(c, 0) /\ R[1] = Const(c, 1) /\ \A n \in fails : R[n] = c.spec[n]
  /\ \A n \in Inputs(c) \ (DOMAIN fns \union fails) : R[n] = c.pis[n]
  /\ \A n \in (DOMAIN fns \union Driven(c)) \ fails : R[n] = NetValue(c, fns, R, n)

LEMMA GivenSettles ==
  ASSUME NEW c, NEW fns, NEW old, Whole(c, fns, old), NEW fails, fails \subseteq c.nets,
         \A o \in fails : c.spec[o] \subseteq Patterns(c),
         NEW R, R = Settle(c, fns, GivenSpec(c, fns, fails))
  PROVE  Given(c, fns, fails, R)
<1>1. /\ IsCircuit(c) /\ PatchesOK(c, fns) /\ 0 \notin c.nets /\ 1 \notin c.nets
      /\ c.nets \subseteq Inputs(c) \union DOMAIN fns \union Driven(c) /\ DOMAIN fns \subseteq c.nets
      /\ Driven(c) \subseteq c.nets \ Inputs(c) /\ Inputs(c) \subseteq c.nets
  BY WholeValues DEF Whole, IsCircuit, PatchesOK
<1>2. PICK start : start = GivenSpec(c, fns, fails)
  OBVIOUS
<1>3. /\ DOMAIN start = NetsOf(c) /\ start = [n \in NetsOf(c) |-> start[n]]
      /\ start[0] = Const(c, 0) /\ start[1] = Const(c, 1) /\ \A n \in fails : start[n] = c.spec[n]
      /\ \A n \in Inputs(c) \ (DOMAIN fns \union fails) : start[n] = c.pis[n]
      /\ \A n \in (DOMAIN fns \union Driven(c)) \ fails : start[n] = Unset
  BY <1>1, <1>2 DEF GivenSpec, NetsOf
<1>4. ASSUME NEW n \in NetsOf(c)
      PROVE  start[n] \in Values(c) /\ (n \notin (DOMAIN fns \union Driven(c)) \ fails => start[n] # Unset)
  <2>1. CASE n \in (DOMAIN fns \union Driven(c)) \ fails
    BY <1>3, <2>1 DEF Values
  <2>2. CASE n \notin (DOMAIN fns \union Driven(c)) \ fails
    <3>1. start[n] \subseteq Patterns(c)
      BY <1>1, <1>3, <1>4, <2>2 DEF NetsOf, Const, IsCircuit
    <3>. QED BY <1>1, <2>2, <3>1, IsValue
  <2>. QED BY <2>1, <2>2
<1>5. CanSettle(c, fns, start)
  <2>1. start \in [NetsOf(c) -> Values(c)]
    BY <1>3, <1>4
  <2>2. start[0] # Unset /\ start[1] # Unset
    BY <1>1, <1>4 DEF NetsOf
  <2>. QED BY <1>1, <2>1, <2>2 DEF CanSettle
<1>6. IsSettled(c, fns, start, R)
  BY <1>2, <1>5, SettleSettles
<1>7. /\ R \in [NetsOf(c) -> Values(c)] /\ \A n \in NetsOf(c) : start[n] # Unset => R[n] = start[n]
      /\ \A n \in NetsOf(c) : start[n] = Unset /\ R[n] # Unset => R[n] = NetValue(c, fns, R, n)
      /\ \A n \in c.nets : ~Ready(c, fns, R, n)
  BY <1>6 DEF IsSettled, Partly, Ranked
<1>8. ASSUME NEW n \in NetsOf(c), R[n] = Unset PROVE FALSE
  <2>1. PICK X : X = {m \in NetsOf(c) : R[m] = Unset}
    OBVIOUS
  <2>2. PICK b \in Nat : \E rank \in [NetsOf(c) -> 0 .. b] :
          \A k \in DOMAIN fns \union Driven(c) : \A m \in Reads(c, fns, k) : rank[m] < rank[k]
    BY WholeValues
  <2>3. PICK rank \in [NetsOf(c) -> 0 .. b] :
          \A k \in DOMAIN fns \union Driven(c) : \A m \in Reads(c, fns, k) : rank[m] < rank[k]
    BY <2>2
  <2>4. PICK k \in X : \A m \in X : rank[k] <= rank[m]
    BY <1>8, <2>1, Lowest
  <2>5. k \in NetsOf(c) /\ k \in DOMAIN fns \union Driven(c)
    BY <1>4, <1>7, <2>1, <2>4
  <2>6. Reads(c, fns, k) \subseteq NetsOf(c) /\ k \in c.nets
    BY <1>1, <2>5, ReadsTyped
  <2>7. ASSUME NEW m \in Reads(c, fns, k) PROVE R[m] # Unset
    <3>1. m \in NetsOf(c) /\ rank[m] < rank[k]
      BY <2>3, <2>5, <2>6, <2>7
    <3>2. rank[m] \in Int /\ rank[k] \in Int
      BY <2>3, <2>5, <3>1
    <3>3. m \notin X
      BY <2>4, <3>1, <3>2
    <3>. QED BY <2>1, <3>1, <3>3
  <2>8. Ready(c, fns, R, k)
    BY <2>1, <2>4, <2>5, <2>7 DEF Ready
  <2>. QED BY <1>7, <2>6, <2>8
<1>9. \A n \in (DOMAIN fns \union Driven(c)) \ fails : R[n] = NetValue(c, fns, R, n)
  BY <1>1, <1>3, <1>7, <1>8 DEF NetsOf
<1>10. \A n \in NetsOf(c) \ ((DOMAIN fns \union Driven(c)) \ fails) : R[n] = start[n]
  BY <1>4, <1>7
<1>11. R[0] = Const(c, 0) /\ R[1] = Const(c, 1)
  BY <1>1, <1>3, <1>10 DEF NetsOf
<1>12. \A n \in fails : R[n] = c.spec[n]
  BY <1>1, <1>3, <1>10 DEF NetsOf
<1>13. \A n \in Inputs(c) \ (DOMAIN fns \union fails) : R[n] = c.pis[n]
  BY <1>1, <1>3, <1>10 DEF NetsOf
<1>. QED BY <1>7, <1>8, <1>9, <1>11, <1>12, <1>13 DEF Given

(* What is not downstream of fails keeps its value.                        *)
LEMMA GivenOutside ==
  ASSUME NEW c, NEW fns, NEW old, Whole(c, fns, old), NEW fails, NEW R, Given(c, fns, fails, R),
         NEW D, fails \subseteq D, \A m \in D : \A k \in c.nets : m \in Reads(c, fns, k) => k \in D,
         NEW n \in NetsOf(c) \ D
  PROVE  R[n] = old[n]
<1>1. /\ IsCircuit(c) /\ PatchesOK(c, fns)
      /\ c.nets \subseteq Inputs(c) \union DOMAIN fns \union Driven(c) /\ DOMAIN fns \subseteq c.nets
  BY WholeValues DEF Whole, PatchesOK
<1>2. /\ old[0] = Const(c, 0) /\ old[1] = Const(c, 1)
      /\ \A k \in Inputs(c) \ DOMAIN fns : old[k] = c.pis[k]
      /\ \A k \in DOMAIN fns \union Driven(c) : old[k] = NetValue(c, fns, old, k)
  BY WholeValues
<1>3. PICK b \in Nat : \E rank \in [NetsOf(c) -> 0 .. b] :
        \A k \in DOMAIN fns \union Driven(c) : \A m \in Reads(c, fns, k) : rank[m] < rank[k]
  BY WholeValues
<1>4. PICK rank \in [NetsOf(c) -> 0 .. b] :
        \A k \in DOMAIN fns \union Driven(c) : \A m \in Reads(c, fns, k) : rank[m] < rank[k]
  BY <1>3
<1>5. SUFFICES ASSUME R[n] # old[n] PROVE FALSE
  OBVIOUS
<1>6. PICK X : X = {m \in NetsOf(c) \ D : R[m] # old[m]}
  OBVIOUS
<1>7. X \subseteq NetsOf(c) /\ n \in X
  BY <1>5, <1>6
<1>8. PICK k \in X : \A m \in X : rank[k] <= rank[m]
  BY <1>7, Lowest
<1>9. k \in NetsOf(c) /\ k \notin D /\ R[k] # old[k]
  BY <1>6, <1>8
<1>10. CASE k \in DOMAIN fns \union Driven(c)
  <2>1. R[k] = NetValue(c, fns, R, k) /\ old[k] = NetValue(c, fns, old, k)
    BY <1>2, <1>9, <1>10 DEF Given
  <2>2. Reads(c, fns, k) \subseteq NetsOf(c) /\ k \in c.nets
    BY <1>1, <1>10, ReadsTyped
  <2>3. ASSUME NEW m \in Reads(c, fns, k) PROVE R[m] = old[m]
    <3>1. m \in NetsOf(c) /\ m \notin D /\ rank[m] < rank[k]
      BY <1>4, <1>9, <1>10, <2>2, <2>3
    <3>2. rank[m] \in Int /\ rank[k] \in Int
      BY <1>4, <1>9, <3>1
    <3>3. m \notin X
      BY <1>8, <3>1, <3>2
    <3>. QED BY <1>6, <3>1, <3>3
  <2>4. NetValue(c, fns, R, k) = NetValue(c, fns, old, k)
    BY <1>10, <2>3, NetValueSame
  <2>. QED BY <1>9, <2>1, <2>4
<1>11. CASE k \notin DOMAIN fns \union Driven(c)
  <2>1. k \in {0, 1} \/ k \in Inputs(c) \ DOMAIN fns
    BY <1>1, <1>9, <1>11 DEF NetsOf
  <2>. QED BY <1>2, <1>9, <2>1 DEF Given
<1>. QED BY <1>10, <1>11

UnpatchedPort(c, t) == t \in Inputs(c) \/ (t \in Driven(c) /\ Reads(c, Unpatched, t) = Ins(c, t))

LEMMA ReadsUnpatched ==
  ASSUME NEW c, IsWhole(c), NEW t \in c.nets
  PROVE  /\ UnpatchedPort(c, t) /\ Reads(c, Unpatched, t) \ {0, 1} = Adjacent(c, Unpatched, t)
         /\ \A v : t \notin Inputs(c) => NetValue(c, Unpatched, v, t) = PortValue(c, v, -t)
<1>1. DOMAIN Unpatched = {} /\ t \in Inputs(c) \union Driven(c) /\ -(-t) = t /\ ~(-t > 0)
  BY DEF Unpatched, IsWhole, IsCircuit
<1>2. t \in Inputs(c) => t \notin Driven(c)
  BY DEF IsWhole, IsCircuit
<1>. QED BY <1>1, <1>2 DEF UnpatchedPort, Reads, Adjacent, NetValue, PortValue

(* Variant B: what changes is downstream of the failing outputs.           *)
VariantB(c, R, old, fails, D) ==
  /\ Given(c, Unpatched, fails, R) /\ fails \subseteq D /\ D \subseteq c.nets
  /\ \A n \in NetsOf(c) \ D : R[n] = old[n]
  /\ \A n \in c.nets \ D : n \in Driven(c) => Ins(c, n) \intersect D = {}

LEMMA VariantBIs ==
  ASSUME NEW c, Subject(c), NEW fails, fails = FailingPos(c), NEW R, R = Replaced(c, fails),
         NEW old, old = Evaluate(c, Unpatched), NEW D, D = ChangedB(c, fails)
  PROVE  VariantB(c, R, old, fails, D)
<1>1. /\ IsCircuit(c) /\ fails \subseteq c.nets /\ Whole(c, Unpatched, old) /\ IsWhole(c)
      /\ 0 \notin c.nets /\ 1 \notin c.nets
      /\ \A o \in fails : c.spec[o] \subseteq Patterns(c)
  BY SubjectFacts, OldWhole DEF Subject
<1>2. ASSUME NEW o \in fails
      PROVE  /\ o \in Tfo(c, Unpatched, o) /\ Tfo(c, Unpatched, o) \subseteq c.nets
             /\ \A m \in Tfo(c, Unpatched, o) : \A k \in c.nets :
                  m \in Adjacent(c, Unpatched, k) => k \in Tfo(c, Unpatched, o)
  BY <1>1, <1>2, TfoLeast
<1>3. fails \subseteq D /\ D \subseteq c.nets
  BY <1>2 DEF ChangedB
<1>4. ASSUME NEW m \in D, NEW k \in c.nets, m \in Reads(c, Unpatched, k) PROVE k \in D
  <2>1. m \in Adjacent(c, Unpatched, k)
    BY <1>1, <1>3, <1>4, ReadsUnpatched
  <2>2. PICK o \in fails : m \in Tfo(c, Unpatched, o)
    BY <1>4 DEF ChangedB
  <2>3. k \in Tfo(c, Unpatched, o)
    BY <1>2, <2>1, <2>2
  <2>. QED BY <2>3 DEF ChangedB
<1>5. Given(c, Unpatched, fails, R)
  BY <1>1, GivenSettles DEF Replaced
<1>6. \A n \in NetsOf(c) \ D : R[n] = old[n]
  BY <1>1, <1>3, <1>4, <1>5, GivenOutside
<1>7. ASSUME NEW n \in c.nets \ D, n \in Driven(c) PROVE Ins(c, n) \intersect D = {}
  <2>1. Reads(c, Unpatched, n) = Ins(c, n)
    BY <1>1, <1>7, ReadsUnpatched DEF UnpatchedPort, IsCircuit
  <2>. QED BY <1>4, <1>7, <2>1
<1>. QED BY <1>3, <1>5, <1>6, <1>7 DEF VariantB

LEMMA VariantBNets ==
  ASSUME NEW c, Subject(c), NEW fails, NEW R, NEW old, NEW D, VariantB(c, R, old, fails, D), NEW n \in c.nets
  PROVE  n \in DOMAIN R /\ (n \notin fails => R[n] = PortValue(c, R, -n))
<1>1. n \in DOMAIN R
  BY DEF VariantB, Given, NetsOf
<1>2. IsWhole(c) /\ IsCircuit(c) /\ c.nets \subseteq Nat /\ DOMAIN Unpatched = {}
  BY OldWhole, SubjectFacts DEF Unpatched
<1>3. CASE n \in Inputs(c) /\ n \notin fails
  <2>1. R[n] = c.pis[n] /\ -(-n) = n /\ ~(-n > 0)
    BY <1>2, <1>3 DEF VariantB, Given
  <2>. QED BY <1>1, <1>3, <2>1 DEF PortValue
<1>4. CASE n \notin Inputs(c) /\ n \notin fails
  <2>1. n \in Driven(c)
    BY <1>2, <1>4 DEF IsWhole
  <2>2. R[n] = NetValue(c, Unpatched, R, n)
    BY <1>4, <2>1 DEF VariantB, Given
  <2>3. NetValue(c, Unpatched, R, n) = PortValue(c, R, -n)
    BY <1>2, <1>4, ReadsUnpatched
  <2>. QED BY <1>1, <2>2, <2>3
<1>. QED BY <1>1, <1>3, <1>4

LEMMA VariantBCarried ==
  ASSUME NEW c, Subject(c), NEW mrg, NEW fails, fails = FailingPos(c), NEW R, NEW old,
         old = Evaluate(c, Unpatched), NEW D, D = ChangedB(c, fails), VariantB(c, R, old, fails, D)
  PROVE  CarriedBy(c, BaselineBCtx(c, mrg), R)
<1>1. PICK ctx : ctx = BaselineBCtx(c, mrg)
  OBVIOUS
<1>2. ctx.outs = fails /\ ctx.changed = D /\ ctx.nets = CurLits(c, Unpatched) /\ DOMAIN ctx.lazy = {}
  BY <1>1 DEF BaselineBCtx, NoLazy
<1>3. /\ DOMAIN ctx.nets = NetsOf(c)
      /\ \A n \in DOMAIN ctx.nets : ctx.nets[n] \in Lits /\ Carries(c, ctx.nets[n], old[n])
  BY <1>2, OldLits
<1>4. c.nets \subseteq Nat /\ 0 \notin c.nets /\ IsCircuit(c)
  BY SubjectFacts
<1>5. ASSUME NEW n \in c.nets \intersect DOMAIN ctx.nets, Usable(c, ctx, n) # NoNet
      PROVE  /\ ctx.nets[n] \in Lits /\ Value(c, ctx.nets[n]) \subseteq Patterns(c)
             /\ PortValue(c, R, Usable(c, ctx, n)) = Value(c, ctx.nets[n])
  <2>1. ctx.nets[n] \in Lits /\ Value(c, ctx.nets[n]) = old[n] /\ old[n] \subseteq Patterns(c)
    BY <1>3, <1>5, CarriedValue
  <2>2. CASE Usable(c, ctx, n) = n /\ n \notin ctx.outs \union ctx.changed
    <3>1. n \in NetsOf(c) \ D /\ n > 0
      BY <1>2, <1>3, <1>4, <1>5, <2>2
    <3>2. R[n] = old[n]
      BY <3>1 DEF VariantB
    <3>. QED BY <2>1, <2>2, <3>1, <3>2 DEF PortValue
  <2>3. CASE Usable(c, ctx, n) = -n /\ n \in ctx.outs /\ InSafe(c, n, ctx.changed)
    <3>1. n \in Driven(c) /\ Ins(c, n) \intersect D = {} /\ Ins(c, n) \subseteq NetsOf(c)
      BY <1>2, <1>4, <2>3 DEF InSafe, IsCircuit, NetsOf
    <3>2. OldAround(c, R, n)
      BY <3>1 DEF OldAround, VariantB
    <3>3. PortValue(c, R, -n) = old[n]
      BY <1>5, <3>2, OldPort
    <3>. QED BY <2>1, <2>3, <3>3
  <2>. QED BY <1>5, <2>2, <2>3, UsableIs
<1>. QED BY <1>1, <1>2, <1>5 DEF CarriedBy

LEMMA VariantBMeant ==
  ASSUME NEW c, Subject(c), NEW mrg, NEW fails, fails = FailingPos(c), NEW R, NEW old,
         old = Evaluate(c, Unpatched), NEW D, D = ChangedB(c, fails), VariantB(c, R, old, fails, D),
         NEW ts, ts = BaselineB(c, mrg), ts # <<>>,
         NEW ctx, ctx = BaselineBCtx(c, mrg), NEW spec, spec = [n \in fails |-> c.r2[n]]
  PROVE  BuiltFor(c, ctx, spec, ts) /\ SpecMeant(c, ctx, R, ts, spec) /\ Explains(c, ts, R)
<1>1. ctx.outs = fails /\ ctx.lazy = NoLazy
  BY DEF BaselineBCtx
<1>2. /\ c.nets \subseteq Nat /\ 0 \notin c.nets /\ fails \subseteq c.pos /\ fails \subseteq c.nets
  BY SubjectFacts
<1>3. Choosing(c, ctx)
  BY <1>1, <1>2 DEF Choosing, NoLazy
<1>4. BuiltFor(c, ctx, spec, ts)
  BY BaselineBBuilt
<1>5. TargetNets(ts) = fails
  BY <1>4 DEF BuiltFor
<1>6. ASSUME NEW n \in DOMAIN spec
      PROVE  Valued(c, spec[n]) /\ n \in DOMAIN R /\ R[n] = Value(c, spec[n])
  <2>1. n \in fails /\ spec[n] = c.r2[n]
    OBVIOUS
  <2>2. n \in DOMAIN R /\ R[n] = c.spec[n]
    BY <1>2, <2>1, VariantBNets DEF VariantB, Given
  <2>. QED BY <1>2, <2>1, <2>2, R2Valued
<1>7. CarriedBy(c, ctx, R)
  BY VariantBCarried
<1>8. SpecMeant(c, ctx, R, ts, spec)
  BY <1>2, <1>3, <1>4, <1>6, <1>7, BuiltMeant
<1>9. \A o, k : LastFor(ts, o, k) => LitExplained(c, R, o, ts[k].lit)
  BY <1>4, <1>6, <1>8, LitsExplained
<1>10. \A n \in c.nets \ TargetNets(ts) : NetExplained(c, R, n)
  BY <1>5, VariantBNets DEF NetExplained
<1>11. \A n \in {0, 1} : n \in DOMAIN R /\ R[n] = Const(c, n)
  BY DEF VariantB, Given, NetsOf
<1>. QED BY <1>4, <1>8, <1>9, <1>10, <1>11 DEF Explains

LEMMA VariantBGrounded ==
  ASSUME NEW c, Subject(c), NEW mrg, NEW fails, fails = FailingPos(c), NEW R, NEW old,
         old = Evaluate(c, Unpatched), NEW D, D = ChangedB(c, fails), VariantB(c, R, old, fails, D),
         NEW ts, TargetNets(ts) = fails, NEW ctx, ctx = BaselineBCtx(c, mrg),
         NEW spec, SpecMeant(c, ctx, R, ts, spec)
  PROVE  \E h : Grounded(c, ts, c.nets, h)
<1>1. ctx.outs = fails /\ DOMAIN ctx.lazy = {} /\ ctx.changed = D
  BY DEF BaselineBCtx, NoLazy
<1>2. /\ c.nets \subseteq Nat /\ 0 \notin c.nets /\ fails \subseteq c.nets /\ IsCircuit(c)
      /\ Whole(c, Unpatched, old) /\ IsWhole(c)
  BY SubjectFacts, OldWhole
<1>3. PICK b \in Nat : \E rank \in [NetsOf(c) -> 0 .. b] :
        \A k \in DOMAIN Unpatched \union Driven(c) : \A m \in Reads(c, Unpatched, k) : rank[m] < rank[k]
  BY <1>2, WholeValues
<1>4. PICK rank \in [NetsOf(c) -> 0 .. b] :
        \A k \in DOMAIN Unpatched \union Driven(c) : \A m \in Reads(c, Unpatched, k) : rank[m] < rank[k]
  BY <1>3
<1>5. PICK h : h = [n \in c.nets |-> IF n \notin D THEN rank[n]
                                     ELSE IF n \in fails THEN b + 1 ELSE b + 2 + rank[n]]
  OBVIOUS
<1>6. \A n \in c.nets : rank[n] \in 0 .. b
  BY <1>4 DEF NetsOf
<1>7. h \in [c.nets -> Nat]
  BY <1>5, <1>6
<1>8. fails \subseteq D /\ D \subseteq c.nets
  BY DEF VariantB
<1>9. ASSUME NEW n \in c.nets, n \notin Inputs(c), NEW m \in Ins(c, n) \ {0, 1}
      PROVE  m \in c.nets /\ rank[m] < rank[n] /\ (n \notin D => m \notin D)
  <2>1. n \in Driven(c) /\ Reads(c, Unpatched, n) = Ins(c, n)
    BY <1>2, <1>9, ReadsUnpatched DEF UnpatchedPort
  <2>2. Ins(c, n) \subseteq NetsOf(c)
    BY <1>2, <2>1 DEF IsCircuit, NetsOf
  <2>3. n \notin D => Ins(c, n) \intersect D = {}
    BY <2>1 DEF VariantB
  <2>. QED BY <1>4, <1>9, <2>1, <2>2, <2>3 DEF NetsOf
<1>10. ASSUME NEW n \in c.nets \ TargetNets(ts) PROVE Below(c, c.nets, h, n, h[n])
  <2>1. ASSUME n \notin Inputs(c), NEW m \in Ins(c, n) \ {0, 1} PROVE m \in c.nets /\ h[m] < h[n]
    <3>1. m \in c.nets /\ rank[m] < rank[n] /\ (n \notin D => m \notin D) /\ n \notin fails
      BY <1>9, <1>10, <2>1
    <3>2. rank[m] \in 0 .. b /\ rank[n] \in 0 .. b
      BY <1>6, <1>10, <3>1
    <3>. QED BY <1>5, <1>10, <3>1, <3>2
  <2>. QED BY <2>1 DEF Below
<1>11. ASSUME NEW n \in c.nets, NEW k \in DOMAIN ts, LastFor(ts, n, k), NEW p \in PortsOf(ts[k].lit)
       PROVE  \/ p \in c.nets /\ h[p] < h[n]
              \/ -p \in TargetNets(ts) /\ Below(c, c.nets, h, -p, h[n])
  <2>1. n \in fails
    BY <1>11 DEF LastFor, TargetNets
  <2>2. h[n] = b + 1
    BY <1>5, <1>8, <1>11, <2>1
  <2>3. \/ p \in c.nets /\ p \notin D
        \/ p \in Int /\ -p \in fails /\ InSafe(c, -p, D)
    BY <1>1, <1>11 DEF SpecMeant
  <2>4. CASE p \in c.nets /\ p \notin D
    <3>1. h[p] = rank[p] /\ rank[p] \in 0 .. b
      BY <1>5, <1>6, <2>4
    <3>. QED BY <2>2, <2>4, <3>1
  <2>5. CASE p \in Int /\ -p \in fails /\ InSafe(c, -p, D)
    <3>1. PICK t : t = -p
      OBVIOUS
    <3>2. t \in fails /\ t \in c.nets /\ t \in Driven(c) /\ Ins(c, t) \intersect D = {} /\ t \notin Inputs(c)
      BY <1>2, <2>5, <3>1 DEF InSafe, IsCircuit
    <3>3. ASSUME NEW m \in Ins(c, t) \ {0, 1} PROVE m \in c.nets /\ h[m] < h[n]
      <4>1. m \in c.nets /\ m \notin D
        BY <1>9, <3>2, <3>3
      <4>2. h[m] = rank[m] /\ rank[m] \in 0 .. b
        BY <1>5, <1>6, <4>1
      <4>. QED BY <2>2, <4>1, <4>2
    <3>4. Below(c, c.nets, h, t, h[n])
      BY <3>3 DEF Below
    <3>. QED BY <3>1, <3>2, <3>4
  <2>. QED BY <2>3, <2>4, <2>5
<1>. QED BY <1>7, <1>10, <1>11 DEF Grounded

(* Variant B passes the evaluator's test.                                  *)
LEMMA VariantBPasses ==
  ASSUME NEW c, Subject(c), Fresh(c), NEW mrg, NEW ts, ts = BaselineB(c, mrg), ts # <<>>
  PROVE  EvaluatorPasses(c, CandidatePatch(c, ts))
<1>1. PICK fails, R, old, D, ctx, spec, q, v :
        /\ fails = FailingPos(c) /\ R = Replaced(c, fails) /\ old = Evaluate(c, Unpatched)
        /\ D = ChangedB(c, fails) /\ ctx = BaselineBCtx(c, mrg) /\ spec = [n \in fails |-> c.r2[n]]
        /\ q = CandidatePatch(c, ts) /\ v = EvalPatched(c, q)
  OBVIOUS
<1>2. /\ c.nets \subseteq Nat /\ fails \subseteq c.nets /\ IsWhole(c) /\ c.pos \subseteq c.nets
      /\ WiresTyped(c)
  BY <1>1, SubjectFacts, OldWhole DEF Subject
<1>3. VariantB(c, R, old, fails, D)
  BY <1>1, VariantBIs
<1>4. BuiltFor(c, ctx, spec, ts) /\ SpecMeant(c, ctx, R, ts, spec) /\ Explains(c, ts, R)
  BY <1>1, <1>3, VariantBMeant
<1>5. TargetNets(ts) = fails /\ IsTargets(c, ts) /\ Distinct(ts)
  BY <1>1, <1>4 DEF BuiltFor
<1>6. PortsFit(c, ts)
  <2>1. ctx.outs \subseteq TargetNets(ts)
    BY <1>1, <1>5 DEF BaselineBCtx
  <2>. QED BY <1>4, <2>1, SpecPortsFit
<1>7. PICK h : Grounded(c, ts, c.nets, h)
  BY <1>1, <1>3, <1>4, <1>5, VariantBGrounded
<1>8. \A n \in c.nets : Kept(v, R, n)
  BY <1>1, <1>2, <1>4, <1>5, <1>6, CandidateSound
<1>9. \A n \in c.nets : Net(n) \in DOMAIN v
  BY <1>1, <1>2, <1>5, <1>6, <1>7, CandidateDefined
<1>10. \A o \in c.pos : R[o] = c.spec[o]
  <2>1. NoPreservation(c, fails)
    BY <1>1, BaselineBBuilt
  <2>. QED BY <1>1, <2>1 DEF NoPreservation
<1>11. Verified(c, q)
  <2>1. \A o \in c.pos : Net(o) \in DOMAIN v /\ v[Net(o)] = c.spec[o]
    BY <1>2, <1>8, <1>9, <1>10 DEF Kept
  <2>. QED BY <1>1, <2>1 DEF Verified
<1>12. ~DrivesTwice(q)
  <2>1. Patching(c, ts, q)
    BY <1>1, <1>2, <1>5, <1>6, CandidatePatching
  <2>. QED BY <1>5, <2>1, DrivesOnce
<1>13. IsPatch(c, q)
  BY <1>1, <1>2, <1>5, CandidateTidy
<1>. QED BY <1>1, <1>2, <1>11, <1>12, <1>13, SameVerdict

(* For all circuits: a candidate of variant B always passes.               *)
THEOREM VariantBCorrect == TrajSpec => []VariantBRight
<1>1. OriginInv => VariantBRight
  <2>. SUFFICES ASSUME OriginInv, WiresFresh, NEW x \in patches, x.from = "B"
                PROVE  EvaluatorPasses(circ, x.patch)
    BY DEF VariantBRight
  <2>1. FromTargets(x, BaselineB(circ, merged)) /\ circ \in Circuits
    BY DEF OriginInv, Origin, TrajInv
  <2>2. Subject(circ) /\ Fresh(circ)
    BY <2>1, SubjectNow, FreshNow
  <2>3. PICK ts : ts = BaselineB(circ, merged)
    OBVIOUS
  <2>4. ts # <<>> /\ x.patch = CandidatePatch(circ, ts)
    BY <2>1, <2>3 DEF FromTargets
  <2>. QED BY <2>2, <2>3, <2>4, VariantBPasses
<1>. QED BY <1>1, AlwaysOrigin, PTL

-----------------------------------------------------------------------------
(* When run() returned true, no output failed any more.                    *)
ResultInv ==
  pc = "done" /\ result => \/ round < MaxRounds /\ F = {}
                           \/ Failing(Evaluate(circ, drv)) = {}

(* The candidate made of fixes comes last.                                 *)
DoneInv ==
  /\ TrajInv
  /\ phase \in {"start", "rectify"} /\ pc # "undefined" => ResultInv
  /\ phase = "verify" /\ Stable(circ, drv) =>
       Whole(circ, drv, cur) /\ (result => Failing(cur) = {})
  /\ \A x \in patches : x.from = "R" => phase = "verify"

LEMMA ResultStep ==
  ASSUME ResultInv, Step
  PROVE  ResultInv'
<1>1. CASE StartRound
  <2>1. /\ round < MaxRounds /\ round' = round
        /\ F' = {} \/ result' = FALSE \/ pc' # "done"
    BY <1>1 DEF StartRound
  <2>. QED BY <2>1 DEF ResultInv
<1>2. CASE FinalCheck
  <2>1. /\ cur' = Evaluate(circ, drv) /\ result' = (Failing(cur') = {})
        /\ UNCHANGED <<circ, drv>>
    BY <1>2 DEF FinalCheck
  <2>2. result' => Failing(Evaluate(circ, drv)) = {}
    BY <2>1
  <2>. QED BY <2>1, <2>2 DEF ResultInv, Failing
<1>3. CASE GiveUp
  BY <1>3 DEF GiveUp, ResultInv
<1>4. CASE pc' # "done"
  BY <1>4 DEF ResultInv
<1>. QED BY <1>1, <1>2, <1>3, <1>4
         DEF Step, TryCandidate, StopTrying, ApplyBest, EndRound, RankPairs, TryPair, PairFirst,
             PairSecond, Bail

(* With old values stable, what the Rectifier believes is so.              *)
LEMMA DoneRight ==
  ASSUME ValueInv, ResultInv, pc = "done", result, Stable(circ, drv)
  PROVE  Failing(Evaluate(circ, drv)) = {}
BY DEF ValueInv, StableFacts, Current, ResultInv

LEMMA DoneStep ==
  ASSUME DoneInv, [TrajNext]_<<vars, ownVars>>
  PROVE  DoneInv'
<1>1. TrajInv'
  BY TrajStepInv DEF DoneInv
<1>2. CASE Prepare
  <2>1. /\ phase = "start" /\ UNCHANGED <<circ, drv, pc, result, round, F>>
        /\ phase' \in {"delivered", "error", "rectify"}
        /\ \A x \in patches' : x \in patches \/ x.from # "R"
    BY <1>2 DEF Prepare, vars, Emitted
  <2>2. ResultInv => ResultInv'
    BY <2>1 DEF ResultInv, Failing
  <2>3. \A x \in patches' : x.from # "R"
    BY <2>1 DEF DoneInv
  <2>. QED BY <1>1, <2>1, <2>2, <2>3 DEF DoneInv
<1>3. CASE Rectify
  <2>1. ResultInv /\ phase = "rectify" /\ phase' = "rectify" /\ patches' = patches
    BY <1>3, RectifyKeeps DEF Rectify, DoneInv, ownVars
  <2>2. ResultInv'
    BY <1>3, <2>1, ResultStep DEF Rectify
  <2>. QED BY <1>1, <2>1, <2>2 DEF DoneInv
<1>4. CASE Assemble
  <2>1. /\ phase = "rectify" /\ pc = "done" /\ UNCHANGED <<circ, drv, result>>
        /\ cur' = Evaluate(circ, drv)
        /\ \/ pc' = "undefined" /\ UNCHANGED <<phase, patches>>
           \/ phase' = "verify"
    BY <1>4 DEF Assemble
  <2>2. CASE pc' = "undefined" /\ UNCHANGED <<phase, patches>>
    BY <1>1, <2>1, <2>2 DEF DoneInv
  <2>3. CASE phase' = "verify"
    <3>1. ValueInv /\ ResultInv
      BY <2>1 DEF DoneInv, TrajInv
    <3>2. result /\ Stable(circ, drv) => Failing(Evaluate(circ, drv)) = {}
      BY <2>1, <3>1, DoneRight
    <3>3. result' /\ Stable(circ', drv') => Failing(cur)' = {}
      BY <2>1, <3>2 DEF Failing
    <3>4. Stable(circ', drv') => Whole(circ', drv', cur')
      BY <2>1, <3>1 DEF ValueInv, StableFacts
    <3>. QED BY <1>1, <2>3, <3>3, <3>4 DEF DoneInv
  <2>. QED BY <2>1, <2>2, <2>3
<1>5. CASE Verify
  <2>1. UNCHANGED <<circ, drv, cur, result>> /\ phase = "verify"
    BY <1>5 DEF Verify, vars
  <2>2. phase' \in {"simplify", "error", "verify"} /\ (phase' # "verify" => patches' = {})
    BY <1>5 DEF Verify
  <2>3. Failing(cur)' = Failing(cur)
    BY <2>1 DEF Failing
  <2>. QED BY <1>1, <2>1, <2>2, <2>3 DEF DoneInv
<1>6. CASE Simplify \/ Deliver
  <2>1. phase = "simplify" /\ phase' \in {"simplify", "delivered"} /\ patches' = patches
    BY <1>6 DEF Simplify, Deliver
  <2>. QED BY <1>1, <2>1 DEF DoneInv
<1>7. CASE UNCHANGED <<vars, ownVars>>
  <2>1. UNCHANGED <<circ, drv, cur, result, pc, phase, patches, round, F>>
    BY <1>7 DEF vars, ownVars
  <2>2. Failing(cur)' = Failing(cur) /\ (ResultInv => ResultInv')
    BY <2>1 DEF Failing, ResultInv
  <2>. QED BY <1>1, <2>1, <2>2 DEF DoneInv
<1>. QED BY <1>2, <1>3, <1>4, <1>5, <1>6, <1>7 DEF TrajNext, TrajStep

LEMMA AlwaysDone == TrajSpec => []DoneInv
<1>1. TrajInit => DoneInv
  <2>. SUFFICES ASSUME TrajInit PROVE DoneInv
    OBVIOUS
  <2>1. TrajInv
    <3>1. ValueInv
      BY InitValueInv DEF TrajInit
    <3>. QED BY <3>1, ValuesTyped DEF TrajInit, TrajInv
  <2>. QED BY <2>1 DEF TrajInit, Init, DoneInv, ResultInv
<1>2. DoneInv /\ [TrajNext]_<<vars, ownVars>> => DoneInv'
  BY DoneStep
<1>. QED BY <1>1, <1>2, PTL DEF TrajSpec

(* For all circuits and bounds: when run() returns true, the patch made of *)
(* the fixes passes, as long as old values are stable, although no round   *)
(* but the first has looked at all outputs.                                *)
THEOREM CompleteCorrect == TrajSpec => []CompleteRight
<1>1. DoneInv /\ CandidatesTidy /\ FixesAsEvaluated => CompleteRight
  <2>. SUFFICES ASSUME DoneInv, CandidatesTidy, FixesAsEvaluated, NEW x \in patches,
                       x.from = "R", result, WiresFresh, OldValuesStable
                PROVE  EvaluatorPasses(circ, x.patch)
    BY DEF CompleteRight
  <2>1. Failing(cur) = {} /\ circ \in Circuits
    BY StableIs DEF DoneInv, TrajInv
  <2>2. PICK v : v = EvalPatched(circ, x.patch)
    OBVIOUS
  <2>3. /\ ~DrivesTwice(x.patch)
        /\ \A n \in circ.nets : cur[n] = IF Net(n) \in DOMAIN v THEN v[Net(n)] ELSE Unset
    BY <2>2 DEF FixesAsEvaluated, Val
  <2>4. ASSUME NEW o \in circ.pos
        PROVE  Net(o) \in DOMAIN v /\ v[Net(o)] = circ.spec[o]
    <3>1. cur[o] = circ.spec[o] /\ o \in circ.nets
      BY <2>1, InCircuits DEF Failing
    <3>2. circ.spec[o] # Unset
      BY <2>1, CircuitFacts, IsValue
    <3>. QED BY <2>3, <3>1, <3>2
  <2>5. Verified(circ, x.patch)
    BY <2>2, <2>4 DEF Verified
  <2>. QED BY <2>1, <2>3, <2>5, InCircuits, SameVerdict DEF CandidatesTidy
<1>. QED BY <1>1, AlwaysDone, CandidatesCorrect, FixesCorrect, PTL

-----------------------------------------------------------------------------
(* The hybrid candidate: fixes for what they repaired, R2 for what still   *)
(* fails, and the old functions for what that would disturb.               *)

(* What the fixes have not changed has its old value, and what changes     *)
(* with outputs that no fix looks at is what the graph finds downstream.   *)
LEMMA BannedIs ==
  ASSUME NEW c, IsCircuit(c), NEW fns, DOMAIN fns \subseteq c.nets, NEW B, B = Banned(c, fns, DOMAIN fns)
  PROVE  /\ DOMAIN fns \subseteq B /\ B \subseteq c.nets
         /\ \A m \in B : \A k \in c.nets : m \in Adjacent(c, fns, k) => k \in B
<1>1. ASSUME NEW t \in DOMAIN fns
      PROVE  /\ t \in Tfo(c, fns, t) /\ Tfo(c, fns, t) \subseteq c.nets
             /\ \A m \in Tfo(c, fns, t) : \A k \in c.nets :
                  m \in Adjacent(c, fns, k) => k \in Tfo(c, fns, t)
  BY <1>1, TfoLeast
<1>2. DOMAIN fns \subseteq B /\ B \subseteq c.nets
  BY <1>1 DEF Banned
<1>3. ASSUME NEW m \in B, NEW k \in c.nets, m \in Adjacent(c, fns, k) PROVE k \in B
  <2>1. PICK t \in DOMAIN fns : m \in Tfo(c, fns, t)
    BY <1>3 DEF Banned
  <2>2. k \in Tfo(c, fns, t)
    BY <1>1, <1>3, <2>1
  <2>. QED BY <2>2 DEF Banned
<1>. QED BY <1>2, <1>3

LEMMA OldOutsideBanned ==
  ASSUME NEW c, Subject(c), NEW old, old = Evaluate(c, Unpatched), NEW fns, NEW vals, Whole(c, fns, vals),
         NEW B, B = Banned(c, fns, DOMAIN fns)
  PROVE  \A n \in NetsOf(c) \ B : vals[n] = old[n]
<1>1. /\ Whole(c, Unpatched, old) /\ IsCircuit(c) /\ DOMAIN fns \subseteq c.nets /\ DOMAIN Unpatched = {}
      /\ Inputs(c) \intersect Driven(c) = {} /\ IsWhole(c)
  BY OldWhole DEF Whole, PatchesOK, IsCircuit, Unpatched
<1>2. /\ DOMAIN fns \subseteq B /\ B \subseteq c.nets
      /\ \A m \in B : \A k \in c.nets : m \in Adjacent(c, fns, k) => k \in B
  BY ONLY <1>1, B = Banned(c, fns, DOMAIN fns), BannedIs
<1>3. PICK b \in Nat : \E rank \in [NetsOf(c) -> 0 .. b] :
        \A k \in DOMAIN Unpatched \union Driven(c) : \A m \in Reads(c, Unpatched, k) : rank[m] < rank[k]
  BY <1>1, WholeValues
<1>4. PICK rank \in [NetsOf(c) -> 0 .. b] :
        \A k \in DOMAIN Unpatched \union Driven(c) : \A m \in Reads(c, Unpatched, k) : rank[m] < rank[k]
  BY <1>3
<1>5. PICK X : X = {n \in NetsOf(c) \ B : vals[n] # old[n]}
  OBVIOUS
<1>6. ASSUME X # {} PROVE FALSE
  <2>1. PICK n \in X : \A m \in X : rank[n] <= rank[m]
    BY <1>4, <1>5, <1>6, Lowest
  <2>2. n \in NetsOf(c) \ B /\ vals[n] # old[n] /\ n \notin DOMAIN fns
    BY <1>2, <1>5, <2>1
  <2>3. n \in c.nets
    <3>1. vals[0] = old[0] /\ vals[1] = old[1]
      BY <1>1, WholeValues
    <3>. QED BY <2>2, <3>1 DEF NetsOf
  <2>4. n \in Driven(c)
    <3>1. n \in Inputs(c) => vals[n] = c.pis[n] /\ old[n] = c.pis[n]
      BY <1>1, <2>2, WholeValues
    <3>. QED BY <1>1, <2>2, <2>3, <3>1 DEF IsWhole
  <2>5. Reads(c, Unpatched, n) = Ins(c, n) /\ Reads(c, fns, n) = Ins(c, n)
        /\ Adjacent(c, fns, n) = Ins(c, n) \ {0, 1} /\ Ins(c, n) \subseteq NetsOf(c)
    BY <1>1, <2>2, <2>4 DEF Reads, Adjacent, IsCircuit, NetsOf
  <2>6. ASSUME NEW m \in Ins(c, n) PROVE vals[m] = old[m]
    <3>1. rank[m] < rank[n] /\ m \in NetsOf(c)
      BY <1>4, <2>4, <2>5
    <3>2. rank[m] \in 0 .. b /\ rank[n] \in 0 .. b
      BY <1>4, <2>2, <3>1
    <3>3. m \notin X
      BY <2>1, <3>1, <3>2
    <3>4. m \notin B
      <4>1. 0 \notin c.nets /\ 1 \notin c.nets
        BY <1>1 DEF IsCircuit
      <4>2. m \in B => m \in Adjacent(c, fns, n)
        BY <1>2, <2>5, <4>1
      <4>. QED BY <1>2, <2>2, <2>3, <4>2
    <3>. QED BY <1>5, <3>1, <3>3, <3>4
  <2>7. NetValue(c, fns, vals, n) = NetValue(c, fns, old, n)
    BY <1>1, <2>4, <2>5, <2>6, NetValueSame
  <2>8. NetValue(c, fns, old, n) = NetValue(c, Unpatched, old, n)
    BY <1>1, <2>2 DEF NetValue
  <2>9. vals[n] = NetValue(c, fns, vals, n) /\ old[n] = NetValue(c, Unpatched, old, n)
    BY <1>1, <2>4, WholeValues
  <2>. QED BY <2>2, <2>7, <2>8, <2>9
<1>. QED BY <1>5, <1>6

(* No fix reads a net that depends on an output of fails.                  *)
LooksAway(c, fns, fails) ==
  \A t \in DOMAIN fns : \A o \in fails : Reads(c, fns, t) \intersect Depends(c, fns, o) = {}

LEMMA DependsInTfo ==
  ASSUME NEW c, IsCircuit(c), NEW fns, DOMAIN fns \subseteq c.nets, NEW fails, fails \subseteq c.nets,
         LooksAway(c, fns, fails), NEW o \in fails
  PROVE  Depends(c, fns, o) \subseteq Tfo(c, fns, o)
<1>1. PICK D, T, X : D = Depends(c, fns, o) /\ T = Tfo(c, fns, o) /\ X = D \intersect T
  OBVIOUS
<1>2. /\ o \in T /\ T \subseteq c.nets
      /\ \A m \in T : \A k \in c.nets : m \in Adjacent(c, fns, k) => k \in T
  BY <1>1, TfoLeast
<1>3. /\ o \in D /\ D \subseteq c.nets
      /\ \A m \in D : \A k \in c.nets : m \in Reads(c, fns, k) => k \in D
      /\ \A Y : o \in Y /\ (\A m \in Y \intersect c.nets : \A k \in c.nets :
                              m \in Reads(c, fns, k) => k \in Y) => D \subseteq Y
  BY <1>1, DependsLeast
<1>4. ASSUME NEW m \in X, NEW k \in c.nets, m \in Reads(c, fns, k) PROVE k \in X
  <2>1. k \in D /\ m \in D /\ m \in T /\ m \in c.nets
    BY <1>1, <1>3, <1>4
  <2>2. k \notin DOMAIN fns
    BY <1>1, <1>4, <2>1 DEF LooksAway
  <2>3. k \in Driven(c) /\ m \in Ins(c, k)
    BY <1>4, <2>2 DEF Reads
  <2>4. m \in Adjacent(c, fns, k)
    BY <2>1, <2>2, <2>3 DEF Adjacent, IsCircuit
  <2>. QED BY <1>1, <1>2, <2>1, <2>4
<1>5. D \subseteq X
  BY <1>1, <1>2, <1>3, <1>4
<1>. QED BY <1>1, <1>5

(* A rectification that did not finish, with a value for every net.        *)
HalfRectified(c, fns, vals, fxs, fails) ==
  /\ Subject(c) /\ Rectified(c, fns, vals, fxs, fails) /\ Whole(c, fns, vals)
  /\ DOMAIN fns = Fixed(fxs) /\ LooksAway(c, fns, fails)

LEMMA HalfFacts ==
  ASSUME NEW c, NEW fns, NEW vals, NEW fxs, NEW fails, HalfRectified(c, fns, vals, fxs, fails)
  PROVE  /\ IsCircuit(c) /\ c.nets \subseteq Nat /\ 0 \notin c.nets /\ 1 \notin c.nets /\ IsWhole(c)
         /\ DOMAIN fns \subseteq c.nets /\ fails \subseteq c.nets /\ fails \subseteq c.pos /\ PatchesOK(c, fns)
         /\ vals = Evaluate(c, fns)
         /\ \A o \in fails : c.spec[o] \subseteq Patterns(c)
         /\ c.nets \subseteq Inputs(c) \union Driven(c)
         /\ \A t \in DOMAIN fns : Reads(c, fns, t) \intersect fails = {}
<1>1. Subject(c) /\ fails \subseteq c.pos /\ PatchesOK(c, fns) /\ vals = Evaluate(c, fns)
  BY DEF HalfRectified, Rectified
<1>2. /\ IsCircuit(c) /\ c.nets \subseteq Nat /\ 0 \notin c.nets /\ 1 \notin c.nets /\ IsWhole(c)
      /\ fails \subseteq c.nets /\ \A o \in fails : c.spec[o] \subseteq Patterns(c)
  BY <1>1, SubjectFacts, OldWhole DEF Subject
<1>3. DOMAIN fns \subseteq c.nets /\ c.nets \subseteq Inputs(c) \union Driven(c)
  BY <1>1, <1>2 DEF PatchesOK, IsWhole
<1>4. ASSUME NEW t \in DOMAIN fns, NEW o \in fails PROVE o \notin Reads(c, fns, t)
  <2>1. o \in Depends(c, fns, o)
    BY <1>2, DependsLeast
  <2>. QED BY <2>1 DEF HalfRectified, LooksAway
<1>. QED BY <1>1, <1>2, <1>3, <1>4

(* What the hybrid candidate is to give every net.                         *)
HybridValues(c, fns, vals, ctx, kept, fails, R) ==
  /\ R \in [NetsOf(c) -> Values(c)] /\ \A n \in NetsOf(c) : R[n] # Unset
  /\ R[0] = Const(c, 0) /\ R[1] = Const(c, 1)
  /\ \A o \in fails : R[o] = c.spec[o]
  /\ \A n \in NetsOf(c) \ ctx.changed : R[n] = vals[n]
  /\ \A n \in DOMAIN ctx.lazy \union (kept \ fails) : R[n] = vals[n]
  /\ \A n \in c.nets \ ctx.outs : R[n] = PortValue(c, R, -n)
  /\ \A t \in DOMAIN fns \ fails : R[t] = PatchValue(c, R, fns[t])

(* Its context: which names the rest may use.                              *)
HybridNames(c, fns, vals, ctx, kept, fails, P) ==
  LET T == UNION {Tfo(c, fns, o) : o \in fails} IN
  /\ ctx.outs = DOMAIN fns \union fails \union kept /\ ctx.nets = CurLits(c, Unpatched)
  /\ Banned(c, fns, DOMAIN fns) \union fails \subseteq ctx.changed
  /\ P => T \subseteq ctx.changed /\ DOMAIN ctx.lazy \intersect T = {}
  /\ DOMAIN ctx.lazy \subseteq c.nets \ ctx.outs
  /\ \A n \in DOMAIN ctx.lazy : ctx.lazy[n] = vals[n]

LEMMA HybridCtxIs ==
  ASSUME NEW c, NEW fns, NEW vals, NEW fxs, NEW fails, DOMAIN fns = Fixed(fxs), NEW mrg,
         NEW ctx, ctx = HybridCtx(c, fns, vals, fxs, fails, mrg),
         NEW kept, kept = HybridKept(c, fns, vals, fxs, fails)
  PROVE  HybridNames(c, fns, vals, ctx, kept, fails, NoPresCheck(c, fns, vals, fails))
<1>1. PICK P, T, B : /\ P = NoPresCheck(c, fns, vals, fails) /\ T = UNION {Tfo(c, fns, o) : o \in fails}
                     /\ B = Banned(c, fns, DOMAIN fns)
  OBVIOUS
<1>2. /\ ctx.outs = DOMAIN fns \union fails \union kept /\ ctx.nets = CurLits(c, Unpatched)
      /\ ctx.changed = B \union fails \union (IF P THEN T ELSE {})
      /\ ctx.lazy = [n \in {k \in c.nets \ ctx.outs : vals[k] # Unset /\ (P => k \notin T)} |-> vals[n]]
  BY <1>1 DEF HybridCtx
<1>3. DOMAIN ctx.lazy \subseteq c.nets \ ctx.outs /\ (P => DOMAIN ctx.lazy \intersect T = {})
      /\ \A n \in DOMAIN ctx.lazy : ctx.lazy[n] = vals[n]
  BY <1>2
<1>. QED BY <1>1, <1>2, <1>3 DEF HybridNames

(* Without preservation: R2 functions for what fails, and everybody reads  *)
(* the new values.                                                         *)
LEMMA NoPresValues ==
  ASSUME NEW c, NEW fns, NEW vals, NEW fxs, NEW fails, HalfRectified(c, fns, vals, fxs, fails), NEW mrg,
         NEW ctx, ctx = HybridCtx(c, fns, vals, fxs, fails, mrg),
         NEW kept, kept = HybridKept(c, fns, vals, fxs, fails),
         NoPresCheck(c, fns, vals, fails), NEW R, R = Settle(c, fns, GivenSpec(c, fns, fails))
  PROVE  HybridValues(c, fns, vals, ctx, kept, fails, R)
<1>1. /\ IsCircuit(c) /\ c.nets \subseteq Nat /\ 0 \notin c.nets /\ 1 \notin c.nets
      /\ DOMAIN fns \subseteq c.nets /\ fails \subseteq c.nets
      /\ \A o \in fails : c.spec[o] \subseteq Patterns(c)
      /\ c.nets \subseteq Inputs(c) \union Driven(c) /\ Whole(c, fns, vals)
      /\ LooksAway(c, fns, fails) /\ DOMAIN fns = Fixed(fxs)
  BY HalfFacts DEF HalfRectified
<1>2. Given(c, fns, fails, R)
  BY <1>1, GivenSettles
<1>3. PICK T, D : T = UNION {Tfo(c, fns, o) : o \in fails} /\ D = UNION {Depends(c, fns, o) : o \in fails}
  OBVIOUS
<1>4. ASSUME NEW o \in fails
      PROVE  /\ o \in Depends(c, fns, o) /\ Depends(c, fns, o) \subseteq Tfo(c, fns, o)
             /\ \A m \in Depends(c, fns, o) : \A k \in c.nets :
                  m \in Reads(c, fns, k) => k \in Depends(c, fns, o)
  BY <1>1, <1>4, DependsLeast, DependsInTfo
<1>5. fails \subseteq D /\ D \subseteq T
  BY <1>3, <1>4
<1>6. ASSUME NEW m \in D, NEW k \in c.nets, m \in Reads(c, fns, k) PROVE k \in D
  <2>1. PICK o \in fails : m \in Depends(c, fns, o)
    BY <1>3, <1>6
  <2>. QED BY <1>3, <1>4, <1>6, <2>1
<1>7. \A n \in NetsOf(c) \ D : R[n] = vals[n]
  BY <1>1, <1>2, <1>5, <1>6, GivenOutside
<1>8. kept = {}
  BY DEF HybridKept
<1>9. ctx.outs = DOMAIN fns \union fails /\ T \subseteq ctx.changed /\ DOMAIN ctx.lazy \subseteq c.nets \ T
  <2>1. HybridNames(c, fns, vals, ctx, kept, fails, NoPresCheck(c, fns, vals, fails))
    BY <1>1, HybridCtxIs
  <2>. QED BY <1>3, <1>8, <2>1 DEF HybridNames
<1>10. \A n \in NetsOf(c) \ ctx.changed : R[n] = vals[n]
  BY <1>5, <1>7, <1>9
<1>11. \A n \in DOMAIN ctx.lazy : R[n] = vals[n]
  BY <1>5, <1>7, <1>9 DEF NetsOf
<1>12. ASSUME NEW n \in c.nets \ ctx.outs PROVE R[n] = PortValue(c, R, -n)
  <2>1. n \notin DOMAIN fns /\ n \notin fails /\ n \in Nat /\ -(-n) = n /\ ~(-n > 0)
    BY <1>1, <1>9, <1>12
  <2>2. CASE n \in Inputs(c)
    <3>1. R[n] = c.pis[n]
      BY <1>2, <2>1, <2>2 DEF Given
    <3>. QED BY <2>1, <2>2, <3>1 DEF PortValue
  <2>3. CASE n \notin Inputs(c)
    <3>1. n \in Driven(c)
      BY <1>1, <1>12, <2>3
    <3>2. R[n] = NetValue(c, fns, R, n)
      BY <1>2, <2>1, <3>1 DEF Given
    <3>. QED BY <2>1, <2>3, <3>2 DEF PortValue, NetValue
  <2>. QED BY <2>2, <2>3
<1>13. ASSUME NEW t \in DOMAIN fns \ fails PROVE R[t] = PatchValue(c, R, fns[t])
  <2>1. R[t] = NetValue(c, fns, R, t)
    BY <1>2, <1>13 DEF Given
  <2>. QED BY <1>13, <2>1 DEF NetValue
<1>. QED BY <1>2, <1>8, <1>10, <1>11, <1>12, <1>13 DEF HybridValues, Given

(* With preservation: R2 functions for what fails, and everything else     *)
(* keeps its value.                                                        *)
GivenFails(c, vals, fails) == [n \in NetsOf(c) |-> IF n \in fails THEN c.spec[n] ELSE vals[n]]

LEMMA PresValues ==
  ASSUME NEW c, NEW fns, NEW vals, NEW fxs, NEW fails, HalfRectified(c, fns, vals, fxs, fails), NEW mrg,
         NEW ctx, ctx = HybridCtx(c, fns, vals, fxs, fails, mrg),
         NEW kept, kept = HybridKept(c, fns, vals, fxs, fails),
         ~NoPresCheck(c, fns, vals, fails), NEW R, R = GivenFails(c, vals, fails)
  PROVE  HybridValues(c, fns, vals, ctx, kept, fails, R)
<1>1. /\ IsCircuit(c) /\ c.nets \subseteq Nat /\ 0 \notin c.nets /\ 1 \notin c.nets
      /\ DOMAIN fns \subseteq c.nets /\ fails \subseteq c.nets
      /\ \A o \in fails : c.spec[o] \subseteq Patterns(c)
      /\ c.nets \subseteq Inputs(c) \union Driven(c) /\ Whole(c, fns, vals)
      /\ DOMAIN fns = Fixed(fxs)
      /\ \A t \in DOMAIN fns : Reads(c, fns, t) \intersect fails = {}
  BY HalfFacts DEF HalfRectified
<1>2. /\ vals \in [NetsOf(c) -> Values(c)] /\ \A n \in NetsOf(c) : vals[n] # Unset
      /\ vals[0] = Const(c, 0) /\ vals[1] = Const(c, 1)
      /\ \A n \in Inputs(c) \ DOMAIN fns : vals[n] = c.pis[n]
      /\ \A n \in DOMAIN fns \union Driven(c) : vals[n] = NetValue(c, fns, vals, n)
  BY <1>1, WholeValues
<1>3. /\ DOMAIN R = NetsOf(c) /\ \A n \in NetsOf(c) \ fails : R[n] = vals[n]
      /\ \A o \in fails : R[o] = c.spec[o]
  BY <1>1 DEF GivenFails, NetsOf
<1>4. R \in [NetsOf(c) -> Values(c)] /\ \A n \in NetsOf(c) : R[n] # Unset
  <2>1. ASSUME NEW n \in NetsOf(c) PROVE R[n] \in Values(c) /\ R[n] # Unset
    BY <1>1, <1>2, <1>3, IsValue
  <2>. QED BY <1>3, <2>1 DEF GivenFails
<1>5. R[0] = Const(c, 0) /\ R[1] = Const(c, 1)
  BY <1>1, <1>2, <1>3 DEF NetsOf
<1>6. kept = Consumers(c, fails) \ (DOMAIN fns \union fails)
  BY <1>1 DEF HybridKept, Readers
<1>7. /\ ctx.outs = DOMAIN fns \union fails \union kept /\ fails \subseteq ctx.changed
      /\ DOMAIN ctx.lazy \subseteq c.nets \ ctx.outs
  <2>1. HybridNames(c, fns, vals, ctx, kept, fails, NoPresCheck(c, fns, vals, fails))
    BY <1>1, HybridCtxIs
  <2>. QED BY <2>1 DEF HybridNames
<1>8. \A n \in NetsOf(c) \ ctx.changed : R[n] = vals[n]
  BY <1>3, <1>7
<1>9. \A n \in DOMAIN ctx.lazy \union (kept \ fails) : R[n] = vals[n]
  <2>1. kept \subseteq c.nets
    BY <1>1, <1>6 DEF Consumers, IsCircuit
  <2>. QED BY <1>3, <1>7, <2>1 DEF NetsOf
<1>10. ASSUME NEW n \in c.nets \ ctx.outs PROVE R[n] = PortValue(c, R, -n)
  <2>1. n \notin DOMAIN fns /\ n \notin fails /\ n \notin kept /\ n \in Nat /\ -(-n) = n /\ ~(-n > 0)
    BY <1>1, <1>7, <1>10
  <2>2. R[n] = vals[n] /\ n \in NetsOf(c)
    BY <1>3, <1>10, <2>1 DEF NetsOf
  <2>3. CASE n \in Inputs(c)
    <3>1. R[n] = c.pis[n]
      BY <1>2, <2>1, <2>2, <2>3
    <3>. QED BY <2>1, <2>3, <3>1 DEF PortValue
  <2>4. CASE n \notin Inputs(c)
    <3>1. n \in Driven(c) /\ Ins(c, n) \intersect fails = {}
      BY <1>1, <1>6, <1>10, <2>1, <2>4 DEF Consumers
    <3>2. Reads(c, fns, n) = Ins(c, n) /\ Ins(c, n) \subseteq NetsOf(c)
      BY <1>1, <2>1, <3>1 DEF Reads, IsCircuit, NetsOf
    <3>3. \A m \in Reads(c, fns, n) : vals[m] = R[m]
      BY <1>3, <3>1, <3>2
    <3>4. NetValue(c, fns, vals, n) = NetValue(c, fns, R, n)
      BY <3>1, <3>3, NetValueSame
    <3>5. R[n] = NetValue(c, fns, R, n)
      BY <1>2, <2>2, <3>1, <3>4
    <3>. QED BY <2>1, <2>4, <3>5 DEF PortValue, NetValue
  <2>. QED BY <2>3, <2>4
<1>11. ASSUME NEW t \in DOMAIN fns \ fails PROVE R[t] = PatchValue(c, R, fns[t])
  <2>1. Reads(c, fns, t) \subseteq NetsOf(c) /\ Reads(c, fns, t) \intersect fails = {}
    BY <1>1, ReadsTyped DEF Whole
  <2>2. NetValue(c, fns, vals, t) = NetValue(c, fns, R, t)
    <3>1. \A m \in Reads(c, fns, t) : vals[m] = R[m]
      BY <1>3, <2>1
    <3>. QED BY <3>1, NetValueSame
  <2>3. R[t] = NetValue(c, fns, R, t)
    BY <1>1, <1>2, <1>3, <2>2 DEF NetsOf
  <2>. QED BY <2>3 DEF NetValue
<1>. QED BY <1>3, <1>4, <1>5, <1>8, <1>9, <1>10, <1>11 DEF HybridValues

LEMMA HybridCarried ==
  ASSUME NEW c, NEW fns, NEW vals, NEW fxs, NEW fails, HalfRectified(c, fns, vals, fxs, fails), NEW mrg,
         NEW ctx, ctx = HybridCtx(c, fns, vals, fxs, fails, mrg),
         NEW kept, kept = HybridKept(c, fns, vals, fxs, fails),
         NEW R, HybridValues(c, fns, vals, ctx, kept, fails, R)
  PROVE  CarriedBy(c, ctx, R)
<1>1. PICK old : old = Evaluate(c, Unpatched)
  OBVIOUS
<1>2. /\ Subject(c) /\ Whole(c, fns, vals) /\ DOMAIN fns = Fixed(fxs)
      /\ c.nets \subseteq Nat /\ 0 \notin c.nets /\ IsCircuit(c)
  BY HalfFacts DEF HalfRectified
<1>3. /\ ctx.nets = CurLits(c, Unpatched) /\ Banned(c, fns, DOMAIN fns) \subseteq ctx.changed
      /\ DOMAIN ctx.lazy \subseteq c.nets /\ \A n \in DOMAIN ctx.lazy : ctx.lazy[n] = vals[n]
  <2>1. HybridNames(c, fns, vals, ctx, kept, fails, NoPresCheck(c, fns, vals, fails))
    BY <1>2, HybridCtxIs
  <2>. QED BY <2>1 DEF HybridNames
<1>4. /\ DOMAIN ctx.nets = NetsOf(c)
      /\ \A n \in DOMAIN ctx.nets : ctx.nets[n] \in Lits /\ Carries(c, ctx.nets[n], old[n])
  BY <1>1, <1>2, <1>3, OldLits
<1>5. \A n \in NetsOf(c) \ ctx.changed : R[n] = old[n]
  <2>1. \A n \in NetsOf(c) \ Banned(c, fns, DOMAIN fns) : vals[n] = old[n]
    BY <1>1, <1>2, OldOutsideBanned
  <2>. QED BY <1>3, <2>1 DEF HybridValues
<1>6. ASSUME NEW n \in c.nets \intersect DOMAIN ctx.nets, Usable(c, ctx, n) # NoNet
      PROVE  /\ ctx.nets[n] \in Lits /\ Value(c, ctx.nets[n]) \subseteq Patterns(c)
             /\ PortValue(c, R, Usable(c, ctx, n)) = Value(c, ctx.nets[n])
  <2>1. ctx.nets[n] \in Lits /\ Value(c, ctx.nets[n]) = old[n] /\ old[n] \subseteq Patterns(c)
    BY <1>4, <1>6, CarriedValue
  <2>2. CASE Usable(c, ctx, n) = n /\ n \notin ctx.outs \union ctx.changed
    <3>1. n \in NetsOf(c) \ ctx.changed /\ n > 0
      BY <1>2, <1>4, <1>6, <2>2
    <3>2. R[n] = old[n]
      BY <1>5, <3>1
    <3>. QED BY <2>1, <2>2, <3>1, <3>2 DEF PortValue
  <2>3. CASE Usable(c, ctx, n) = -n /\ n \in ctx.outs /\ InSafe(c, n, ctx.changed)
    <3>1. n \in Driven(c) /\ Ins(c, n) \intersect ctx.changed = {} /\ Ins(c, n) \subseteq NetsOf(c)
      BY <1>2, <2>3 DEF InSafe, IsCircuit, NetsOf
    <3>2. OldAround(c, R, n)
      BY <1>1, <1>5, <3>1 DEF OldAround
    <3>3. PortValue(c, R, -n) = old[n]
      BY <1>1, <1>2, <1>6, <3>2, OldPort
    <3>. QED BY <2>1, <2>3, <3>3
  <2>. QED BY <1>6, <2>2, <2>3, UsableIs
<1>7. ASSUME NEW n \in DOMAIN ctx.lazy PROVE R[n] = ctx.lazy[n] /\ ctx.lazy[n] \subseteq Patterns(c)
  <2>1. R[n] = vals[n] /\ ctx.lazy[n] = vals[n] /\ n \in NetsOf(c)
    BY <1>3, <1>7 DEF HybridValues, NetsOf
  <2>2. R[n] \in Values(c) /\ R[n] # Unset
    BY <2>1 DEF HybridValues
  <2>. QED BY <2>1, <2>2 DEF Values
<1>. QED BY <1>6, <1>7 DEF CarriedBy

LEMMA HybridMeant ==
  ASSUME NEW c, NEW fns, NEW vals, NEW fxs, NEW fails, HalfRectified(c, fns, vals, fxs, fails), NEW mrg,
         NEW ctx, ctx = HybridCtx(c, fns, vals, fxs, fails, mrg),
         NEW kept, kept = HybridKept(c, fns, vals, fxs, fails),
         NEW R, HybridValues(c, fns, vals, ctx, kept, fails, R),
         NEW spec, spec = HybridSpec(c, fns, vals, fxs, fails),
         NEW rest, BuiltFor(c, ctx, spec, rest)
  PROVE  /\ SpecMeant(c, ctx, R, rest, spec)
         /\ \A o, k : LastFor(rest, o, k) => LitExplained(c, R, o, rest[k].lit)
<1>1. /\ Subject(c) /\ Rectified(c, fns, vals, fxs, fails) /\ Whole(c, fns, vals) /\ DOMAIN fns = Fixed(fxs)
      /\ c.nets \subseteq Nat /\ 0 \notin c.nets /\ IsCircuit(c) /\ fails \subseteq c.pos /\ fails \subseteq c.nets
      /\ PatchesOK(c, fns) /\ vals = Evaluate(c, fns)
  BY HalfFacts DEF HalfRectified
<1>2. Choosing(c, ctx)
  <2>1. DOMAIN ctx.lazy \subseteq c.nets \ ctx.outs
    <3>1. HybridNames(c, fns, vals, ctx, kept, fails, NoPresCheck(c, fns, vals, fails))
      BY <1>1, HybridCtxIs
    <3>. QED BY <3>1 DEF HybridNames
  <2>. QED BY <2>1, <1>1, SubjectFacts DEF Choosing
<1>3. CarriedBy(c, ctx, R)
  BY HybridCarried
<1>4. PICK lits : lits = CurLits(c, fns)
  OBVIOUS
<1>5. /\ DOMAIN lits = {n \in NetsOf(c) : vals[n] # Unset}
      /\ \A n \in DOMAIN lits : lits[n] \in Lits /\ Carries(c, lits[n], vals[n])
  <2>1. Gated(c) /\ PatchesOK(c, fns) /\ FinitePatches(fns) /\ vals = Evaluate(c, fns)
    BY <1>1 DEF Subject, Rectified
  <2>. QED BY ONLY <1>4, <2>1, CurLitsAre
<1>6. /\ DOMAIN spec = fails \union kept
      /\ \A n \in DOMAIN spec : spec[n] = IF n \in fails THEN c.r2[n] ELSE lits[n]
  BY <1>4 DEF HybridSpec
<1>7. kept \subseteq c.nets /\ \A n \in kept : vals[n] # Unset
  BY <1>1, SubjectFacts DEF HybridKept, Readers, Consumers, Rectified
<1>8. ASSUME NEW n \in DOMAIN spec
      PROVE  Valued(c, spec[n]) /\ n \in DOMAIN R /\ R[n] = Value(c, spec[n])
  <2>1. n \in NetsOf(c) /\ DOMAIN R = NetsOf(c)
    BY <1>1, <1>6, <1>7, <1>8 DEF HybridValues, NetsOf
  <2>2. CASE n \in fails
    <3>1. R[n] = c.spec[n] /\ spec[n] = c.r2[n]
      BY <1>6, <2>2 DEF HybridValues
    <3>. QED BY <1>1, <2>1, <2>2, <3>1, R2Valued
  <2>3. CASE n \notin fails
    <3>1. n \in kept \ fails /\ spec[n] = lits[n] /\ n \in DOMAIN lits
      BY <1>5, <1>6, <1>7, <1>8, <2>1, <2>3
    <3>2. R[n] = vals[n] /\ Carries(c, lits[n], vals[n])
      BY <1>5, <3>1 DEF HybridValues
    <3>. QED BY <2>1, <3>1, <3>2, CarriedValue
  <2>. QED BY <2>2, <2>3
<1>9. SpecMeant(c, ctx, R, rest, spec)
  <2>1. \A n \in DOMAIN spec : Valued(c, spec[n])
    BY <1>8
  <2>. QED BY <1>1, <1>2, <1>3, <2>1, BuiltMeant
<1>10. \A o, k : LastFor(rest, o, k) => LitExplained(c, R, o, rest[k].lit)
  BY <1>8, <1>9, LitsExplained
<1>. QED BY <1>9, <1>10

(* Fixes first, the rest behind them.                                      *)
FromFirst(fix, rest, ts, i) == i \in DOMAIN fix /\ ts[i] = fix[i]
FromRest(fix, rest, ts, i) ==
  i \in Int /\ i > Len(fix) /\ i - Len(fix) \in DOMAIN rest /\ ts[i] = rest[i - Len(fix)]

JoinedAs(fix, rest, ts) ==
  /\ TargetNets(ts) = TargetNets(fix) \union TargetNets(rest)
  /\ \A i \in DOMAIN ts : FromFirst(fix, rest, ts, i) \/ FromRest(fix, rest, ts, i)
  /\ \A i \in DOMAIN rest : i + Len(fix) \in DOMAIN ts /\ ts[i + Len(fix)] = rest[i]

LEMMA Joined ==
  ASSUME NEW c, NEW fix, IsTargets(c, fix), NEW rest, IsTargets(c, rest), NEW ts, ts = fix \o rest
  PROVE  IsTargets(c, ts) /\ JoinedAs(fix, rest, ts)
<1>1. IsTargets(c, ts)
  BY TargetsJoined
<1>2. PICK V : V = [out : c.nets, lit : Plain]
  OBVIOUS
<1>3. fix \in Seq(V) /\ rest \in Seq(V)
  BY <1>2 DEF IsTargets
<1>4. /\ Len(fix) \in Nat /\ Len(rest) \in Nat
      /\ DOMAIN fix = 1 .. Len(fix) /\ DOMAIN rest = 1 .. Len(rest)
      /\ DOMAIN ts = 1 .. Len(fix) + Len(rest)
      /\ \A i \in DOMAIN ts : ts[i] = IF i <= Len(fix) THEN fix[i] ELSE rest[i - Len(fix)]
  BY ONLY <1>3, ts = fix \o rest
<1>5. ASSUME NEW i \in DOMAIN ts PROVE FromFirst(fix, rest, ts, i) \/ FromRest(fix, rest, ts, i)
  BY <1>4, <1>5 DEF FromFirst, FromRest
<1>6. ASSUME NEW i \in DOMAIN rest
      PROVE  i + Len(fix) \in DOMAIN ts /\ ts[i + Len(fix)] = rest[i]
  BY <1>4, <1>6
<1>7. ASSUME NEW i \in DOMAIN fix PROVE i \in DOMAIN ts /\ ts[i] = fix[i]
  BY <1>4, <1>7
<1>8. TargetNets(ts) \subseteq TargetNets(fix) \union TargetNets(rest)
  BY <1>5 DEF TargetNets, FromFirst, FromRest
<1>9. TargetNets(fix) \subseteq TargetNets(ts)
  BY <1>7 DEF TargetNets
<1>10. TargetNets(rest) \subseteq TargetNets(ts)
  BY <1>6 DEF TargetNets
<1>11. JoinedAs(fix, rest, ts)
  BY <1>5, <1>6, <1>8, <1>9, <1>10 DEF JoinedAs
<1>. QED BY <1>1, <1>11

LEMMA LastJoined ==
  ASSUME NEW c, NEW fix, IsTargets(c, fix), NEW rest, IsTargets(c, rest),
         NEW ts, JoinedAs(fix, rest, ts), NEW o, NEW k, LastFor(ts, o, k)
  PROVE  \/ k \in DOMAIN fix /\ ts[k] = fix[k] /\ fix[k].out = o /\ o \notin TargetNets(rest)
         \/ LastFor(rest, o, k - Len(fix)) /\ ts[k] = rest[k - Len(fix)]
<1>1. /\ \A i \in DOMAIN ts : FromFirst(fix, rest, ts, i) \/ FromRest(fix, rest, ts, i)
      /\ \A i \in DOMAIN rest : i + Len(fix) \in DOMAIN ts /\ ts[i + Len(fix)] = rest[i]
  BY DEF JoinedAs
<1>2. k \in DOMAIN ts /\ ts[k].out = o /\ \A i \in DOMAIN ts : ts[i].out = o => i <= k
  BY DEF LastFor
<1>3. /\ Len(fix) \in Nat /\ DOMAIN rest \subseteq Nat /\ DOMAIN fix = 1 .. Len(fix)
  BY DEF IsTargets
<1>4. CASE FromFirst(fix, rest, ts, k)
  <2>1. ASSUME NEW i \in DOMAIN rest, rest[i].out = o PROVE FALSE
    <3>1. i + Len(fix) <= k /\ k <= Len(fix) /\ k \in Nat /\ i \in Nat
      BY <1>1, <1>2, <1>3, <1>4, <2>1 DEF FromFirst
    <3>2. i = 0
      BY <1>3, <3>1
    <3>3. 0 \notin DOMAIN rest
      BY DEF IsTargets
    <3>. QED BY <2>1, <3>2, <3>3
  <2>. QED BY <1>2, <1>4, <2>1 DEF FromFirst, TargetNets
<1>5. CASE FromRest(fix, rest, ts, k)
  <2>1. ASSUME NEW i \in DOMAIN rest, rest[i].out = o PROVE i <= k - Len(fix)
    <3>1. i + Len(fix) <= k
      BY <1>1, <1>2, <2>1
    <3>. QED BY <1>3, <1>5, <3>1 DEF FromRest
  <2>. QED BY <1>2, <1>5, <2>1 DEF FromRest, LastFor
<1>. QED BY <1>1, <1>2, <1>4, <1>5

LEMMA FixLitExplained ==
  ASSUME NEW c, NEW fns, NEW fix, Fixing(c, fns, fix), NEW R, R \in [NetsOf(c) -> Values(c)],
         \A n \in NetsOf(c) : R[n] # Unset, NEW k \in DOMAIN fix, NEW o, o = fix[k].out,
         R[o] = PatchValue(c, R, fns[o])
  PROVE  LitExplained(c, R, o, fix[k].lit)
<1>1. PICK f, l : f = fns[o] /\ l = fix[k].lit
  OBVIOUS
<1>2. FixOf(c, f, o, l) /\ IsWhole(c) /\ c.nets \subseteq Nat /\ IsCircuit(c) /\ o \in c.nets
  BY <1>1, TargetsFields DEF Fixing, IsWhole
<1>3. l = PortsFnLit(f) /\ IsFiniteSet(f.sup) /\ f.sup \subseteq c.nets \union {-o}
  BY <1>2 DEF FixOf
<1>4. f.sup \subseteq Int
  BY <1>2, <1>3
<1>5. ASSUME NEW p \in f.sup PROVE PortValue(c, R, p) \subseteq Patterns(c)
  <2>1. CASE p \in c.nets
    <3>1. p > 0 /\ p \in NetsOf(c)
      BY <1>2, <2>1 DEF IsCircuit, NetsOf
    <3>2. R[p] \in Values(c) /\ R[p] # Unset
      BY <3>1
    <3>. QED BY <3>1, <3>2 DEF PortValue, Values
  <2>2. CASE p = -o
    <3>1. -p = o /\ ~(p > 0)
      BY <1>2, <2>2
    <3>2. CASE o \in Inputs(c)
      BY <1>2, <3>1, <3>2 DEF PortValue, IsCircuit
    <3>3. CASE o \notin Inputs(c)
      <4>1. c.gate[o].type \in GateTypes
        BY <1>2, <3>3 DEF IsWhole, IsCircuit
      <4>. QED BY <3>1, <3>3, <4>1, GateFnTyped DEF PortValue
    <3>. QED BY <3>2, <3>3
  <2>. QED BY <1>3, <2>1, <2>2
<1>6. LitValue(c, R, PortsFnLit(f)) = PatchValue(c, R, f)
  BY <1>3, <1>4, <1>5, FnLitMeant
<1>7. o \in DOMAIN R
  BY <1>2 DEF NetsOf
<1>. QED BY <1>1, <1>3, <1>6, <1>7 DEF LitExplained

(* A hybrid candidate: both parts mean what they should.                   *)
HybridParts(c, fns, vals, ctx, kept, fails, R, fix, rest, spec) ==
  /\ IsWhole(c) /\ c.nets \subseteq Nat /\ HybridValues(c, fns, vals, ctx, kept, fails, R)
  /\ ctx.outs = DOMAIN fns \union fails \union kept /\ kept \intersect DOMAIN fns \subseteq fails
  /\ Fixing(c, fns, fix) /\ IsTargets(c, rest) /\ TargetNets(rest) = fails \union kept
  /\ SpecMeant(c, ctx, R, rest, spec)
  /\ \A o, k : LastFor(rest, o, k) => LitExplained(c, R, o, rest[k].lit)

LEMMA HybridExplained ==
  ASSUME NEW c, NEW fns, NEW vals, NEW ctx, NEW kept, NEW fails, NEW R, NEW fix, NEW rest, NEW spec,
         HybridParts(c, fns, vals, ctx, kept, fails, R, fix, rest, spec), NEW ts, ts = fix \o rest
  PROVE  Explains(c, ts, R) /\ PortsFit(c, ts) /\ IsTargets(c, ts)
<1>1. /\ HybridValues(c, fns, vals, ctx, kept, fails, R) /\ Fixing(c, fns, fix)
      /\ ctx.outs = DOMAIN fns \union fails \union kept
      /\ IsTargets(c, fix) /\ TargetNets(fix) = DOMAIN fns
      /\ IsTargets(c, rest) /\ TargetNets(rest) = fails \union kept
  BY DEF HybridParts, Fixing
<1>2. /\ IsTargets(c, ts) /\ TargetNets(ts) = ctx.outs
  <2>1. IsTargets(c, fix) /\ IsTargets(c, rest)
    BY <1>1
  <2>2. JoinedAs(fix, rest, ts)
    BY ONLY <2>1, ts = fix \o rest, Joined
  <2>3. IsTargets(c, ts)
    BY ONLY <2>1, ts = fix \o rest, Joined
  <2>. QED BY <1>1, <2>2, <2>3 DEF JoinedAs
<1>3. DOMAIN R = NetsOf(c)
  BY <1>1 DEF HybridValues
<1>4. ASSUME NEW n \in {0, 1} PROVE n \in DOMAIN R /\ R[n] = Const(c, n)
  BY <1>1, <1>3 DEF HybridValues, NetsOf
<1>5. ASSUME NEW n \in c.nets \ TargetNets(ts) PROVE NetExplained(c, R, n)
  BY <1>1, <1>2, <1>3 DEF HybridValues, NetsOf, NetExplained
<1>6. ASSUME NEW o, NEW k, LastFor(ts, o, k) PROVE LitExplained(c, R, o, ts[k].lit)
  <2>1. \/ k \in DOMAIN fix /\ ts[k] = fix[k] /\ fix[k].out = o /\ o \notin TargetNets(rest)
        \/ LastFor(rest, o, k - Len(fix)) /\ ts[k] = rest[k - Len(fix)]
    <3>1. IsTargets(c, fix) /\ IsTargets(c, rest)
      BY ONLY <1>1
    <3>2. LastFor(ts, o, k)
      BY ONLY <1>6
    <3>3. JoinedAs(fix, rest, ts)
      BY ONLY <3>1, ts = fix \o rest, Joined
    <3>. QED BY ONLY <3>1, <3>2, <3>3, LastJoined
  <2>2. CASE k \in DOMAIN fix /\ ts[k] = fix[k] /\ fix[k].out = o /\ o \notin TargetNets(rest)
    <3>1. o \in DOMAIN fns \ fails
      BY <1>1, <2>2 DEF TargetNets
    <3>2. /\ R \in [NetsOf(c) -> Values(c)] /\ \A n \in NetsOf(c) : R[n] # Unset
          /\ R[o] = PatchValue(c, R, fns[o])
      BY <1>1, <3>1 DEF HybridValues
    <3>3. LitExplained(c, R, o, fix[k].lit)
      BY <1>1, <2>2, <3>2, FixLitExplained
    <3>. QED BY <2>2, <3>3
  <2>3. CASE LastFor(rest, o, k - Len(fix)) /\ ts[k] = rest[k - Len(fix)]
    BY <2>3 DEF HybridParts
  <2>. QED BY <2>1, <2>2, <2>3
<1>7. Explains(c, ts, R)
  BY <1>4, <1>5, <1>6 DEF Explains
<1>8. PortsFit(c, ts)
  <2>1. ASSUME NEW i \in DOMAIN ts, NEW p \in PortsOf(ts[i].lit)
        PROVE  p \in c.nets \/ -p \in TargetNets(ts)
    <3>1. FromFirst(fix, rest, ts, i) \/ FromRest(fix, rest, ts, i)
      <4>1. JoinedAs(fix, rest, ts)
        BY <1>1, Joined
      <4>. QED BY <4>1 DEF JoinedAs
    <3>2. CASE FromFirst(fix, rest, ts, i)
      <4>1. i \in DOMAIN fix /\ ts[i] = fix[i] /\ fix[i].out \in TargetNets(fix)
        BY <3>2 DEF FromFirst, TargetNets
      <4>2. PICK f, t, l : f = fns[fix[i].out] /\ t = fix[i].out /\ l = fix[i].lit
        OBVIOUS
      <4>3. FixOf(c, f, t, l)
        BY <1>1, <4>1, <4>2 DEF Fixing
      <4>4. p \in c.nets \union {-t} /\ t \in DOMAIN fns /\ t \in c.nets
        BY <1>1, <2>1, <4>1, <4>2, <4>3, TargetsFields DEF FixOf
      <4>5. t \in Nat
        BY <4>4 DEF HybridParts
      <4>. QED BY <1>1, <1>2, <4>4, <4>5
    <3>3. CASE FromRest(fix, rest, ts, i)
      <4>1. PICK j \in DOMAIN rest : ts[i] = rest[j]
        BY <3>3 DEF FromRest
      <4>2. p \in PortsOf(rest[j].lit)
        BY <2>1, <4>1
      <4>3. p \in c.nets \/ -p \in ctx.outs
        BY <4>2 DEF HybridParts, SpecMeant
      <4>. QED BY <1>2, <4>3
    <3>. QED BY <3>1, <3>2, <3>3
  <2>. QED BY <2>1 DEF PortsFit
<1>. QED BY <1>2, <1>7, <1>8

HybridGives(c, fns, vals, fails) ==
  IF NoPresCheck(c, fns, vals, fails) THEN Settle(c, fns, GivenSpec(c, fns, fails)) ELSE GivenFails(c, vals, fails)

LEMMA HybridSound ==
  ASSUME NEW c, Fresh(c), NEW fns, NEW vals, NEW fxs, NEW fails, HalfRectified(c, fns, vals, fxs, fails),
         NEW fix, fix = FixTargets(fxs), Fixing(c, fns, fix), NEW mrg,
         NEW ts, ts = Hybrid(c, fns, vals, fxs, fails, mrg), ts # <<>>,
         NEW v, v = EvalPatched(c, CandidatePatch(c, ts)), NEW R, R = HybridGives(c, fns, vals, fails)
  PROVE  \A n \in c.nets : Kept(v, R, n)
<1>1. PICK ctx, spec, kept, rest :
        /\ ctx = HybridCtx(c, fns, vals, fxs, fails, mrg) /\ spec = HybridSpec(c, fns, vals, fxs, fails)
        /\ kept = HybridKept(c, fns, vals, fxs, fails) /\ rest = Expressed(c, ctx, spec)
  OBVIOUS
<1>2. /\ Subject(c) /\ Rectified(c, fns, vals, fxs, fails) /\ DOMAIN fns = Fixed(fxs)
      /\ IsWhole(c) /\ c.nets \subseteq Nat
  BY HalfFacts DEF HalfRectified
<1>3. /\ BuiltFor(c, ctx, spec, rest)
      /\ ts = IF fails # {} /\ rest = <<>> THEN <<>> ELSE fix \o rest
  BY <1>1, <1>2, HybridBuilt
<1>4. ts = fix \o rest /\ (fails # {} => rest # <<>>)
  BY <1>3
<1>5. HybridValues(c, fns, vals, ctx, kept, fails, R)
  <2>1. CASE NoPresCheck(c, fns, vals, fails)
    BY <1>1, <2>1, NoPresValues DEF HybridGives
  <2>2. CASE ~NoPresCheck(c, fns, vals, fails)
    BY <1>1, <2>2, PresValues DEF HybridGives
  <2>. QED BY <2>1, <2>2
<1>6. /\ SpecMeant(c, ctx, R, rest, spec)
      /\ \A o, k : LastFor(rest, o, k) => LitExplained(c, R, o, rest[k].lit)
  BY ONLY HalfRectified(c, fns, vals, fxs, fails), <1>1, <1>3, <1>5, HybridMeant
<1>7. ctx.outs = DOMAIN fns \union fails \union kept
  <2>1. HybridNames(c, fns, vals, ctx, kept, fails, NoPresCheck(c, fns, vals, fails))
    BY <1>1, <1>2, HybridCtxIs
  <2>. QED BY <2>1 DEF HybridNames
<1>8. kept \intersect DOMAIN fns \subseteq fails /\ (fails = {} => kept = {})
  BY <1>1, <1>2 DEF HybridKept, Readers, Consumers
<1>9. IsTargets(c, rest) /\ TargetNets(rest) = fails \union kept
  <2>1. DOMAIN spec = fails \union kept
    BY <1>1 DEF HybridSpec
  <2>2. CASE rest # <<>>
    BY <1>3, <2>1, <2>2 DEF BuiltFor
  <2>3. CASE rest = <<>>
    <3>1. fails \union kept = {}
      BY <1>4, <1>8, <2>3
    <3>2. TargetNets(rest) = {}
      BY <2>3 DEF TargetNets
    <3>. QED BY <1>3, <3>1, <3>2 DEF BuiltFor
  <2>. QED BY <2>2, <2>3
<1>10. HybridParts(c, fns, vals, ctx, kept, fails, R, fix, rest, spec)
  BY <1>2, <1>5, <1>6, <1>7, <1>8, <1>9 DEF HybridParts
<1>11. Explains(c, ts, R) /\ PortsFit(c, ts) /\ IsTargets(c, ts)
  BY <1>4, <1>10, HybridExplained
<1>. QED BY <1>2, <1>11, CandidateSound

(* What the hybrid candidate gives the outputs is right: those that fail   *)
(* have R2's function, the others are right already or, as noPresCheck     *)
(* found out, in the end.                                                  *)
LEMMA HybridGivesSpec ==
  ASSUME TrajInv, NoPresRight, phase = "verify", fixes # <<>>, ~result,
         NEW S, S = Failing(cur), Untouched(S), NEW o \in circ.pos
  PROVE  HybridGives(circ, drv, cur, S)[o] = circ.spec[o]
<1>1. circ \in Circuits /\ circ.pos \subseteq circ.nets
  BY CircuitFacts DEF TrajInv
<1>2. CASE NoPresCheck(circ, drv, cur, S)
  <2>1. Repaired(S)[o] = circ.spec[o]
    BY <1>2 DEF NoPresRight
  <2>. QED BY <1>2, <2>1 DEF HybridGives, Repaired
<1>3. CASE ~NoPresCheck(circ, drv, cur, S)
  <2>1. o \in NetsOf(circ) /\ (o \notin S => cur[o] = circ.spec[o])
    BY <1>1 DEF NetsOf, Failing
  <2>. QED BY <1>3, <2>1 DEF HybridGives, GivenFails
<1>. QED BY <1>2, <1>3

LEMMA HalfRectifiedNow ==
  ASSUME OriginInv, DoneInv, phase = "verify", fixes # <<>>, ~result, OldValuesStable,
         NEW S, S = Failing(cur), Untouched(S)
  PROVE  HalfRectified(circ, drv, cur, fixes, S)
<1>1. TrajInv /\ FixesMatch /\ KeptSet /\ circ \in Circuits /\ cur = Evaluate(circ, drv)
  BY DEF OriginInv, TrajInv
<1>2. Subject(circ)
  BY <1>1, SubjectNow
<1>3. /\ FixesTyped(circ, fixes) /\ PatchesOK(circ, drv) /\ FinitePatches(drv)
      /\ S \subseteq circ.pos
  BY <1>1, FixesAreTyped DEF Failing
<1>4. Rectified(circ, drv, cur, fixes, S)
  BY <1>1, <1>3 DEF Rectified, KeptSet
<1>5. Whole(circ, drv, cur)
  BY StableIs DEF DoneInv
<1>6. DOMAIN drv = Fixed(fixes)
  BY <1>1 DEF FixesMatch, Targets, Fixed
<1>7. LooksAway(circ, drv, S)
  BY DEF LooksAway, Untouched, DependsOn, Depends
<1>. QED BY <1>2, <1>4, <1>5, <1>6, <1>7 DEF HalfRectified

LEMMA HybridNow ==
  ASSUME OriginInv, DoneInv, NoPresRight, NEW x \in patches, x.from = "R", ~result, WiresFresh,
         OldValuesStable, Untouched(Failing(cur)), NEW o \in circ.pos, Net(o) \in DOMAIN Val(x.patch)
  PROVE  Val(x.patch)[Net(o)] = circ.spec[o]
<1>1. phase = "verify" /\ FromTargets(x, RectifierTargets)
  BY DEF OriginInv, Origin
<1>2. TrajInv /\ FixesMatch /\ circ \in Circuits /\ circ.pos \subseteq circ.nets
  BY <1>1, CircuitFacts DEF OriginInv, TrajInv
<1>3. fixes # <<>>
  <2>1. fixes = <<>> => FixTargets(fixes) = <<>>
    BY DEF FixTargets
  <2>. QED BY <1>1, <2>1 DEF FromTargets, RectifierTargets
<1>4. PICK S, fix, ts, v, R :
        /\ S = Failing(cur) /\ fix = FixTargets(fixes)
        /\ ts = Hybrid(circ, drv, cur, fixes, S, merged) /\ v = Val(x.patch)
        /\ R = HybridGives(circ, drv, cur, S)
  OBVIOUS
<1>5. ts # <<>> /\ v = EvalPatched(circ, CandidatePatch(circ, ts))
  BY <1>1, <1>3, <1>4 DEF FromTargets, RectifierTargets, Val
<1>6. Fixing(circ, drv, fix) /\ Fresh(circ)
  BY <1>2, <1>4, FixesFixing, FreshNow
<1>7. HalfRectified(circ, drv, cur, fixes, S)
  BY <1>1, <1>3, <1>4, HalfRectifiedNow
<1>8. Kept(v, R, o)
  BY <1>2, <1>4, <1>5, <1>6, <1>7, HybridSound
<1>9. R[o] = circ.spec[o]
  BY <1>1, <1>2, <1>3, <1>4, HybridGivesSpec
<1>. QED BY <1>4, <1>8, <1>9 DEF Kept

(* For all circuits: the hybrid candidate gives no output a wrong value.   *)
THEOREM HybridCorrect == TrajSpec => []HybridRight
<1>1. OriginInv /\ DoneInv /\ NoPresRight => HybridRight
  <2>. SUFFICES ASSUME OriginInv, DoneInv, NoPresRight PROVE HybridRight
    OBVIOUS
  <2>. QED BY HybridNow DEF HybridRight
<1>. QED BY <1>1, AlwaysOrigin, AlwaysDone, NoPresCorrect, PTL
=============================================================================
