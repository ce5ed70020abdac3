------------------------------- MODULE AigSat -------------------------------
(***************************************************************************)
(* The AND-inverter graph of aig.hpp and the incremental SAT front end of  *)
(* sat.hpp, as a round of Rectifier::run uses them.  A node is known by    *)
(* its index, and four things are kept per index next to the nodes: the    *)
(* structural hash table, the simulation words, how far they are up to     *)
(* date, and the SAT variable with its clauses.  At the start of a round   *)
(* the scratch nodes of the round before are dropped and their indices are *)
(* used again, so that all four must forget them.                          *)
(*                                                                         *)
(* A candidate is a set of literals (bad0 and bad1, or the four cofactors  *)
(* of a pair): it is valid when no input makes all of them true.  It is    *)
(* screened by simulation first and then given to the solver, whose        *)
(* counterexample is stored as one more simulation pattern.                *)
(***************************************************************************)
EXTENDS Integers, FiniteSets

CONSTANTS
  Base,       \* the graph when run() starts: index -> node
  Slots,      \* the simulation patterns,
  CareSlots,  \* and those counterexamples are stored in (the last 2 words)
  Seeds,      \* the PI rows simInit may start with: PI -> set of Slots
  MaxVars,    \* bound on nodes, for TLC
  MaxRounds   \* rounds of run()

Pi == [f0 |-> -1, f1 |-> -1]
And(a, b) == [f0 |-> a, f1 |-> b]

Mark == Cardinality(DOMAIN Base)   \* rollbackMark

VarOf(l) == l \div 2
Phase(l) == l % 2
NotLit(l) == IF l % 2 = 0 THEN l + 1 ELSE l - 1

(* Node 0 is the constant; the fanins of an AND are two different          *)
(* variables of smaller index, the smaller literal first; no two are alike.*)
WellFormed(g) ==
  /\ g[0] = Pi
  /\ \A v \in DOMAIN g :
       \/ g[v] = Pi
       \/ /\ g[v].f0 \in Nat /\ g[v].f1 \in Nat /\ g[v] = And(g[v].f0, g[v].f1)
          /\ 2 <= g[v].f0 /\ g[v].f0 < g[v].f1 /\ g[v].f1 < 2 * v
  /\ \A u, v \in DOMAIN g : g[u] # Pi /\ g[u] = g[v] => u = v

RealPis == {v \in DOMAIN Base : v # 0 /\ Base[v] = Pi}

ASSUME AigSatAssumption ==
  /\ IsFiniteSet(DOMAIN Base) /\ 0 \in DOMAIN Base
  /\ DOMAIN Base = 0 .. Mark - 1
  /\ WellFormed(Base)
  /\ CareSlots \subseteq Slots /\ Seeds \subseteq [RealPis -> SUBSET Slots]
  /\ MaxVars \in Nat /\ MaxRounds \in Nat

VARIABLES
  nodes,    \* index -> node
  strash,   \* <<f0, f1>> -> index
  sim,      \* index -> the patterns on which the node is 1
  simmed,   \* the ANDs below are up to date in sim
  satVar,   \* index -> SAT variable, 0 if not encoded
  clauses,  \* SAT variable -> what the solver knows of it
  round,
  pc,       \* "build", "screen", "solve"
  cand,     \* the candidate at work: a set of literals
  verdict   \* what was found out about it

aigVars == <<nodes, strash>>
simVars == <<sim, simmed>>
satVars == <<satVar, clauses>>
vars == <<aigVars, simVars, satVars, round, pc, cand, verdict>>

Vars == DOMAIN nodes
NumVars == Cardinality(Vars)
Lits == 0 .. 2 * NumVars - 1
IsAnd(v) == nodes[v] # Pi
Pis == {v \in Vars : v # 0 /\ ~IsAnd(v)}

-----------------------------------------------------------------------------
(* Structural hashing.                                                     *)

StrashOf(g) ==
  [k \in {<<g[v].f0, g[v].f1>> : v \in {u \in DOMAIN g : g[u] # Pi}} |->
     CHOOSE v \in DOMAIN g : g[v] = And(k[1], k[2])]

(* mkAnd needs a node for a and b, a < b: neither is constant, they are    *)
(* not each other's complement, and no node has these fanins.              *)
NeedsNodeAlways(a, b) == a < b /\ 2 <= a /\ b # NotLit(a)   \* mutant
NeedsNode(a, b) ==
  /\ a < b /\ 2 <= a /\ b # NotLit(a)
  /\ <<a, b>> \notin DOMAIN strash

AddNode(nd) == nodes' = [v \in 0 .. NumVars |-> IF v = NumVars THEN nd ELSE nodes[v]]

-----------------------------------------------------------------------------
(* Simulation.                                                             *)

LitRow(rows, l) ==
  IF Phase(l) = 0 THEN rows[VarOf(l)] ELSE Slots \ rows[VarOf(l)]

AndRow(rows, v) == LitRow(rows, nodes[v].f0) \intersect LitRow(rows, nodes[v].f1)

(* sim after simEnsure: nodes that have no words yet get zeros.            *)
Ensured == [v \in Vars |-> IF v \in DOMAIN sim THEN sim[v] ELSE {}]

(* simEvalFrom: all words of the ANDs from simmed on, in index order.      *)
EvalFrom(old) ==
  LET rows[v \in Vars] == IF v >= simmed /\ IsAnd(v) THEN AndRow(rows, v) ELSE old[v]
  IN  rows

(* simRecomputeWords on the care words, for all ANDs.                      *)
RecomputeCare(old) ==
  LET rows[v \in Vars] ==
        IF IsAnd(v) THEN (old[v] \ CareSlots) \union (AndRow(rows, v) \intersect CareSlots)
        ELSE old[v]
  IN  rows

(* simSetPiBit for every real PI, from the solver's model.                 *)
Inject(old, slot, ones) ==
  [v \in DOMAIN old |->
     IF v \notin RealPis THEN old[v]
     ELSE IF v \in ones THEN old[v] \union {slot} ELSE old[v] \ {slot}]

(* What becomes of the words when a counterexample is stored.              *)
StoredNoRecompute(slot, ones) == EvalFrom(Inject(Ensured, slot, ones))   \* mutant
Stored(slot, ones) == RecomputeCare(EvalFrom(Inject(Ensured, slot, ones)))

-----------------------------------------------------------------------------
(* The solver: what it knows of a SAT variable is that it is false, or     *)
(* nothing, or that it is the conjunction of two SAT literals.             *)

Free == [kind |-> "free", a |-> 0, b |-> 0]
False0 == [kind |-> "false", a |-> 0, b |-> 0]
Conj(a, b) == [kind |-> "and", a |-> a, b |-> b]

SatVarOf(v) == IF v \in DOMAIN satVar THEN satVar[v] ELSE 0
SatLit(l) == IF Phase(l) = 0 THEN SatVarOf(VarOf(l)) ELSE -SatVarOf(VarOf(l))

(* What the clauses of a node say of its SAT variable.                     *)
ClauseOf(v) ==
  IF v = 0 THEN False0
  ELSE IF IsAnd(v) THEN Conj(SatLit(nodes[v].f0), SatLit(nodes[v].f1))
  ELSE Free

FaninsEncoded(v) ==
  IsAnd(v) => SatVarOf(VarOf(nodes[v].f0)) # 0 /\ SatVarOf(VarOf(nodes[v].f1)) # 0

(* attach: only the constant is encoded.                                   *)
Attached(n) == [v \in 0 .. n - 1 |-> IF v = 0 THEN 1 ELSE 0]

Holds(val, x) == IF x < 0 THEN ~val[-x] ELSE val[x]

(* The values of the SAT variables, given the free ones that are true.     *)
SatValues(ones) ==
  LET val[x \in DOMAIN clauses] ==
        \/ clauses[x].kind = "free" /\ x \in ones
        \/ clauses[x].kind = "and" /\ Holds(val, clauses[x].a) /\ Holds(val, clauses[x].b)
  IN  val

Models(lits) ==
  {ones \in SUBSET {x \in DOMAIN clauses : clauses[x].kind = "free"} :
     \A l \in lits : Holds(SatValues(ones), SatLit(l))}

(* The nodes lits depend on: in every set that has the variables of lits   *)
(* and, with an AND, its fanins.                                           *)
Closed(T) ==
  \A v \in T : IsAnd(v) => VarOf(nodes[v].f0) \in T /\ VarOf(nodes[v].f1) \in T

Cone(lits) ==
  {v \in Vars : \A T \in SUBSET Vars :
     (\A l \in lits : VarOf(l) \in T) /\ Closed(T) => v \in T}

Unencoded(lits) == {v \in Cone(lits) : SatVarOf(v) = 0}

-----------------------------------------------------------------------------
NoVerdict == [kind |-> "none", slot |-> 0]

Init ==
  /\ nodes = Base /\ strash = StrashOf(Base)
  /\ simmed = Mark
  /\ \E s \in Seeds :
       sim = LET rows[v \in DOMAIN Base] ==
                   IF Base[v] # Pi
                   THEN LitRow(rows, Base[v].f0) \intersect LitRow(rows, Base[v].f1)
                   ELSE IF v = 0 THEN {} ELSE s[v]
             IN  rows
  /\ satVar = Attached(Mark) /\ clauses = [x \in {1} |-> False0]
  /\ round = 0 /\ pc = "build" /\ cand = {} /\ verdict = NoVerdict

(* newPi, by aigCopy for a second copy of an input.                        *)
NewPi ==
  /\ pc = "build" /\ NumVars < MaxVars
  /\ AddNode(Pi)
  /\ verdict' = NoVerdict
  /\ UNCHANGED <<strash, simVars, satVars, round, pc, cand>>

(* mkAnd when it creates a node; otherwise it changes nothing.             *)
MkAnd ==
  /\ pc = "build" /\ NumVars < MaxVars
  /\ \E a, b \in Lits :
       /\ NeedsNode(a, b)
       /\ AddNode(And(a, b))
       /\ strash' = [k \in DOMAIN strash \union {<<a, b>>} |->
                       IF k = <<a, b>> THEN NumVars ELSE strash[k]]
  /\ verdict' = NoVerdict
  /\ UNCHANGED <<simVars, satVars, round, pc, cand>>

(* A candidate has been built over the real inputs: simEvalFrom, screen it.*)
Collect ==
  /\ pc = "build"
  /\ \E l, m \in Lits :
       /\ l < m /\ VarOf(m) >= Mark
       /\ Cone({l, m}) \intersect Pis \subseteq RealPis
       /\ cand' = {l, m}
  /\ sim' = EvalFrom(Ensured) /\ simmed' = NumVars
  /\ pc' = "screen" /\ verdict' = NoVerdict
  /\ UNCHANGED <<aigVars, satVars, round>>

(* It is looked at once more, after more nodes and more patterns.          *)
Again ==
  /\ pc = "build" /\ cand # {}
  /\ pc' = "screen" /\ verdict' = NoVerdict
  /\ UNCHANGED <<aigVars, simVars, satVars, round, cand>>

(* A pattern on which all its literals are 1 kills it, without the solver. *)
Screen ==
  /\ pc = "screen"
  /\ IF \E s \in Slots : \A l \in cand : s \in LitRow(sim, l)
     THEN pc' = "build" /\ verdict' = [kind |-> "killed", slot |-> 0]
     ELSE pc' = "solve" /\ verdict' = verdict
  /\ UNCHANGED <<aigVars, simVars, satVars, round, cand>>

(* encodeVar: one node, whose fanins are encoded.                          *)
Encode ==
  /\ pc = "solve"
  /\ \E v \in Unencoded(cand) :
       LET x == Cardinality(DOMAIN clauses) + 1 IN
       /\ \A u \in Unencoded(cand) : v <= u
       /\ satVar' = [u \in Vars |-> IF u = v THEN x ELSE SatVarOf(u)]
       /\ clauses' = [y \in DOMAIN clauses \union {x} |->
                        IF y = x THEN ClauseOf(v) ELSE clauses[y]]
  /\ UNCHANGED <<aigVars, simVars, round, pc, cand, verdict>>

(* solve under assumptions: a model, whose inputs become a pattern; none;  *)
(* or the conflict limit was hit.                                          *)
Refute ==
  /\ pc = "solve" /\ Unencoded(cand) = {}
  /\ \E model \in Models(cand), slot \in CareSlots :
       /\ sim' = Stored(slot, {v \in RealPis : SatVarOf(v) # 0 /\ SatValues(model)[SatVarOf(v)]})
       /\ verdict' = [kind |-> "refuted", slot |-> slot]
  /\ simmed' = NumVars /\ pc' = "build"
  /\ UNCHANGED <<aigVars, satVars, round, cand>>

Confirm ==
  /\ pc = "solve" /\ Unencoded(cand) = {}
  /\ Models(cand) = {}
  /\ pc' = "build" /\ verdict' = [kind |-> "valid", slot |-> 0]
  /\ UNCHANGED <<aigVars, simVars, satVars, round, cand>>

Undecided ==
  /\ pc = "solve" /\ Unencoded(cand) = {}
  /\ pc' = "build" /\ verdict' = NoVerdict
  /\ UNCHANGED <<aigVars, simVars, satVars, round, cand>>

(* A new round: rollback drops the scratch nodes and what is kept of them. *)
StrashKept == strash            \* mutant
StrashRolledBack ==
  [k \in {j \in DOMAIN strash : strash[j] < Mark} |-> strash[k]]

SimmedKept == simmed            \* mutant
SimmedRolledBack == IF simmed <= Mark THEN simmed ELSE Mark

EncodingKept == UNCHANGED satVars                       \* mutant
EncodingDropped ==
  /\ satVar' = Attached(Mark)
  /\ clauses' = [x \in {1} |-> False0]

NewRound ==
  /\ pc = "build" /\ round < MaxRounds
  /\ nodes' = [v \in 0 .. Mark - 1 |-> nodes[v]]
  /\ strash' = StrashRolledBack
  /\ sim' = [v \in {u \in DOMAIN sim : u < Mark} |-> sim[v]]
  /\ simmed' = SimmedRolledBack
  /\ EncodingDropped
  /\ round' = round + 1
  /\ cand' = {} /\ verdict' = NoVerdict
  /\ UNCHANGED pc

Finished ==   \* the last round is over
  /\ pc = "build" /\ round = MaxRounds
  /\ UNCHANGED vars

Next ==
  \/ NewPi \/ MkAnd \/ Collect \/ Again \/ Screen
  \/ Encode \/ Refute \/ Confirm \/ Undecided
  \/ NewRound \/ Finished

Spec == Init /\ [][Next]_vars

-----------------------------------------------------------------------------
(* Properties.                                                             *)

(* The graph stays well formed: mkAnd never makes the same node twice, and *)
(* an index is above those of its fanins, in every round.                  *)
GraphOK ==
  /\ DOMAIN nodes = 0 .. NumVars - 1 /\ Mark <= NumVars
  /\ WellFormed(nodes)
  /\ \A v \in 0 .. Mark - 1 : nodes[v] = Base[v]

(* The hash table has exactly the ANDs of the graph: mkAnd never returns   *)
(* an index of the round before, which may be another node by now, or none.*)
StrashFaithful ==
  /\ \A k \in DOMAIN strash :
       strash[k] \in Vars /\ nodes[strash[k]] = And(k[1], k[2])
  /\ \A v \in Vars : IsAnd(v) => <<nodes[v].f0, nodes[v].f1>> \in DOMAIN strash

(* The clauses of an encoded node say what the node is now, and different  *)
(* nodes have different SAT variables.                                     *)
EncodingFaithful ==
  /\ \A v \in DOMAIN satVar : satVar[v] # 0 =>
       /\ v \in Vars /\ satVar[v] \in DOMAIN clauses
       /\ clauses[satVar[v]] = ClauseOf(v) /\ FaninsEncoded(v)
  /\ \A u, v \in DOMAIN satVar : satVar[u] # 0 /\ satVar[u] = satVar[v] => u = v

(* Words below the watermark are what the nodes compute.                   *)
SimFaithful ==
  \A v \in Vars : v < simmed /\ IsAnd(v) => v \in DOMAIN sim /\ sim[v] = AndRow(sim, v)

(* The candidate, over all inputs.                                         *)
TrueUnder(inputs, l) ==
  LET val[v \in Vars] ==
        IF ~IsAnd(v) THEN v \in inputs
        ELSE /\ val[VarOf(nodes[v].f0)] = (Phase(nodes[v].f0) = 0)
             /\ val[VarOf(nodes[v].f1)] = (Phase(nodes[v].f1) = 0)
  IN  val[VarOf(l)] = (Phase(l) = 0)

Valid(lits) == ~\E inputs \in SUBSET Pis : \A l \in lits : TrueUnder(inputs, l)

(* What run() believes of a candidate is so: it is screened out or refuted *)
(* only if some input makes all its literals true, and found valid only if *)
(* none does; a counterexample, once stored, screens it out.               *)
VerdictRight ==
  /\ verdict.kind \in {"killed", "refuted"} => ~Valid(cand)
  /\ verdict.kind = "valid" => Valid(cand)
  /\ verdict.kind = "refuted" => \A l \in cand : verdict.slot \in LitRow(sim, l)
=============================================================================
