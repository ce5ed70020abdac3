-------------------------------- MODULE Sweep --------------------------------
(***************************************************************************)
(* The equivalence sweep of main.cpp: nodes of the AIG with the same       *)
(* signature are taken for equal or complementary, the solver is asked,    *)
(* and either it proves it, so that their classes are joined in the        *)
(* union-find, or its counterexample becomes a new simulation pattern.     *)
(* Afterwards the rest of the trajectory looks nodes up in the union-find. *)
(*                                                                         *)
(* A node is known by its value, the set of input patterns on which it is  *)
(* 1.  A slot of the simulation words holds an input pattern: inputs have  *)
(* it at once, ANDs only when the words are recomputed.                    *)
(***************************************************************************)
EXTENDS UnionFind

CONSTANTS
  BaseSlots,  \* number of slots with random patterns, baseWords * 64
  CexSlots,   \* number of slots for counterexamples, cexWords * 64
  MaxRounds,  \* 64
  Key(_)      \* the hash of a normalized row

Slots == 0 .. BaseSlots + CexSlots - 1

ASSUME SweepAssumption ==
  BaseSlots \in Nat \ {0} /\ CexSlots \in Nat /\ MaxRounds \in Nat \ {0}

VARIABLES
  pat,       \* slot -> the pattern the inputs have there
  seen,      \* slot -> the pattern the ANDs were computed from
  cexCount,
  newCex,    \* a counterexample was stored in this round
  round,
  pc,        \* "round", "pairs", "done"
  todo,      \* the pairs of this round that are still to be looked at
  limit,     \* history: an answer was lost to a limit
  refuted    \* history: the pairs refuted by a pattern that was stored

simVars == <<pat, seen, cexCount, newCex>>
vars == <<graph, parent, simVars, round, pc, todo, limit, refuted>>

Swept == 0 .. graph.swept

-----------------------------------------------------------------------------
(* Simulation words.                                                       *)

Row(v) ==
  {s \in Slots : (IF v \in graph.pis THEN pat[s] ELSE seen[s]) \in graph.value[v]}

(* signature: the row or its complement, whichever is 0 in the first slot. *)
NormalAsIs(row) == row       \* mutant
Normal(row) == IF 0 \in row THEN Slots \ row ELSE row

Signature(v) == Key(Normal(Row(v)))

(* The nodes of a bucket are compared with the first of them.              *)
LeadsNext(u, v) ==   \* mutant: with the one before
  \A w \in Swept : Signature(w) = Signature(v) => w <= u \/ v <= w
Leads(u, v) == \A w \in Swept : Signature(w) = Signature(v) => u <= w

Pairs ==
  {p \in [key : {Signature(v) : v \in Swept}, rep : Swept, v : Swept] :
     /\ p.rep < p.v /\ Signature(p.rep) = p.key /\ Signature(p.v) = p.key
     /\ Leads(p.rep, p.v)}

Before(p, q) == p.key < q.key \/ (p.key = q.key /\ p.v <= q.v)

(* Their words tell whether they may be equal or complementary.            *)
Alike(p) == Row(p.v) = Row(p.rep) \/ Row(p.v) = Slots \ Row(p.rep)
RepLit(p) == Lit(p.rep, IF Row(p.v) = Row(p.rep) THEN 0 ELSE 1)

SlotForFirst(n) == BaseSlots   \* mutant: the slot is used again
SlotFor(n) == BaseSlots + n

RoomOneMore(n) == n <= CexSlots   \* mutant
Room(n) == n < CexSlots

-----------------------------------------------------------------------------
Init ==
  /\ UFInit
  /\ pat \in [Slots -> Pats] /\ seen = pat
  /\ cexCount = 0 /\ newCex = FALSE
  /\ round = 0 /\ pc = "round" /\ todo = {}
  /\ limit = FALSE /\ refuted = {}

StartRound ==
  /\ pc = "round"
  /\ todo' = Pairs /\ newCex' = FALSE /\ pc' = "pairs"
  /\ UNCHANGED <<graph, parent, pat, seen, cexCount, round, limit, refuted>>

Take(p) ==
  /\ pc = "pairs" /\ p \in todo
  /\ \A q \in todo : Before(p, q)
  /\ todo' = todo \ {p}

Joined(p) == Canon(parent)[p.v].var = Canon(parent)[p.rep].var

(* They are known to be equal, or their words differ.                      *)
Skip ==
  /\ \E p \in todo :
       /\ Take(p) /\ (Joined(p) \/ ~Alike(p))
       /\ parent' = Looked(parent, p.v, p.rep)
  /\ UNCHANGED <<graph, simVars, round, pc, limit, refuted>>

(* proveEq: proved.                                                        *)
Prove ==
  /\ \E p \in todo :
       /\ Take(p) /\ ~Joined(p) /\ Alike(p)
       /\ graph.value[p.v] = LitValue(RepLit(p))
       /\ parent' = Merged(Looked(parent, p.v, p.rep), Lit(p.v, 0), RepLit(p))
  /\ UNCHANGED <<graph, simVars, round, pc, limit, refuted>>

(* Refuted: the counterexample becomes a pattern as long as there are      *)
(* slots.                                                                  *)
Refute ==
  /\ \E p \in todo :
       /\ Take(p) /\ ~Joined(p) /\ Alike(p)
       /\ parent' = Looked(parent, p.v, p.rep)
       /\ \E q \in Pats :
            /\ (q \in graph.value[p.v]) # (q \in LitValue(RepLit(p)))
            /\ \/ /\ Room(cexCount)
                  /\ pat' = [pat EXCEPT ![SlotFor(cexCount)] = q]
                  /\ cexCount' = cexCount + 1 /\ newCex' = TRUE
                  /\ refuted' = refuted \union {<<p.rep, p.v>>}
                  /\ UNCHANGED limit
               \/ /\ ~Room(cexCount)
                  /\ limit' = TRUE
                  /\ UNCHANGED <<pat, cexCount, newCex, refuted>>
  /\ UNCHANGED <<graph, seen, round, pc>>

(* The conflict limit was hit.                                             *)
Undecided ==
  /\ \E p \in todo :
       /\ Take(p) /\ ~Joined(p) /\ Alike(p)
       /\ parent' = Looked(parent, p.v, p.rep)
  /\ limit' = TRUE
  /\ UNCHANGED <<graph, simVars, round, pc, refuted>>

(* Without new patterns the sweep is over; else the words are recomputed.  *)
Recomputed == pat

EndRound ==
  /\ pc = "pairs" /\ todo = {}
  /\ \/ /\ ~newCex
        /\ pc' = "done" /\ UNCHANGED <<seen, round>>
     \/ /\ newCex
        /\ seen' = Recomputed /\ round' = round + 1
        /\ pc' = IF round + 1 = MaxRounds THEN "done" ELSE "round"
  /\ UNCHANGED <<graph, parent, pat, cexCount, newCex, todo, limit, refuted>>

(* The registry of nets and buildVar look nodes up, old and new.           *)
Use ==
  /\ pc = "done"
  /\ LookUp \/ Ensure
  /\ UNCHANGED <<simVars, round, pc, todo, limit, refuted>>

Next ==
  \/ StartRound \/ Skip \/ Prove \/ Refute \/ Undecided \/ EndRound \/ Use

Spec == Init /\ [][Next]_vars

-----------------------------------------------------------------------------
(* Properties.                                                             *)

(* The words hold patterns, pairs are pairs of different nodes, and the    *)
(* counterexamples fit their slots.                                        *)
SweepTypeOK ==
  /\ ParentsBelow
  /\ pat \in [Slots -> Pats] /\ seen \in [Slots -> Pats]
  /\ cexCount \in 0 .. CexSlots /\ newCex \in BOOLEAN
  /\ round \in 0 .. MaxRounds /\ pc \in {"round", "pairs", "done"}
  /\ \A p \in todo : p.rep \in Swept /\ p.v \in Swept /\ p.rep < p.v
  /\ limit \in BOOLEAN /\ refuted \subseteq Swept \X Swept

(* When no answer was lost to a limit the sweep finds all there is to find:*)
(* nodes that are equal or complementary are in one class, although only   *)
(* nodes of one bucket are ever compared and only with its first node      *)
(* (main.cpp:223).                                                         *)
Related(u, v) == graph.value[u] \in {graph.value[v], Pats \ graph.value[v]}

NoCollision ==
  \A u, v \in Swept : Signature(u) = Signature(v) => Normal(Row(u)) = Normal(Row(v))

SweepComplete ==
  pc = "done" /\ ~newCex /\ ~limit /\ NoCollision =>
    \A u, v \in Swept :
      Related(u, v) => Canon(parent)[u].var = Canon(parent)[v].var

(* A pair that was refuted is told apart by the words from then on, so the *)
(* solver is never asked for it again, although the words of inputs are    *)
(* ahead of those of ANDs for the rest of the round (main.cpp:252).        *)
RefutedOnce ==
  \A p \in todo : <<p.rep, p.v>> \in refuted => ~Alike(p)

(* A node that is not alone is named by the first of all nodes it is       *)
(* related to, whichever answers were lost and whichever signatures        *)
(* collide (main.cpp:223).                                                 *)
NamedByFirst ==
  \A v \in Swept : Canon(parent)[v].var # v =>
    \A u \in Swept : Related(u, v) => Canon(parent)[v].var <= u
=============================================================================
