---------------------------- MODULE AigSatProofs ----------------------------
(***************************************************************************)
(* The graph, its hash table, the SAT encoding and the simulation words    *)
(* agree in every state, and no verdict on a candidate is wrong, for every *)
(* initial graph and any number of nodes and rounds.                       *)
(*                                                                         *)
(* The value of a node is defined by recursion over the graph. That such a *)
(* value is what the clauses force, what the words hold, and is kept when  *)
(* indices are freed and used again, is shown for the smallest node of     *)
(* which it fails.                                                         *)
(***************************************************************************)
EXTENDS AigSat, CircuitProofs

-----------------------------------------------------------------------------
(* Literals.                                                               *)

(* A literal below 2v is one of a variable below v.                        *)
LEMMA VarBelow ==
  ASSUME NEW v \in Nat, NEW l \in Nat, l < 2 * v
  PROVE  VarOf(l) \in 0 .. v - 1
BY DEF VarOf

(* Counting the indices of a graph.                                        *)
LEMMA CountIndices ==
  ASSUME NEW n \in Nat
  PROVE  Cardinality(0 .. n - 1) = n
BY FS_Interval

LEMMA MarkType == Mark \in Nat /\ Mark >= 1 /\ DOMAIN Base = 0 .. Mark - 1
<1>1. Mark \in Nat BY AigSatAssumption, FS_CardinalityType DEF Mark
<1>. QED BY <1>1, AigSatAssumption

-----------------------------------------------------------------------------
(* The inductive invariant: the graph, its table, its encoding.            *)

GraphInv ==
  /\ NumVars \in Nat
  /\ GraphOK

StrashInv ==
  /\ \A k \in DOMAIN strash : k = <<k[1], k[2]>>
  /\ StrashFaithful

SatInv ==
  /\ 0 \in DOMAIN satVar /\ satVar[0] = 1
  /\ Cardinality(DOMAIN clauses) \in Nat
  /\ DOMAIN clauses = 1 .. Cardinality(DOMAIN clauses)
  /\ \A v \in DOMAIN satVar : satVar[v] \in 0 .. Cardinality(DOMAIN clauses)
  /\ EncodingFaithful

IInv == GraphInv /\ StrashInv /\ SatInv

LEMMA InitInv == Init => IInv
<1>. SUFFICES ASSUME Init PROVE IInv
  OBVIOUS
<1>. USE MarkType
<1>1. GraphInv
  BY AigSatAssumption DEF Init, GraphInv, GraphOK, NumVars, Vars, Mark
<1>2. StrashInv
  <2>1. \A v \in DOMAIN Base : Base[v] # Pi =>
          /\ Base[v] = And(Base[v].f0, Base[v].f1)
          /\ \A u \in DOMAIN Base : Base[u] = Base[v] => u = v
    BY AigSatAssumption DEF WellFormed
  <2>2. \A k \in DOMAIN strash : \E v \in DOMAIN Base : Base[v] # Pi /\ k = <<Base[v].f0, Base[v].f1>>
    BY DEF Init, StrashOf
  <2>3. ASSUME NEW k \in DOMAIN strash
        PROVE  strash[k] \in DOMAIN Base /\ Base[strash[k]] = And(k[1], k[2])
    <3>1. \E v \in DOMAIN Base : Base[v] = And(k[1], k[2]) BY <2>1, <2>2
    <3>2. strash[k] = CHOOSE v \in DOMAIN Base : Base[v] = And(k[1], k[2])
      BY DEF Init, StrashOf
    <3>. QED BY <3>1, <3>2
  <2>4. \A v \in DOMAIN Base : Base[v] # Pi => <<Base[v].f0, Base[v].f1>> \in DOMAIN strash
    BY DEF Init, StrashOf
  <2>5. \A k \in DOMAIN strash : k = <<k[1], k[2]>> BY <2>2
  <2>. QED BY <2>3, <2>4, <2>5 DEF StrashInv, StrashFaithful, Vars, IsAnd, Init
<1>3. SatInv
  <2>1. DOMAIN clauses = {1} /\ clauses[1] = False0 BY DEF Init
  <2>2. Cardinality(DOMAIN clauses) = 1 BY <2>1, FS_Singleton
  <2>3. /\ DOMAIN satVar = 0 .. Mark - 1 /\ satVar[0] = 1
        /\ \A v \in DOMAIN satVar : satVar[v] = IF v = 0 THEN 1 ELSE 0
    BY DEF Init, Attached
  <2>4. 0 \in Vars /\ ~IsAnd(0) BY AigSatAssumption DEF Init, Vars, IsAnd, WellFormed
  <2>5. EncodingFaithful
    BY <2>1, <2>3, <2>4 DEF EncodingFaithful, ClauseOf, FaninsEncoded
  <2>. QED BY <2>1, <2>2, <2>3, <2>5 DEF SatInv
<1>. QED BY <1>1, <1>2, <1>3 DEF IInv

-----------------------------------------------------------------------------
(* Steps.                                                                  *)

(* A node more: the old ones stay where they are.                          *)
LEMMA NodeAdded ==
  ASSUME GraphInv, NEW nd, AddNode(nd)
  PROVE  /\ Vars = 0 .. NumVars - 1 /\ Vars' = 0 .. NumVars /\ NumVars' = NumVars + 1
         /\ nodes'[NumVars] = nd /\ \A v \in Vars : nodes'[v] = nodes[v]
<1>1. Vars = 0 .. NumVars - 1 /\ NumVars \in Nat BY DEF GraphInv, GraphOK, Vars
<1>2. /\ Vars' = 0 .. NumVars
      /\ \A v \in 0 .. NumVars : nodes'[v] = IF v = NumVars THEN nd ELSE nodes[v]
  BY DEF AddNode, Vars
<1>3. Vars' = 0 .. (NumVars + 1) - 1 BY <1>1, <1>2
<1>4. NumVars' = NumVars + 1
  <2>1. Cardinality(0 .. (NumVars + 1) - 1) = NumVars + 1 BY <1>1, CountIndices
  <2>. QED BY <2>1, <1>3 DEF NumVars
<1>. QED BY <1>1, <1>2, <1>4

(* The graph stays well formed with a new input, or with a new AND whose   *)
(* fanins no node has.                                                     *)
LEMMA GraphAdded ==
  ASSUME GraphInv, NEW nd, AddNode(nd),
         \/ nd = Pi
         \/ \E a, b \in Lits : /\ 2 <= a /\ a < b /\ nd = And(a, b)
                               /\ \A v \in Vars : nodes[v] # nd
  PROVE  GraphInv'
<1>. USE MarkType
<1>1. /\ Vars = 0 .. NumVars - 1 /\ Vars' = 0 .. NumVars /\ NumVars' = NumVars + 1
      /\ nodes'[NumVars] = nd /\ \A v \in Vars : nodes'[v] = nodes[v]
  BY NodeAdded
<1>2. NumVars \in Nat /\ Mark <= NumVars /\ WellFormed(nodes)
      /\ \A v \in 0 .. Mark - 1 : nodes[v] = Base[v]
  BY DEF GraphInv, GraphOK
<1>3. nodes'[0] = Pi BY <1>1, <1>2 DEF WellFormed
<1>4. ASSUME NEW v \in Vars'
      PROVE  \/ nodes'[v] = Pi
             \/ /\ nodes'[v].f0 \in Nat /\ nodes'[v].f1 \in Nat
                /\ nodes'[v] = And(nodes'[v].f0, nodes'[v].f1)
                /\ 2 <= nodes'[v].f0 /\ nodes'[v].f0 < nodes'[v].f1
                /\ nodes'[v].f1 < 2 * v
  <2>1. CASE v \in Vars BY <2>1, <1>1, <1>2 DEF WellFormed, Vars
  <2>2. CASE v = NumVars
    <3>1. CASE nd = Pi BY <3>1, <2>2, <1>1
    <3>2. ASSUME NEW a \in Lits, NEW b \in Lits, 2 <= a, a < b, nd = And(a, b)
          PROVE  /\ nodes'[v].f0 \in Nat /\ nodes'[v].f1 \in Nat
                 /\ nodes'[v] = And(nodes'[v].f0, nodes'[v].f1)
                 /\ 2 <= nodes'[v].f0 /\ nodes'[v].f0 < nodes'[v].f1
                 /\ nodes'[v].f1 < 2 * v
      <4>1. a \in Nat /\ b \in Nat /\ b < 2 * NumVars BY <1>2 DEF Lits
      <4>2. nd.f0 = a /\ nd.f1 = b BY <3>2 DEF And
      <4>. QED BY <4>1, <4>2, <3>2, <2>2, <1>1
    <3>. QED BY <3>1, <3>2
  <2>. QED BY <2>1, <2>2, <1>1, <1>2
<1>5. ASSUME NEW u \in Vars', NEW v \in Vars', nodes'[u] # Pi, nodes'[u] = nodes'[v]
      PROVE  u = v
  <2>1. CASE u \in Vars /\ v \in Vars BY <2>1, <1>1, <1>2, <1>5 DEF WellFormed, Vars
  <2>2. CASE u = NumVars /\ v \in Vars BY <2>2, <1>1, <1>5
  <2>3. CASE u \in Vars /\ v = NumVars BY <2>3, <1>1, <1>5
  <2>. QED BY <2>1, <2>2, <2>3, <1>1, <1>2
<1>6. WellFormed(nodes)' BY <1>3, <1>4, <1>5 DEF WellFormed, Vars
<1>7. \A v \in 0 .. Mark - 1 : nodes'[v] = Base[v] BY <1>1, <1>2
<1>8. DOMAIN nodes' = 0 .. NumVars' - 1 /\ Mark <= NumVars' /\ NumVars' \in Nat
  BY <1>1, <1>2 DEF Vars
<1>. QED BY <1>6, <1>7, <1>8 DEF GraphInv, GraphOK

(* The encoding does not notice a new node.                                *)
LEMMA EncodingKeeps ==
  ASSUME GraphInv, SatInv, NEW nd, AddNode(nd), UNCHANGED satVars
  PROVE  SatInv'
<1>1. /\ Vars = 0 .. NumVars - 1 /\ Vars' = 0 .. NumVars
      /\ \A v \in Vars : nodes'[v] = nodes[v] /\ v \in Vars'
  <2>1. NumVars \in Nat BY DEF GraphInv
  <2>. QED BY <2>1, NodeAdded
<1>2. satVar' = satVar /\ clauses' = clauses BY DEF satVars
<1>3. \A v \in Vars : ClauseOf(v)' = ClauseOf(v) /\ FaninsEncoded(v)' = FaninsEncoded(v)
  BY <1>1, <1>2 DEF ClauseOf, FaninsEncoded, IsAnd, SatLit, SatVarOf
<1>4. \A v \in DOMAIN satVar : satVar[v] # 0 => v \in Vars
  BY DEF SatInv, EncodingFaithful
<1>5. EncodingFaithful'
  BY <1>1, <1>2, <1>3, <1>4 DEF SatInv, EncodingFaithful
<1>. QED BY <1>2, <1>5 DEF SatInv

LEMMA NewPiInv == IInv /\ NewPi => IInv'
<1>. SUFFICES ASSUME IInv, NewPi PROVE IInv'
  OBVIOUS
<1>1. AddNode(Pi) /\ strash' = strash /\ UNCHANGED satVars BY DEF NewPi
<1>2. GraphInv' /\ SatInv' BY <1>1, GraphAdded, EncodingKeeps DEF IInv
<1>3. StrashInv'
  <2>1. /\ Vars = 0 .. NumVars - 1 /\ Vars' = 0 .. NumVars /\ NumVars \in Nat
        /\ nodes'[NumVars] = Pi /\ \A v \in Vars : nodes'[v] = nodes[v]
    BY <1>1, NodeAdded DEF IInv, GraphInv
  <2>. QED BY <2>1, <1>1 DEF IInv, StrashInv, StrashFaithful, IsAnd
<1>. QED BY <1>2, <1>3 DEF IInv

LEMMA MkAndInv == IInv /\ MkAnd => IInv'
<1>. SUFFICES ASSUME IInv, MkAnd PROVE IInv'
  OBVIOUS
<1>1. PICK a \in Lits, b \in Lits :
        /\ NeedsNode(a, b) /\ AddNode(And(a, b))
        /\ strash' = [k \in DOMAIN strash \union {<<a, b>>} |->
                        IF k = <<a, b>> THEN NumVars ELSE strash[k]]
  BY DEF MkAnd
<1>2. And(a, b).f0 = a /\ And(a, b).f1 = b /\ And(a, b) # Pi
  <2>1. NumVars \in Nat BY DEF IInv, GraphInv
  <2>2. a \in Nat BY <2>1 DEF Lits
  <2>3. And(a, b).f0 = a /\ And(a, b).f1 = b BY DEF And
  <2>4. Pi.f0 = -1 BY DEF Pi
  <2>. QED BY <2>2, <2>3, <2>4
<1>3. \A v \in Vars : nodes[v] # And(a, b)
  BY <1>1, <1>2 DEF NeedsNode, IInv, StrashInv, StrashFaithful, IsAnd
<1>4. GraphInv'
  BY <1>1, <1>3, GraphAdded DEF NeedsNode, IInv
<1>5. SatInv' BY <1>1, EncodingKeeps DEF IInv, MkAnd
<1>6. StrashInv'
  <2>1. /\ Vars = 0 .. NumVars - 1 /\ Vars' = 0 .. NumVars /\ NumVars \in Nat
        /\ nodes'[NumVars] = And(a, b) /\ \A v \in Vars : nodes'[v] = nodes[v]
    BY <1>1, NodeAdded DEF IInv, GraphInv
  <2>2. /\ DOMAIN strash' = DOMAIN strash \union {<<a, b>>}
        /\ \A k \in DOMAIN strash' : strash'[k] = IF k = <<a, b>> THEN NumVars ELSE strash[k]
    BY <1>1
  <2>3. \A k \in DOMAIN strash' : k = <<k[1], k[2]>>
    BY <2>2 DEF IInv, StrashInv
  <2>4. ASSUME NEW k \in DOMAIN strash'
        PROVE  strash'[k] \in Vars' /\ nodes'[strash'[k]] = And(k[1], k[2])
    <3>1. CASE k = <<a, b>> BY <3>1, <2>1, <2>2
    <3>2. CASE k # <<a, b>>
      <4>1. k \in DOMAIN strash /\ strash'[k] = strash[k] BY <3>2, <2>2
      <4>2. strash[k] \in Vars /\ nodes[strash[k]] = And(k[1], k[2])
        BY <4>1 DEF IInv, StrashInv, StrashFaithful
      <4>. QED BY <4>1, <4>2, <2>1
    <3>. QED BY <3>1, <3>2
  <2>5. ASSUME NEW v \in Vars', IsAnd(v)'
        PROVE  <<nodes'[v].f0, nodes'[v].f1>> \in DOMAIN strash'
    <3>1. CASE v = NumVars BY <3>1, <2>1, <2>2, <1>2
    <3>2. CASE v \in Vars
      BY <3>2, <2>1, <2>2, <2>5 DEF IInv, StrashInv, StrashFaithful, IsAnd
    <3>. QED BY <3>1, <3>2, <2>1
  <2>. QED BY <2>3, <2>4, <2>5 DEF StrashInv, StrashFaithful
<1>. QED BY <1>4, <1>5, <1>6 DEF IInv

(* The nodes a literal depends on contain the fanins of each of them.      *)
LEMMA ConeClosed ==
  ASSUME GraphInv, NEW lits, NEW v \in Cone(lits), IsAnd(v)
  PROVE  /\ VarOf(nodes[v].f0) \in Cone(lits) /\ VarOf(nodes[v].f0) < v
         /\ VarOf(nodes[v].f1) \in Cone(lits) /\ VarOf(nodes[v].f1) < v
<1>1. v \in Vars BY DEF Cone
<1>2. Vars = 0 .. NumVars - 1 /\ NumVars \in Nat /\ v \in Nat
  BY <1>1 DEF GraphInv, GraphOK, Vars
<1>3. /\ nodes[v].f0 \in Nat /\ nodes[v].f0 < 2 * v
      /\ nodes[v].f1 \in Nat /\ nodes[v].f1 < 2 * v
  BY <1>1, <1>2 DEF GraphInv, GraphOK, WellFormed, IsAnd, Vars
<1>4. VarOf(nodes[v].f0) \in 0 .. v - 1 /\ VarOf(nodes[v].f1) \in 0 .. v - 1
  BY <1>2, <1>3, VarBelow
<1>5. /\ VarOf(nodes[v].f0) \in Vars /\ VarOf(nodes[v].f0) < v
      /\ VarOf(nodes[v].f1) \in Vars /\ VarOf(nodes[v].f1) < v
  BY <1>1, <1>2, <1>4
<1>6. ASSUME NEW T \in SUBSET Vars, \A l \in lits : VarOf(l) \in T, Closed(T)
      PROVE  VarOf(nodes[v].f0) \in T /\ VarOf(nodes[v].f1) \in T
  <2>1. v \in T BY <1>6 DEF Cone
  <2>. QED BY <2>1, <1>6 DEF Closed
<1>. QED BY <1>5, <1>6 DEF Cone

LEMMA EncodeInv == IInv /\ Encode => IInv'
<1>. SUFFICES ASSUME IInv, Encode PROVE IInv'
  OBVIOUS
<1>. DEFINE x == Cardinality(DOMAIN clauses) + 1
<1>1. PICK v \in Unencoded(cand) :
        /\ \A u \in Unencoded(cand) : v <= u
        /\ satVar' = [u \in Vars |-> IF u = v THEN x ELSE SatVarOf(u)]
        /\ clauses' = [y \in DOMAIN clauses \union {x} |->
                         IF y = x THEN ClauseOf(v) ELSE clauses[y]]
  BY DEF Encode
<1>2. nodes' = nodes /\ strash' = strash BY DEF Encode, aigVars
<1>3. GraphInv' /\ StrashInv'
  BY <1>2 DEF IInv, GraphInv, GraphOK, StrashInv, StrashFaithful, NumVars, Vars,
              WellFormed, IsAnd
<1>4. /\ Vars' = Vars /\ Vars = 0 .. NumVars - 1 /\ NumVars \in Nat
      /\ v \in Cone(cand) /\ v \in Vars /\ SatVarOf(v) = 0
  BY <1>2 DEF IInv, GraphInv, GraphOK, Vars, Unencoded, Cone
<1>5. /\ Cardinality(DOMAIN clauses) \in Nat
      /\ DOMAIN clauses = 1 .. Cardinality(DOMAIN clauses)
  BY DEF IInv, SatInv
<1>6. /\ DOMAIN clauses' = 1 .. x /\ Cardinality(DOMAIN clauses') = x /\ x \in Nat
  <2>1. DOMAIN clauses' = 1 .. x BY <1>1, <1>5
  <2>2. Cardinality(1 .. x) = x BY <1>5, FS_Interval
  <2>. QED BY <2>1, <2>2, <1>5
<1>7. /\ DOMAIN satVar' = Vars /\ satVar'[v] = x
      /\ \A u \in Vars : u # v => satVar'[u] = SatVarOf(u)
  BY <1>1, <1>4
<1>8. \A u \in Vars : SatVarOf(u) \in 0 .. x - 1
  BY <1>5 DEF IInv, SatInv, SatVarOf
<1>9. \A u \in Vars : SatVarOf(u) # 0 =>
        /\ u \in DOMAIN satVar /\ SatVarOf(u) = satVar[u]
        /\ clauses[SatVarOf(u)] = ClauseOf(u) /\ FaninsEncoded(u)
  BY DEF IInv, SatInv, EncodingFaithful, SatVarOf
<1>10. FaninsEncoded(v)
  <2>1. ASSUME IsAnd(v), NEW u \in Cone(cand), u < v PROVE SatVarOf(u) # 0
    <3>1. u \in Vars BY DEF Cone
    <3>2. u \notin Unencoded(cand) BY <1>1, <1>4, <2>1, <3>1
    <3>. QED BY <3>2 DEF Unencoded
  <2>. QED BY <2>1, <1>4, ConeClosed DEF FaninsEncoded, IInv
<1>11. \A u : SatVarOf(u) # 0 => SatVarOf(u)' = SatVarOf(u)
  <2>1. \A u : SatVarOf(u) # 0 => u \in DOMAIN satVar /\ u \in Vars
    BY DEF IInv, SatInv, EncodingFaithful, SatVarOf
  <2>. QED BY <2>1, <1>4, <1>7 DEF SatVarOf
<1>12. ASSUME NEW u \in Vars, FaninsEncoded(u)
       PROVE  ClauseOf(u)' = ClauseOf(u) /\ FaninsEncoded(u)'
  <2>1. CASE IsAnd(u)
    <3>1. /\ SatVarOf(VarOf(nodes[u].f0)) # 0 /\ SatVarOf(VarOf(nodes[u].f1)) # 0
      BY <2>1, <1>12 DEF FaninsEncoded
    <3>2. /\ SatVarOf(VarOf(nodes[u].f0))' = SatVarOf(VarOf(nodes[u].f0))
          /\ SatVarOf(VarOf(nodes[u].f1))' = SatVarOf(VarOf(nodes[u].f1))
      BY <3>1, <1>2, <1>7, <1>11 DEF SatVarOf
    <3>. QED BY <3>1, <3>2, <1>2 DEF ClauseOf, FaninsEncoded, IsAnd, SatLit
  <2>2. CASE ~IsAnd(u)
    BY <2>2, <1>2 DEF ClauseOf, FaninsEncoded, IsAnd
  <2>. QED BY <2>1, <2>2
<1>13. SatInv'
  <2>1. 0 \in Vars /\ v # 0 /\ SatVarOf(0) = 1
    BY <1>4 DEF IInv, SatInv, SatVarOf, EncodingFaithful
  <2>2. 0 \in DOMAIN satVar' /\ satVar'[0] = 1 BY <2>1, <1>7
  <2>3. \A u \in DOMAIN satVar' : satVar'[u] \in 0 .. x BY <1>6, <1>7, <1>8
  <2>4. ASSUME NEW u \in DOMAIN satVar', satVar'[u] # 0
        PROVE  /\ u \in Vars' /\ satVar'[u] \in DOMAIN clauses'
               /\ clauses'[satVar'[u]] = ClauseOf(u)' /\ FaninsEncoded(u)'
    <3>1. u \in Vars /\ satVar'[u] \in 1 .. x BY <2>3, <2>4, <1>6, <1>7
    <3>2. FaninsEncoded(u) /\ clauses'[satVar'[u]] = ClauseOf(u)
      <4>1. CASE u = v BY <4>1, <1>1, <1>7, <1>10
      <4>2. CASE u # v
        <5>1. SatVarOf(u) # 0 /\ satVar'[u] = SatVarOf(u) BY <4>2, <3>1, <1>7, <2>4
        <5>2. SatVarOf(u) \in DOMAIN clauses /\ SatVarOf(u) # x
          BY <5>1, <3>1, <1>5, <1>8
        <5>. QED BY <5>1, <5>2, <3>1, <1>1, <1>9
      <4>. QED BY <4>1, <4>2
    <3>. QED BY <3>1, <3>2, <1>4, <1>6, <1>12
  <2>5. ASSUME NEW u \in DOMAIN satVar', NEW w \in DOMAIN satVar', satVar'[u] # 0,
               satVar'[u] = satVar'[w]
        PROVE  u = w
    <3>. HIDE DEF x
    <3>0. \A y \in Vars : y # v => satVar'[y] # x
      <4>1. ASSUME NEW y \in Vars, y # v PROVE satVar'[y] # x
        <5>1. satVar'[y] \in 0 .. x - 1 BY <4>1, <1>7, <1>8
        <5>. QED BY <5>1, <1>6
      <4>. QED BY <4>1
    <3>1. CASE u = v /\ w # v BY <3>0, <3>1, <2>5, <1>7
    <3>2. CASE u # v /\ w = v BY <3>0, <3>2, <2>5, <1>7
    <3>3. CASE u # v /\ w # v
      <4>1. SatVarOf(u) # 0 /\ SatVarOf(u) = SatVarOf(w) BY <3>3, <2>5, <1>7
      <4>2. u \in DOMAIN satVar /\ w \in DOMAIN satVar /\ satVar[u] # 0 /\ satVar[u] = satVar[w]
        BY <4>1, <1>7, <1>9
      <4>. QED BY <4>2 DEF IInv, SatInv, EncodingFaithful
    <3>. QED BY <3>1, <3>2, <3>3
  <2>6. EncodingFaithful' BY <2>4, <2>5 DEF EncodingFaithful
  <2>. QED BY <2>2, <2>3, <2>6, <1>6 DEF SatInv
<1>. QED BY <1>3, <1>13 DEF IInv

LEMMA NewRoundInv == IInv /\ NewRound => IInv'
<1>. SUFFICES ASSUME IInv, NewRound PROVE IInv'
  OBVIOUS
<1>. USE MarkType
<1>1. /\ Vars = 0 .. NumVars - 1 /\ NumVars \in Nat /\ Mark <= NumVars
      /\ WellFormed(nodes) /\ \A v \in 0 .. Mark - 1 : nodes[v] = Base[v]
  BY DEF IInv, GraphInv, GraphOK, Vars
<1>2. /\ Vars' = 0 .. Mark - 1 /\ \A v \in Vars' : v \in Vars /\ nodes'[v] = nodes[v]
  BY <1>1 DEF NewRound, Vars
<1>3. GraphInv'
  <2>1. NumVars' = Mark BY <1>2, CountIndices DEF NumVars
  <2>2. WellFormed(nodes)' BY <1>1, <1>2 DEF WellFormed, Vars
  <2>. QED BY <2>1, <2>2, <1>1, <1>2 DEF GraphInv, GraphOK, Vars
<1>4. StrashInv'
  <2>1. /\ DOMAIN strash' = {j \in DOMAIN strash : strash[j] < Mark}
        /\ \A k \in DOMAIN strash' : strash'[k] = strash[k]
    BY DEF NewRound, StrashRolledBack
  <2>2. \A k \in DOMAIN strash :
          /\ k = <<k[1], k[2]>>
          /\ strash[k] \in Vars /\ nodes[strash[k]] = And(k[1], k[2])
    BY DEF IInv, StrashInv, StrashFaithful
  <2>3. ASSUME NEW v \in Vars', IsAnd(v)'
        PROVE  <<nodes'[v].f0, nodes'[v].f1>> \in DOMAIN strash'
    <3>1. v \in Vars /\ nodes'[v] = nodes[v] /\ nodes[v] # Pi /\ v < Mark
      BY <1>1, <1>2, <2>3 DEF IsAnd
    <3>. DEFINE k == <<nodes[v].f0, nodes[v].f1>>
    <3>2. k \in DOMAIN strash BY <3>1 DEF IInv, StrashInv, StrashFaithful, IsAnd
    <3>3. nodes[v] = And(nodes[v].f0, nodes[v].f1) BY <3>1, <1>1 DEF WellFormed, Vars
    <3>4. strash[k] = v
      <4>1. strash[k] \in Vars /\ nodes[strash[k]] = nodes[v] BY <2>2, <3>2, <3>3
      <4>. QED BY <4>1, <3>1, <1>1 DEF WellFormed, Vars
    <3>. QED BY <3>1, <3>2, <3>4, <2>1
  <2>4. \A k \in DOMAIN strash' :
          strash'[k] \in Vars' /\ nodes'[strash'[k]] = And(k[1], k[2])
    BY <1>1, <1>2, <2>1, <2>2
  <2>. QED BY <2>1, <2>2, <2>3, <2>4 DEF StrashInv, StrashFaithful
<1>5. SatInv'
  <2>1. /\ DOMAIN clauses' = {1} /\ clauses'[1] = False0
        /\ DOMAIN satVar' = 0 .. Mark - 1
        /\ \A v \in DOMAIN satVar' : satVar'[v] = IF v = 0 THEN 1 ELSE 0
    BY DEF NewRound, EncodingDropped, Attached
  <2>2. Cardinality(DOMAIN clauses') = 1 BY <2>1, FS_Singleton
  <2>3. 0 \in Vars' /\ ~IsAnd(0)' BY <1>1, <1>2 DEF IsAnd, WellFormed, Vars
  <2>4. ClauseOf(0)' = False0 /\ FaninsEncoded(0)' BY <2>3 DEF ClauseOf, FaninsEncoded
  <2>5. EncodingFaithful' BY <2>1, <2>3, <2>4 DEF EncodingFaithful
  <2>. QED BY <2>1, <2>2, <2>5 DEF SatInv
<1>. QED BY <1>3, <1>4, <1>5 DEF IInv

(* The other actions leave the graph, the table and the encoding alone.    *)
LEMMA OtherInv == IInv /\ UNCHANGED <<aigVars, satVars>> => IInv'
BY DEF IInv, GraphInv, GraphOK, StrashInv, StrashFaithful, SatInv, EncodingFaithful,
       ClauseOf, FaninsEncoded, SatLit, SatVarOf, NumVars, Vars, IsAnd, WellFormed,
       aigVars, satVars

LEMMA StepInv == IInv /\ [Next]_vars => IInv'
<1>. SUFFICES ASSUME IInv, [Next]_vars PROVE IInv'
  OBVIOUS
<1>1. CASE NewPi BY <1>1, NewPiInv
<1>2. CASE MkAnd BY <1>2, MkAndInv
<1>3. CASE Encode BY <1>3, EncodeInv
<1>4. CASE NewRound BY <1>4, NewRoundInv
<1>5. CASE Collect \/ Again \/ Screen
  BY <1>5, OtherInv DEF Collect, Again, Screen
<1>6. CASE Refute \/ Confirm \/ Undecided
  BY <1>6, OtherInv DEF Refute, Confirm, Undecided
<1>7. CASE Finished \/ UNCHANGED vars
  BY <1>7, OtherInv DEF Finished, vars
<1>. QED BY <1>1, <1>2, <1>3, <1>4, <1>5, <1>6, <1>7 DEF Next

THEOREM Invariance == Spec => []IInv
BY InitInv, StepInv, PTL DEF Spec

-----------------------------------------------------------------------------
(* Simulation words.                                                       *)

(* The fanins of an AND are nodes below it.                                *)
LEMMA FaninBelow ==
  ASSUME GraphInv, NEW v \in Vars, IsAnd(v)
  PROVE  /\ v \in Nat /\ nodes[v].f0 \in Nat /\ nodes[v].f1 \in Nat
         /\ VarOf(nodes[v].f0) \in Vars /\ VarOf(nodes[v].f0) < v
         /\ VarOf(nodes[v].f1) \in Vars /\ VarOf(nodes[v].f1) < v
<1>1. Vars = 0 .. NumVars - 1 /\ NumVars \in Nat /\ v \in Nat
  BY DEF GraphInv, GraphOK, Vars
<1>2. /\ nodes[v].f0 \in Nat /\ nodes[v].f0 < 2 * v
      /\ nodes[v].f1 \in Nat /\ nodes[v].f1 < 2 * v
  BY <1>1 DEF GraphInv, GraphOK, WellFormed, IsAnd, Vars
<1>3. VarOf(nodes[v].f0) \in 0 .. v - 1 /\ VarOf(nodes[v].f1) \in 0 .. v - 1
  BY <1>1, <1>2, VarBelow
<1>. QED BY <1>1, <1>2, <1>3

(* What an AND computes depends on the rows of its fanins only.            *)
LEMMA SameAndRow ==
  ASSUME GraphInv, NEW v \in Vars, IsAnd(v), NEW f, NEW g,
         \A u \in Vars : u < v => f[u] = g[u]
  PROVE  AndRow(f, v) = AndRow(g, v)
BY FaninBelow DEF AndRow, LitRow

LEMMA RowsTyped ==
  ASSUME GraphInv, NEW g,
         \A v \in Vars : \/ g[v] \subseteq Slots
                         \/ IsAnd(v) /\ g[v] \subseteq AndRow(g, v) \union Slots
  PROVE  \A v \in Vars : g[v] \subseteq Slots
<1>. DEFINE T == {v \in Vars : ~(g[v] \subseteq Slots)}
<1>. SUFFICES ASSUME T # {} PROVE FALSE
  OBVIOUS
<1>1. PICK v \in T : \A u \in T : v <= u
  <2>1. T \subseteq Nat
    BY DEF GraphInv, GraphOK, Vars
  <2>. HIDE DEF T
  <2>. QED BY <2>1, Smallest
<1>2. v \in Vars /\ ~(g[v] \subseteq Slots) /\ IsAnd(v) /\ g[v] \subseteq AndRow(g, v) \union Slots
  OBVIOUS
<1>3. VarOf(nodes[v].f0) \in Vars /\ VarOf(nodes[v].f0) < v /\ v \in Nat
  BY <1>2, FaninBelow
<1>4. g[VarOf(nodes[v].f0)] \subseteq Slots
  <2>1. VarOf(nodes[v].f0) \in Nat
    BY <1>3 DEF GraphInv, GraphOK, Vars
  <2>. QED BY <1>1, <1>3, <2>1
<1>. QED BY <1>2, <1>4 DEF AndRow, LitRow

(* Rows computed on the patterns of C for the ANDs in S.                   *)
RowOf(old, f, S, C, v) ==
  IF v \in S THEN (old[v] \ C) \union (AndRow(f, v) \intersect C) ELSE old[v]

RowsGiven(old, S, C) ==
  /\ old \in [Vars -> SUBSET Slots]
  /\ S \subseteq {v \in Vars : IsAnd(v)} /\ C \subseteq Slots

LEMMA RowsExist ==
  ASSUME GraphInv, NEW S, NEW C, NEW old, RowsGiven(old, S, C)
  PROVE  \E f \in [Vars -> SUBSET Slots] : \A v \in Vars : f[v] = RowOf(old, f, S, C, v)
<1>. DEFINE V == SUBSET Slots
            D == Vars
            N == NumVars
            H == [v \in D |-> [f \in [D -> V] |-> RowOf(old, f, S, C, v)]]
<1>. /\ old \in [Vars -> SUBSET Slots] /\ S \subseteq {v \in Vars : IsAnd(v)}
     /\ C \subseteq Slots
  BY DEF RowsGiven
<1>1. Recursive(H, D, V, N)
  <2>1. \A v \in D, f \in [D -> V] : RowOf(old, f, S, C, v) \in V
    BY DEF RowOf
  <2>2. ASSUME NEW v \in D, NEW f \in [D -> V], NEW g \in [D -> V],
               \A u \in D : u < v => f[u] = g[u]
        PROVE  RowOf(old, f, S, C, v) = RowOf(old, g, S, C, v)
    <3>1. v \in S => AndRow(f, v) = AndRow(g, v)
      BY <2>2, SameAndRow
    <3>. QED BY <3>1 DEF RowOf
  <2>3. N \in Nat /\ D = 0 .. N - 1 /\ {} \in V
    BY DEF GraphInv, GraphOK, Vars
  <2>. HIDE DEF D, V, N
  <2>. QED BY <2>1, <2>2, <2>3 DEF Recursive
<1>2. PICK f \in [D -> V] : \A v \in D : f[v] = H[v][f]
  <2>. HIDE DEF D, V, H, N
  <2>. QED BY <1>1, RecursionSolved
<1>3. \A v \in D : f[v] = RowOf(old, f, S, C, v)
  <2>. HIDE DEF D, V
  <2>. QED BY <1>2
<1>. QED BY <1>3

LEMMA AndRowTyped ==
  ASSUME GraphInv, NEW f \in [Vars -> SUBSET Slots], NEW v \in Vars, IsAnd(v)
  PROVE  AndRow(f, v) \subseteq Slots
<1>1. VarOf(nodes[v].f0) \in Vars
  BY FaninBelow
<1>2. f[VarOf(nodes[v].f0)] \subseteq Slots
  BY <1>1
<1>. QED BY <1>2 DEF AndRow, LitRow

(* simEvalFrom makes the ANDs from simmed on what they compute.            *)
LEMMA EvalRows ==
  ASSUME GraphInv, NEW old \in [Vars -> SUBSET Slots]
  PROVE  /\ EvalFrom(old) \in [Vars -> SUBSET Slots]
         /\ \A v \in Vars : EvalFrom(old)[v] = IF v >= simmed /\ IsAnd(v)
                                               THEN AndRow(EvalFrom(old), v) ELSE old[v]
<1>. DEFINE S == {v \in Vars : v >= simmed /\ IsAnd(v)}
            row(f, v) == IF v >= simmed /\ IsAnd(v) THEN AndRow(f, v) ELSE old[v]
            E == CHOOSE f : f = [v \in Vars |-> row(f, v)]
<1>1. PICK f \in [Vars -> SUBSET Slots] : \A v \in Vars : f[v] = RowOf(old, f, S, Slots, v)
  <2>1. RowsGiven(old, S, Slots)
    BY DEF RowsGiven
  <2>. HIDE DEF S
  <2>. QED BY <2>1, RowsExist
<1>2. \A v \in Vars : RowOf(old, f, S, Slots, v) = row(f, v)
  BY AndRowTyped DEF RowOf
<1>3. f = [v \in Vars |-> row(f, v)]
  <2>. HIDE DEF row, S
  <2>. QED BY <1>1, <1>2
<1>4. E = [v \in Vars |-> row(E, v)]
  <2>. HIDE DEF row
  <2>. QED BY <1>3
<1>5. E = EvalFrom(old)
  BY DEF EvalFrom
<1>. HIDE DEF E
<1>6. \A v \in Vars : E[v] \subseteq Slots
  BY <1>4, RowsTyped
<1>. QED BY <1>4, <1>5, <1>6

(* simRecomputeWords does, on the care words.                              *)
LEMMA CareRows ==
  ASSUME GraphInv, NEW old \in [Vars -> SUBSET Slots]
  PROVE  /\ RecomputeCare(old) \in [Vars -> SUBSET Slots]
         /\ \A v \in Vars : RecomputeCare(old)[v] =
              IF IsAnd(v) THEN (old[v] \ CareSlots)
                                 \union (AndRow(RecomputeCare(old), v) \intersect CareSlots)
              ELSE old[v]
<1>. DEFINE S == {v \in Vars : IsAnd(v)}
            row(f, v) == IF IsAnd(v) THEN (old[v] \ CareSlots)
                                            \union (AndRow(f, v) \intersect CareSlots)
                         ELSE old[v]
            E == CHOOSE f : f = [v \in Vars |-> row(f, v)]
<1>1. PICK f \in [Vars -> SUBSET Slots] : \A v \in Vars : f[v] = RowOf(old, f, S, CareSlots, v)
  <2>1. RowsGiven(old, S, CareSlots)
    BY AigSatAssumption DEF RowsGiven
  <2>. HIDE DEF S
  <2>. QED BY <2>1, RowsExist
<1>2. f = [v \in Vars |-> row(f, v)]
  <2>1. \A v \in Vars : RowOf(old, f, S, CareSlots, v) = row(f, v)
    BY DEF RowOf
  <2>. HIDE DEF row, S
  <2>. QED BY <1>1, <2>1
<1>3. E = [v \in Vars |-> row(E, v)]
  <2>. HIDE DEF row
  <2>. QED BY <1>2
<1>4. E = RecomputeCare(old)
  BY DEF RecomputeCare
<1>. HIDE DEF E
<1>5. \A v \in Vars : E[v] \subseteq Slots
  BY <1>3, RowsTyped, AigSatAssumption
<1>. QED BY <1>3, <1>4, <1>5

(* The words: of the nodes below simmed, and as they compute.              *)
SimInv ==
  /\ simmed \in Nat /\ Mark <= simmed /\ simmed <= NumVars
  /\ sim \in [0 .. simmed - 1 -> SUBSET Slots]
  /\ sim[0] = {}
  /\ SimFaithful

LEMMA SimVars ==
  ASSUME GraphInv, SimInv
  PROVE  /\ Vars = 0 .. NumVars - 1 /\ NumVars \in Nat /\ 0 .. simmed - 1 \subseteq Vars
         /\ 0 \in 0 .. simmed - 1 /\ DOMAIN sim = 0 .. simmed - 1
         /\ RealPis \subseteq 0 .. simmed - 1 /\ 0 \notin RealPis
         /\ \A v \in RealPis : ~IsAnd(v)
         /\ ~IsAnd(0)
<1>1. /\ Vars = 0 .. NumVars - 1 /\ NumVars \in Nat /\ nodes[0] = Pi
      /\ \A v \in 0 .. Mark - 1 : nodes[v] = Base[v]
  BY DEF GraphInv, GraphOK, Vars, WellFormed
<1>2. /\ simmed \in Nat /\ Mark <= simmed /\ simmed <= NumVars /\ DOMAIN sim = 0 .. simmed - 1
  BY DEF SimInv
<1>3. \A v \in RealPis : v \in 0 .. Mark - 1 /\ v # 0 /\ Base[v] = Pi
  BY MarkType DEF RealPis
<1>. QED BY <1>1, <1>2, <1>3, MarkType DEF IsAnd

(* simEnsure: zeros for the nodes that are new.                            *)
LEMMA EnsuredRows ==
  ASSUME GraphInv, SimInv
  PROVE  /\ Ensured \in [Vars -> SUBSET Slots]
         /\ \A v \in 0 .. simmed - 1 : Ensured[v] = sim[v]
         /\ Ensured[0] = {}
BY SimVars DEF Ensured, SimInv

(* The nodes below simmed compute what they did if their rows are the same.*)
LEMMA BelowFaithful ==
  ASSUME GraphInv, SimInv, NEW v \in Vars, IsAnd(v), v < simmed
  PROVE  /\ sim[v] = AndRow(sim, v) /\ v \in 0 .. simmed - 1
         /\ \A u \in Vars : u < v => u \in 0 .. simmed - 1
BY SimVars DEF SimInv, SimFaithful

(* Words that are right for all nodes.                                     *)
LEMMA AllSimmed ==
  ASSUME GraphInv, SimInv, NEW new \in [Vars -> SUBSET Slots], new[0] = {},
         \A v \in Vars : IsAnd(v) => new[v] = AndRow(new, v),
         sim' = new, simmed' = NumVars, UNCHANGED nodes
  PROVE  SimInv'
<1>1. NumVars' = NumVars /\ Vars' = Vars
  BY DEF NumVars, Vars
<1>2. \A v \in Vars : AndRow(sim, v)' = AndRow(new, v) /\ (IsAnd(v)' <=> IsAnd(v))
  BY DEF AndRow, LitRow, IsAnd
<1>3. SimFaithful'
  BY <1>1, <1>2 DEF SimFaithful
<1>4. sim' \in [0 .. simmed' - 1 -> SUBSET Slots]
  <2>1. Vars = 0 .. simmed' - 1
    BY SimVars
  <2>. QED BY <2>1
<1>5. simmed' \in Nat /\ Mark <= simmed' /\ simmed' <= NumVars'
  BY <1>1, SimVars, MarkType DEF SimInv
<1>. QED BY <1>3, <1>4, <1>5 DEF SimInv

LEMMA CollectSim ==
  ASSUME GraphInv, SimInv, sim' = EvalFrom(Ensured), simmed' = NumVars, UNCHANGED nodes
  PROVE  SimInv'
<1>. DEFINE new == EvalFrom(Ensured)
<1>1. /\ new \in [Vars -> SUBSET Slots]
      /\ \A v \in Vars : new[v] = IF v >= simmed /\ IsAnd(v) THEN AndRow(new, v)
                                  ELSE Ensured[v]
  BY EnsuredRows, EvalRows
<1>. HIDE DEF new
<1>2. \A u \in 0 .. simmed - 1 : new[u] = sim[u]
  <2>1. ASSUME NEW u \in 0 .. simmed - 1 PROVE new[u] = sim[u]
    <3>1. u \in Vars /\ ~(u >= simmed) /\ Ensured[u] = sim[u]
      BY SimVars, EnsuredRows DEF SimInv
    <3>. QED BY <1>1, <3>1
  <2>. QED BY <2>1
<1>3. ASSUME NEW v \in Vars, IsAnd(v) PROVE new[v] = AndRow(new, v)
  <2>1. CASE v >= simmed
    BY <1>1, <1>3, <2>1
  <2>2. CASE v < simmed
    <3>1. sim[v] = AndRow(sim, v) /\ new[v] = sim[v]
      BY <1>2, <1>3, <2>2, BelowFaithful
    <3>2. \A u \in Vars : u < v => new[u] = sim[u]
      BY <1>2, <1>3, <2>2, BelowFaithful
    <3>3. AndRow(new, v) = AndRow(sim, v)
      BY <1>3, <3>2, SameAndRow
    <3>. QED BY <3>1, <3>3
  <2>3. v \in Int /\ simmed \in Int
    BY SimVars DEF SimInv
  <2>. QED BY <2>1, <2>2, <2>3
<1>4. new[0] = {}
  BY <1>2, SimVars DEF SimInv
<1>. QED BY <1>1, <1>3, <1>4, AllSimmed DEF new

(* What an AND computes on the other patterns depends on them only.        *)
LEMMA OffCare ==
  ASSUME GraphInv, NEW v \in Vars, IsAnd(v), NEW f, NEW g,
         \A u \in Vars : u < v => f[u] \ CareSlots = g[u] \ CareSlots
  PROVE  AndRow(f, v) \ CareSlots = AndRow(g, v) \ CareSlots
<1>. DEFINE a == VarOf(nodes[v].f0)
            b == VarOf(nodes[v].f1)
<1>1. f[a] \ CareSlots = g[a] \ CareSlots /\ f[b] \ CareSlots = g[b] \ CareSlots
  BY FaninBelow
<1>. QED BY <1>1 DEF AndRow, LitRow

(* The words when a counterexample is stored: the inputs have it in its    *)
(* slot, and all ANDs compute what they should, on the other patterns too. *)
LEMMA StoredRows ==
  ASSUME GraphInv, SimInv, NEW slot \in CareSlots, NEW ones
  PROVE  LET new == Stored(slot, ones) IN
         /\ new \in [Vars -> SUBSET Slots]
         /\ \A v \in Vars : IsAnd(v) => new[v] = AndRow(new, v)
         /\ new[0] = {} /\ \A v \in RealPis : slot \in new[v] <=> v \in ones
<1>. DEFINE old == Inject(Ensured, slot, ones)
            mid == EvalFrom(old)
            new == RecomputeCare(mid)
<1>1. /\ Ensured \in [Vars -> SUBSET Slots] /\ slot \in Slots /\ DOMAIN Ensured = Vars
      /\ RealPis \subseteq Vars /\ 0 \in Vars /\ 0 .. simmed - 1 \subseteq Vars
  BY EnsuredRows, SimVars, AigSatAssumption
<1>2. /\ old \in [Vars -> SUBSET Slots]
      /\ \A v \in Vars : v \notin RealPis => old[v] = Ensured[v]
      /\ \A v \in RealPis : slot \in old[v] <=> v \in ones
      /\ \A v \in Vars : old[v] \ CareSlots = Ensured[v] \ CareSlots
  BY <1>1 DEF Inject
<1>. HIDE DEF old
<1>3. /\ mid \in [Vars -> SUBSET Slots]
      /\ \A v \in Vars : mid[v] = IF v >= simmed /\ IsAnd(v) THEN AndRow(mid, v) ELSE old[v]
  BY <1>2, EvalRows
<1>. HIDE DEF mid
<1>4. /\ new \in [Vars -> SUBSET Slots]
      /\ \A v \in Vars : new[v] =
           IF IsAnd(v) THEN (mid[v] \ CareSlots) \union (AndRow(new, v) \intersect CareSlots)
           ELSE mid[v]
  BY <1>3, CareRows
<1>. HIDE DEF new
<1>5. \A v \in Vars : ~IsAnd(v) => new[v] = old[v]
  BY <1>3, <1>4
<1>6. \A u \in 0 .. simmed - 1 : mid[u] \ CareSlots = sim[u] \ CareSlots
  <2>1. ASSUME NEW u \in 0 .. simmed - 1 PROVE mid[u] \ CareSlots = sim[u] \ CareSlots
    <3>1. u \in Vars /\ ~(u >= simmed) /\ Ensured[u] = sim[u]
      BY SimVars, EnsuredRows DEF SimInv
    <3>. QED BY <1>2, <1>3, <3>1
  <2>. QED BY <2>1
<1>7. ASSUME NEW v \in Vars, IsAnd(v) PROVE mid[v] \ CareSlots = AndRow(mid, v) \ CareSlots
  <2>1. CASE v >= simmed
    BY <1>3, <1>7, <2>1
  <2>2. CASE v < simmed
    <3>1. sim[v] = AndRow(sim, v) /\ mid[v] \ CareSlots = sim[v] \ CareSlots
      BY <1>6, <1>7, <2>2, BelowFaithful
    <3>2. \A u \in Vars : u < v => mid[u] \ CareSlots = sim[u] \ CareSlots
      BY <1>6, <1>7, <2>2, BelowFaithful
    <3>3. AndRow(mid, v) \ CareSlots = AndRow(sim, v) \ CareSlots
      BY <1>7, <3>2, OffCare
    <3>. QED BY <3>1, <3>3
  <2>3. v \in Int /\ simmed \in Int
    BY SimVars DEF SimInv
  <2>. QED BY <2>1, <2>2, <2>3
<1>8. \A v \in Vars : new[v] \ CareSlots = mid[v] \ CareSlots
  BY <1>4
<1>9. ASSUME NEW v \in Vars, IsAnd(v) PROVE new[v] = AndRow(new, v)
  <2>1. AndRow(new, v) \ CareSlots = AndRow(mid, v) \ CareSlots
    BY <1>8, <1>9, OffCare
  <2>2. new[v] = (mid[v] \ CareSlots) \union (AndRow(new, v) \intersect CareSlots)
    BY <1>4, <1>9
  <2>. QED BY <1>7, <1>9, <2>1, <2>2
<1>10. new[0] = {}
  BY <1>1, <1>2, <1>5, SimVars, EnsuredRows
<1>11. \A v \in RealPis : slot \in new[v] <=> v \in ones
  BY <1>1, <1>2, <1>5, SimVars
<1>. QED BY <1>4, <1>9, <1>10, <1>11 DEF new, mid, old, Stored

LEMMA InitSim == Init => SimInv
<1>. SUFFICES ASSUME Init PROVE SimInv
  OBVIOUS
<1>1. GraphInv
  BY InitInv DEF IInv
<1>2. PICK s \in Seeds :
        sim = LET rows[v \in DOMAIN Base] ==
                    IF Base[v] # Pi
                    THEN LitRow(rows, Base[v].f0) \intersect LitRow(rows, Base[v].f1)
                    ELSE IF v = 0 THEN {} ELSE s[v]
              IN  rows
  BY DEF Init
<1>3. /\ nodes = Base /\ Vars = DOMAIN Base /\ Vars = 0 .. Mark - 1 /\ simmed = Mark
      /\ NumVars = Mark /\ Mark \in Nat /\ Mark >= 1 /\ 0 \in Vars /\ ~IsAnd(0)
  BY MarkType, AigSatAssumption DEF Init, Vars, NumVars, Mark, IsAnd, WellFormed
<1>. DEFINE S == {v \in Vars : IsAnd(v)}
            seed == [v \in Vars |-> IF v \in RealPis THEN s[v] ELSE {}]
            row(f, v) == IF IsAnd(v) THEN AndRow(f, v) ELSE seed[v]
            E == CHOOSE f : f = [v \in Vars |-> row(f, v)]
<1>4. seed \in [Vars -> SUBSET Slots] /\ seed[0] = {}
  <2>1. s \in [RealPis -> SUBSET Slots] /\ 0 \notin RealPis
    BY AigSatAssumption DEF RealPis
  <2>. QED BY <1>3, <2>1
<1>5. sim = E
  <2>1. \A f, v : v \in Vars =>
          row(f, v) = IF Base[v] # Pi
                      THEN LitRow(f, Base[v].f0) \intersect LitRow(f, Base[v].f1)
                      ELSE IF v = 0 THEN {} ELSE s[v]
    BY <1>3 DEF AndRow, IsAnd, RealPis
  <2>2. \A f : [v \in Vars |-> row(f, v)]
               = [v \in DOMAIN Base |->
                    IF Base[v] # Pi
                    THEN LitRow(f, Base[v].f0) \intersect LitRow(f, Base[v].f1)
                    ELSE IF v = 0 THEN {} ELSE s[v]]
    <3>. HIDE DEF row
    <3>. QED BY <1>3, <2>1
  <2>. HIDE DEF row
  <2>. QED BY <1>2, <2>2
<1>. HIDE DEF seed
<1>6. PICK f \in [Vars -> SUBSET Slots] : \A v \in Vars : f[v] = RowOf(seed, f, S, Slots, v)
  <2>1. RowsGiven(seed, S, Slots)
    BY <1>4 DEF RowsGiven
  <2>. HIDE DEF S
  <2>. QED BY <1>1, <2>1, RowsExist
<1>7. \A v \in Vars : RowOf(seed, f, S, Slots, v) = row(f, v)
  BY <1>1, <1>4, AndRowTyped DEF RowOf
<1>8. f = [v \in Vars |-> row(f, v)]
  <2>. HIDE DEF row, S
  <2>. QED BY <1>6, <1>7
<1>9. E = [v \in Vars |-> row(E, v)]
  <2>. HIDE DEF row
  <2>. QED BY <1>8
<1>. HIDE DEF E
<1>10. \A v \in Vars : E[v] \subseteq Slots
  BY <1>1, <1>4, <1>9, RowsTyped
<1>11. SimFaithful
  BY <1>3, <1>5, <1>9 DEF SimFaithful
<1>12. sim \in [0 .. simmed - 1 -> SUBSET Slots] /\ sim[0] = {}
  BY <1>3, <1>4, <1>5, <1>9, <1>10
<1>. QED BY <1>3, <1>11, <1>12 DEF SimInv

(* A node more does not change the words.                                  *)
LEMMA AddedSim ==
  ASSUME GraphInv, SimInv, NEW nd, AddNode(nd), UNCHANGED simVars
  PROVE  SimInv'
<1>1. /\ Vars = 0 .. NumVars - 1 /\ Vars' = 0 .. NumVars /\ NumVars' = NumVars + 1
      /\ \A v \in Vars : nodes'[v] = nodes[v]
  BY NodeAdded
<1>2. sim' = sim /\ simmed' = simmed
  BY DEF simVars
<1>3. ASSUME NEW v \in Vars', v < simmed, IsAnd(v)'
      PROVE  v \in DOMAIN sim /\ sim[v] = AndRow(sim, v)'
  <2>1. v \in Vars /\ nodes'[v] = nodes[v]
    BY <1>1, <1>3, SimVars DEF SimInv
  <2>2. v \in DOMAIN sim /\ sim[v] = AndRow(sim, v)
    BY <1>3, <2>1 DEF SimInv, SimFaithful, IsAnd
  <2>. QED BY <1>2, <2>1, <2>2 DEF AndRow, LitRow
<1>4. SimFaithful'
  BY <1>2, <1>3 DEF SimFaithful
<1>. QED BY <1>1, <1>2, <1>4, SimVars DEF SimInv

(* rollback forgets the words of the nodes it drops.                       *)
LEMMA DroppedSim ==
  ASSUME GraphInv, SimInv, NewRound
  PROVE  SimInv'
<1>. USE MarkType
<1>1. /\ Vars' = 0 .. Mark - 1 /\ \A v \in 0 .. Mark - 1 : nodes'[v] = nodes[v]
      /\ Mark <= simmed /\ simmed \in Nat /\ simmed <= NumVars
      /\ sim \in [0 .. simmed - 1 -> SUBSET Slots] /\ sim[0] = {}
      /\ Vars = 0 .. NumVars - 1 /\ NumVars \in Nat
  BY SimVars DEF NewRound, Vars, SimInv
<1>2. NumVars' = Mark
  BY <1>1, CountIndices DEF NumVars
<1>3. simmed' = Mark
  BY <1>1 DEF NewRound, SimmedRolledBack
<1>4. /\ DOMAIN sim' = 0 .. Mark - 1 /\ sim' \in [0 .. Mark - 1 -> SUBSET Slots]
      /\ \A v \in 0 .. Mark - 1 : sim'[v] = sim[v]
  <2>1. sim' = [v \in {u \in DOMAIN sim : u < Mark} |-> sim[v]]
    BY DEF NewRound
  <2>2. {u \in DOMAIN sim : u < Mark} = 0 .. Mark - 1
    BY <1>1
  <2>. QED BY <1>1, <2>1, <2>2
<1>5. ASSUME NEW v \in Vars', IsAnd(v)'
      PROVE  v \in DOMAIN sim' /\ sim'[v] = AndRow(sim, v)'
  <2>1. v \in Vars /\ v < simmed /\ IsAnd(v) /\ nodes'[v] = nodes[v] /\ v < Mark
    BY <1>1, <1>5 DEF IsAnd
  <2>2. /\ VarOf(nodes[v].f0) \in 0 .. Mark - 1 /\ VarOf(nodes[v].f1) \in 0 .. Mark - 1
        /\ sim[v] = AndRow(sim, v)
    BY <1>1, <2>1, FaninBelow DEF SimInv, SimFaithful
  <2>. QED BY <1>1, <1>4, <1>5, <2>1, <2>2 DEF AndRow, LitRow
<1>6. SimFaithful'
  BY <1>5 DEF SimFaithful
<1>. QED BY <1>1, <1>2, <1>3, <1>4, <1>6 DEF SimInv

-----------------------------------------------------------------------------
(* The values of nodes and of SAT variables.  ON is the set of the nodes   *)
(* that are 1, under some inputs, on some pattern or in some model.        *)

LitIn(ON, l) == IF Phase(l) = 0 THEN VarOf(l) \in ON ELSE VarOf(l) \notin ON

(* In ON the ANDs of W are what they compute.                              *)
Computes(ON, W) ==
  \A v \in W : IsAnd(v) => (v \in ON <=> LitIn(ON, nodes[v].f0) /\ LitIn(ON, nodes[v].f1))

NodeValues(inputs) ==
  LET val[v \in Vars] ==
        IF ~IsAnd(v) THEN v \in inputs
        ELSE /\ val[VarOf(nodes[v].f0)] = (Phase(nodes[v].f0) = 0)
             /\ val[VarOf(nodes[v].f1)] = (Phase(nodes[v].f1) = 0)
  IN  val

LEMMA ValuesSolved ==
  ASSUME GraphInv, NEW inputs
  PROVE  LET val == NodeValues(inputs) IN
         \A v \in Vars :
           /\ val[v] \in BOOLEAN
           /\ val[v] <=> IF ~IsAnd(v) THEN v \in inputs
                         ELSE /\ val[VarOf(nodes[v].f0)] = (Phase(nodes[v].f0) = 0)
                              /\ val[VarOf(nodes[v].f1)] = (Phase(nodes[v].f1) = 0)
<1>. DEFINE D == Vars
            V == BOOLEAN
            N == NumVars
            at(f, v) == IF ~IsAnd(v) THEN v \in inputs
                        ELSE /\ f[VarOf(nodes[v].f0)] = (Phase(nodes[v].f0) = 0)
                             /\ f[VarOf(nodes[v].f1)] = (Phase(nodes[v].f1) = 0)
            H == [v \in D |-> [f \in [D -> V] |-> at(f, v)]]
            E == CHOOSE f : f = [v \in Vars |-> at(f, v)]
<1>1. ASSUME NEW f, NEW v PROVE at(f, v) \in BOOLEAN
  <2>1. CASE IsAnd(v)
    <3>1. (/\ f[VarOf(nodes[v].f0)] = (Phase(nodes[v].f0) = 0)
           /\ f[VarOf(nodes[v].f1)] = (Phase(nodes[v].f1) = 0)) \in BOOLEAN
      OBVIOUS
    <3>. QED BY <2>1, <3>1
  <2>2. CASE ~IsAnd(v)
    <3>1. (v \in inputs) \in BOOLEAN
      OBVIOUS
    <3>. QED BY <2>2, <3>1
  <2>. QED BY <2>1, <2>2
<1>2. Recursive(H, D, V, N)
  <2>1. ASSUME NEW v \in D, NEW f, NEW g, \A u \in D : u < v => f[u] = g[u]
        PROVE  at(f, v) = at(g, v)
    <3>1. CASE IsAnd(v)
      <4>1. /\ f[VarOf(nodes[v].f0)] = g[VarOf(nodes[v].f0)]
            /\ f[VarOf(nodes[v].f1)] = g[VarOf(nodes[v].f1)]
        BY <2>1, <3>1, FaninBelow
      <4>. QED BY <4>1
    <3>2. CASE ~IsAnd(v)
      BY <3>2
    <3>. QED BY <3>1, <3>2
  <2>2. N \in Nat /\ D = 0 .. N - 1 /\ TRUE \in V
    BY DEF GraphInv, GraphOK, Vars
  <2>. HIDE DEF at, D, N
  <2>. QED BY <1>1, <2>1, <2>2 DEF Recursive
<1>3. PICK f \in [D -> V] : \A v \in D : f[v] = H[v][f]
  <2>. HIDE DEF D, V, H, N
  <2>. QED BY <1>2, RecursionSolved
<1>4. f = [v \in Vars |-> at(f, v)]
  <2>1. \A v \in D : f[v] = at(f, v)
    <3>. HIDE DEF D, V, at
    <3>. QED BY <1>3
  <2>. HIDE DEF at
  <2>. QED BY <2>1
<1>5. E = [v \in Vars |-> at(E, v)]
  <2>. HIDE DEF at
  <2>. QED BY <1>4
<1>6. E = NodeValues(inputs)
  BY DEF NodeValues
<1>7. \A v \in Vars : E[v] = at(E, v)
  <2>. HIDE DEF at, E
  <2>. QED BY <1>5
<1>. HIDE DEF E
<1>. QED BY <1>1, <1>6, <1>7

(* The nodes of ON are those that are 1 under the inputs, and so are the   *)
(* literals.                                                               *)
LEMMA ValuesFollow ==
  ASSUME GraphInv, NEW inputs, NEW ON, NEW W, W \subseteq Vars, Closed(W), Computes(ON, W),
         \A v \in W : ~IsAnd(v) => (v \in ON <=> v \in inputs)
  PROVE  \A l : VarOf(l) \in W => (TrueUnder(inputs, l) <=> LitIn(ON, l))
<1>. DEFINE val == NodeValues(inputs)
            T == {v \in W : ~(val[v] <=> v \in ON)}
<1>1. \A v \in Vars :
        /\ val[v] \in BOOLEAN
        /\ val[v] <=> IF ~IsAnd(v) THEN v \in inputs
                      ELSE /\ val[VarOf(nodes[v].f0)] = (Phase(nodes[v].f0) = 0)
                           /\ val[VarOf(nodes[v].f1)] = (Phase(nodes[v].f1) = 0)
  BY ValuesSolved
<1>. HIDE DEF val
<1>2. ASSUME NEW l, VarOf(l) \in W, val[VarOf(l)] <=> VarOf(l) \in ON
      PROVE  (val[VarOf(l)] = (Phase(l) = 0)) <=> LitIn(ON, l)
  <2>1. val[VarOf(l)] \in BOOLEAN
    BY <1>1, <1>2
  <2>. QED BY <1>2, <2>1 DEF LitIn
<1>3. T = {}
  <2>. SUFFICES ASSUME T # {} PROVE FALSE
    OBVIOUS
  <2>1. PICK v \in T : \A u \in T : v <= u
    <3>1. T \subseteq Nat
      BY DEF GraphInv, GraphOK, Vars
    <3>. HIDE DEF T
    <3>. QED BY <3>1, Smallest
  <2>2. v \in W /\ v \in Vars /\ ~(val[v] <=> v \in ON)
    OBVIOUS
  <2>3. IsAnd(v)
    BY <1>1, <2>2
  <2>. DEFINE a == nodes[v].f0
              b == nodes[v].f1
  <2>4. /\ VarOf(a) \in W /\ VarOf(b) \in W /\ VarOf(a) < v /\ VarOf(b) < v
        /\ VarOf(a) \in Nat /\ VarOf(b) \in Nat /\ v \in Nat
    BY <2>2, <2>3, FaninBelow DEF Closed, GraphInv, GraphOK, Vars
  <2>5. VarOf(a) \notin T /\ VarOf(b) \notin T
    <3>. HIDE DEF T, a, b
    <3>. QED BY <2>1, <2>4
  <2>6. (val[VarOf(a)] <=> VarOf(a) \in ON) /\ (val[VarOf(b)] <=> VarOf(b) \in ON)
    BY <2>4, <2>5
  <2>7. /\ (val[VarOf(a)] = (Phase(a) = 0)) <=> LitIn(ON, a)
        /\ (val[VarOf(b)] = (Phase(b) = 0)) <=> LitIn(ON, b)
    BY <1>2, <2>4, <2>6
  <2>8. v \in ON <=> LitIn(ON, a) /\ LitIn(ON, b)
    BY <2>2, <2>3 DEF Computes
  <2>. QED BY <1>1, <2>2, <2>3, <2>7, <2>8
<1>4. \A v \in W : val[v] <=> v \in ON
  BY <1>3
<1>5. \A l : TrueUnder(inputs, l) <=> (val[VarOf(l)] = (Phase(l) = 0))
  BY DEF TrueUnder, NodeValues, val
<1>. QED BY <1>2, <1>4, <1>5

(* What the solver knows of a SAT variable refers to smaller ones only: a  *)
(* node is encoded after its fanins.                                       *)
SatBelow(a, x) == a \in Int /\ a # 0 /\ -x < a /\ a < x

ClauseInv ==
  \A x \in DOMAIN clauses :
    \/ clauses[x] = False0 \/ clauses[x] = Free
    \/ \E a, b \in Int : clauses[x] = Conj(a, b) /\ SatBelow(a, x) /\ SatBelow(b, x)

LEMMA ClauseKinds ==
  ASSUME NEW a, NEW b
  PROVE  /\ False0.kind = "false" /\ Free.kind = "free"
         /\ Conj(a, b).kind = "and" /\ Conj(a, b).a = a /\ Conj(a, b).b = b
BY DEF False0, Free, Conj

LEMMA SatSolved ==
  ASSUME SatInv, ClauseInv, NEW ones
  PROVE  LET val == SatValues(ones) IN
         \A x \in DOMAIN clauses :
           /\ clauses[x] = False0 => ~val[x]
           /\ clauses[x] = Free => (val[x] <=> x \in ones)
           /\ \A a, b \in Int : clauses[x] = Conj(a, b) =>
                (val[x] <=> Holds(val, a) /\ Holds(val, b))
<1>. DEFINE D == DOMAIN clauses
            V == BOOLEAN
            N == Cardinality(DOMAIN clauses) + 1
            at(f, x) ==
              \/ clauses[x].kind = "free" /\ x \in ones
              \/ clauses[x].kind = "and" /\ Holds(f, clauses[x].a) /\ Holds(f, clauses[x].b)
            H == [x \in D |-> [f \in [D -> V] |-> at(f, x)]]
            E == CHOOSE f : f = [x \in DOMAIN clauses |-> at(f, x)]
<1>1. ASSUME NEW f, NEW x \in D
      PROVE  /\ clauses[x] = False0 => ~at(f, x)
             /\ clauses[x] = Free => (at(f, x) <=> x \in ones)
             /\ \A a, b : clauses[x] = Conj(a, b) => (at(f, x) <=> Holds(f, a) /\ Holds(f, b))
  BY ClauseKinds
<1>2. ASSUME NEW f, NEW x PROVE at(f, x) \in BOOLEAN
  OBVIOUS
<1>. HIDE DEF at
<1>3. D = 1 .. N - 1 /\ N \in Nat
  BY DEF SatInv
<1>4. Recursive(H, D, V, N)
  <2>1. ASSUME NEW x \in D, NEW f, NEW g, \A y \in D : y < x => f[y] = g[y]
        PROVE  at(f, x) = at(g, x)
    <3>1. ASSUME NEW a \in Int, SatBelow(a, x) PROVE Holds(f, a) = Holds(g, a)
      <4>. HIDE DEF D, N
      <4>1. CASE a < 0
        <5>1. -a \in D /\ -a < x
          BY <1>3, <3>1, <4>1 DEF SatBelow
        <5>2. f[-a] = g[-a]
          BY <2>1, <5>1
        <5>. QED BY <4>1, <5>2 DEF Holds
      <4>2. CASE ~(a < 0)
        <5>1. a \in D /\ a < x
          BY <1>3, <3>1, <4>2 DEF SatBelow
        <5>2. f[a] = g[a]
          BY <2>1, <5>1
        <5>. QED BY <4>2, <5>2 DEF Holds
      <4>. QED BY <4>1, <4>2
    <3>2. CASE \E a, b \in Int : clauses[x] = Conj(a, b) /\ SatBelow(a, x) /\ SatBelow(b, x)
      <4>1. PICK a \in Int, b \in Int :
              clauses[x] = Conj(a, b) /\ SatBelow(a, x) /\ SatBelow(b, x)
        BY <3>2
      <4>2. Holds(f, a) = Holds(g, a) /\ Holds(f, b) = Holds(g, b)
        BY <3>1, <4>1
      <4>3. /\ at(f, x) <=> Holds(f, a) /\ Holds(f, b)
            /\ at(g, x) <=> Holds(g, a) /\ Holds(g, b)
        BY <1>1, <4>1
      <4>. QED BY <1>2, <4>2, <4>3
    <3>3. CASE clauses[x] = False0
      BY <1>1, <1>2, <3>3
    <3>4. CASE clauses[x] = Free
      BY <1>1, <1>2, <3>4
    <3>. QED BY <3>2, <3>3, <3>4 DEF ClauseInv
  <2>2. TRUE \in V
    OBVIOUS
  <2>3. D \subseteq Nat /\ \A x \in D : x < N
    BY <1>3
  <2>. HIDE DEF D, N, E
  <2>4. H \in [D -> [[D -> V] -> V]]
    BY <1>2
  <2>5. \A x \in D, f, g \in [D -> V] :
          (\A y \in D : y < x => f[y] = g[y]) => H[x][f] = H[x][g]
    BY <2>1
  <2>. HIDE DEF H, V
  <2>. QED BY <1>3, <2>2, <2>3, <2>4, <2>5 DEF Recursive
<1>5. PICK f \in [D -> V] : \A x \in D : f[x] = H[x][f]
  <2>. HIDE DEF D, V, H, N
  <2>. QED BY <1>4, RecursionSolved
<1>6. f = [x \in DOMAIN clauses |-> at(f, x)]
  <2>1. \A x \in D : f[x] = at(f, x)
    <3>. HIDE DEF D, V
    <3>. QED BY <1>5
  <2>. QED BY <2>1
<1>7. E = [x \in DOMAIN clauses |-> at(E, x)]
  BY <1>6
<1>8. E = SatValues(ones)
  BY DEF SatValues, at
<1>9. \A x \in D : E[x] = at(E, x)
  <2>. HIDE DEF E
  <2>. QED BY <1>7
<1>. HIDE DEF E
<1>10. ASSUME NEW x \in D
       PROVE  /\ clauses[x] = False0 => ~E[x]
              /\ clauses[x] = Free => (E[x] <=> x \in ones)
              /\ \A a, b \in Int : clauses[x] = Conj(a, b) =>
                   (E[x] <=> Holds(E, a) /\ Holds(E, b))
  <2>1. E[x] = at(E, x)
    BY <1>9
  <2>. QED BY <1>1, <2>1
<1>. QED BY <1>8, <1>10

(* In a model, the SAT variables of a set of encoded nodes that has the    *)
(* fanins of its ANDs follow the nodes of ON.                              *)
LEMMA SatFollows ==
  ASSUME GraphInv, SatInv, ClauseInv, NEW ones, NEW ON, NEW W, W \subseteq Vars, Closed(W),
         Computes(ON, W), \A v \in W : SatVarOf(v) # 0, 0 \notin ON,
         \A v \in W : v # 0 /\ ~IsAnd(v) => (v \in ON <=> SatVarOf(v) \in ones)
  PROVE  \A l : VarOf(l) \in W => (Holds(SatValues(ones), SatLit(l)) <=> LitIn(ON, l))
<1>. DEFINE val == SatValues(ones)
            T == {v \in W : ~(val[SatVarOf(v)] <=> v \in ON)}
<1>1. \A x \in DOMAIN clauses :
        /\ clauses[x] = False0 => ~val[x]
        /\ clauses[x] = Free => (val[x] <=> x \in ones)
        /\ \A a, b \in Int : clauses[x] = Conj(a, b) =>
             (val[x] <=> Holds(val, a) /\ Holds(val, b))
  BY SatSolved
<1>. HIDE DEF val
<1>2. \A v \in W : /\ SatVarOf(v) \in DOMAIN clauses /\ SatVarOf(v) \in Nat /\ SatVarOf(v) > 0
                   /\ clauses[SatVarOf(v)] = ClauseOf(v)
  BY DEF SatInv, EncodingFaithful, SatVarOf
<1>3. ASSUME NEW l, VarOf(l) \in W, val[SatVarOf(VarOf(l))] <=> VarOf(l) \in ON
      PROVE  SatLit(l) \in Int /\ (Holds(val, SatLit(l)) <=> LitIn(ON, l))
  <2>1. SatVarOf(VarOf(l)) \in Nat /\ SatVarOf(VarOf(l)) > 0
    BY <1>2, <1>3
  <2>2. CASE Phase(l) = 0
    BY <1>3, <2>1, <2>2 DEF LitIn, SatLit, Holds
  <2>3. CASE Phase(l) # 0
    <3>1. SatLit(l) = -SatVarOf(VarOf(l)) /\ SatLit(l) < 0 /\ -SatLit(l) = SatVarOf(VarOf(l))
      BY <2>1, <2>3 DEF SatLit
    <3>2. Holds(val, SatLit(l)) <=> ~val[SatVarOf(VarOf(l))]
      BY <3>1 DEF Holds
    <3>. QED BY <1>3, <2>1, <2>3, <3>1, <3>2 DEF LitIn
  <2>. QED BY <2>2, <2>3
<1>4. T = {}
  <2>. SUFFICES ASSUME T # {} PROVE FALSE
    OBVIOUS
  <2>1. PICK v \in T : \A u \in T : v <= u
    <3>1. T \subseteq Nat
      BY DEF GraphInv, GraphOK, Vars
    <3>. HIDE DEF T
    <3>. QED BY <3>1, Smallest
  <2>2. v \in W /\ v \in Vars /\ ~(val[SatVarOf(v)] <=> v \in ON)
    OBVIOUS
  <2>. DEFINE x == SatVarOf(v)
              a == nodes[v].f0
              b == nodes[v].f1
  <2>3. x \in DOMAIN clauses /\ clauses[x] = ClauseOf(v)
    BY <1>2, <2>2
  <2>4. CASE v = 0
    <3>1. clauses[x] = False0
      BY <2>3, <2>4 DEF ClauseOf
    <3>. QED BY <1>1, <2>2, <2>3, <2>4, <3>1
  <2>5. CASE v # 0 /\ ~IsAnd(v)
    <3>1. clauses[x] = Free
      BY <2>3, <2>5 DEF ClauseOf
    <3>. QED BY <1>1, <2>2, <2>3, <2>5, <3>1
  <2>6. CASE v # 0 /\ IsAnd(v)
    <3>1. clauses[x] = Conj(SatLit(a), SatLit(b))
      BY <2>3, <2>6 DEF ClauseOf
    <3>2. /\ VarOf(a) \in W /\ VarOf(b) \in W /\ VarOf(a) < v /\ VarOf(b) < v
          /\ VarOf(a) \in Nat /\ VarOf(b) \in Nat /\ v \in Nat
      BY <2>2, <2>6, FaninBelow DEF Closed, GraphInv, GraphOK, Vars
    <3>3. VarOf(a) \notin T /\ VarOf(b) \notin T
      <4>. HIDE DEF T, a, b
      <4>. QED BY <2>1, <3>2
    <3>4. /\ val[SatVarOf(VarOf(a))] <=> VarOf(a) \in ON
          /\ val[SatVarOf(VarOf(b))] <=> VarOf(b) \in ON
      BY <3>2, <3>3
    <3>5. /\ SatLit(a) \in Int /\ (Holds(val, SatLit(a)) <=> LitIn(ON, a))
          /\ SatLit(b) \in Int /\ (Holds(val, SatLit(b)) <=> LitIn(ON, b))
      BY <1>3, <3>2, <3>4
    <3>6. v \in ON <=> LitIn(ON, a) /\ LitIn(ON, b)
      BY <2>2, <2>6 DEF Computes
    <3>. HIDE DEF x, a, b
    <3>7. val[x] <=> Holds(val, SatLit(a)) /\ Holds(val, SatLit(b))
      BY <1>1, <2>3, <3>1, <3>5
    <3>. QED BY <2>2, <3>5, <3>6, <3>7 DEF x
  <2>. QED BY <2>4, <2>5, <2>6
<1>5. \A v \in W : val[SatVarOf(v)] <=> v \in ON
  BY <1>4
<1>. QED BY <1>3, <1>5 DEF val

LEMMA EncodeClause == IInv /\ ClauseInv /\ Encode => ClauseInv'
<1>. SUFFICES ASSUME IInv, ClauseInv, Encode PROVE ClauseInv'
  OBVIOUS
<1>. DEFINE x == Cardinality(DOMAIN clauses) + 1
<1>1. PICK v \in Unencoded(cand) :
        /\ \A u \in Unencoded(cand) : v <= u
        /\ clauses' = [y \in DOMAIN clauses \union {x} |->
                         IF y = x THEN ClauseOf(v) ELSE clauses[y]]
  BY DEF Encode
<1>2. /\ x \in Nat /\ DOMAIN clauses = 1 .. x - 1
      /\ \A u : SatVarOf(u) \in 0 .. x - 1
  BY DEF IInv, SatInv, SatVarOf
<1>. HIDE DEF x
<1>3. /\ DOMAIN clauses' = DOMAIN clauses \union {x} /\ clauses'[x] = ClauseOf(v)
      /\ \A y \in DOMAIN clauses : clauses'[y] = clauses[y]
  BY <1>1, <1>2
<1>4. ASSUME NEW l, SatVarOf(VarOf(l)) # 0 PROVE SatLit(l) \in Int /\ SatBelow(SatLit(l), x)
  <2>1. SatVarOf(VarOf(l)) \in 1 .. x - 1
    BY <1>2, <1>4
  <2>2. SatLit(l) = SatVarOf(VarOf(l)) \/ SatLit(l) = -SatVarOf(VarOf(l))
    BY DEF SatLit
  <2>. QED BY <1>2, <2>1, <2>2 DEF SatBelow
<1>5. CASE IsAnd(v)
  <2>. DEFINE a == nodes[v].f0
              b == nodes[v].f1
  <2>1. v \in Cone(cand) /\ v \in Vars /\ v # 0
    BY <1>5 DEF Unencoded, Cone, IInv, GraphInv, GraphOK, WellFormed, IsAnd
  <2>2. /\ VarOf(a) \in Cone(cand) /\ VarOf(a) < v
        /\ VarOf(b) \in Cone(cand) /\ VarOf(b) < v
    BY <1>5, <2>1, ConeClosed DEF IInv
  <2>. HIDE DEF a, b
  <2>3. \A u \in Cone(cand) : u < v => SatVarOf(u) # 0
    <3>1. Cone(cand) \subseteq Nat
      BY DEF Cone, IInv, GraphInv, GraphOK, Vars
    <3>. QED BY <1>1, <2>1, <3>1 DEF Unencoded
  <2>4. /\ SatLit(a) \in Int /\ SatBelow(SatLit(a), x)
        /\ SatLit(b) \in Int /\ SatBelow(SatLit(b), x)
    BY <1>4, <2>2, <2>3
  <2>5. clauses'[x] = Conj(SatLit(a), SatLit(b))
    BY <1>3, <1>5, <2>1 DEF ClauseOf, a, b
  <2>. QED BY <1>3, <2>4, <2>5 DEF ClauseInv
<1>6. CASE ~IsAnd(v)
  <2>1. clauses'[x] = False0 \/ clauses'[x] = Free
    BY <1>3, <1>6 DEF ClauseOf
  <2>. QED BY <1>3, <2>1 DEF ClauseInv
<1>. QED BY <1>5, <1>6

-----------------------------------------------------------------------------
(* What is found out about a candidate.                                    *)

LEMMA ConeHas ==
  ASSUME GraphInv, NEW lits, \A l \in lits : VarOf(l) \in Vars
  PROVE  /\ Cone(lits) \subseteq Vars /\ Closed(Cone(lits))
         /\ \A l \in lits : VarOf(l) \in Cone(lits)
<1>1. Closed(Cone(lits))
  BY ConeClosed DEF Closed
<1>. QED BY <1>1 DEF Cone

(* A pattern on which all literals are 1 is an input that makes them true. *)
LEMMA PatternRefutes ==
  ASSUME GraphInv, NEW rows, NEW W, W \subseteq Vars, Closed(W), NEW C, NEW s \in Slots,
         s \notin rows[0], \A v \in W : IsAnd(v) => rows[v] = AndRow(rows, v),
         \A l \in C : VarOf(l) \in W /\ s \in LitRow(rows, l)
  PROVE  ~Valid(C)
<1>. DEFINE ON == {v \in W : s \in rows[v]}
            inputs == ON \intersect Pis
<1>1. ASSUME NEW l, VarOf(l) \in W PROVE LitIn(ON, l) <=> s \in LitRow(rows, l)
  BY <1>1 DEF LitIn, LitRow
<1>2. Computes(ON, W)
  <2>1. ASSUME NEW v \in W, IsAnd(v)
        PROVE  v \in ON <=> LitIn(ON, nodes[v].f0) /\ LitIn(ON, nodes[v].f1)
    <3>1. VarOf(nodes[v].f0) \in W /\ VarOf(nodes[v].f1) \in W
      BY <2>1 DEF Closed
    <3>2. s \in rows[v] <=> s \in LitRow(rows, nodes[v].f0) /\ s \in LitRow(rows, nodes[v].f1)
      BY <2>1 DEF AndRow
    <3>3. v \in ON <=> s \in rows[v]
      OBVIOUS
    <3>. HIDE DEF ON
    <3>. QED BY <1>1, <3>1, <3>2, <3>3
  <2>. HIDE DEF ON
  <2>. QED BY <2>1 DEF Computes
<1>3. \A v \in W : ~IsAnd(v) => (v \in ON <=> v \in inputs)
  BY DEF Pis
<1>4. inputs \subseteq Pis
  OBVIOUS
<1>. HIDE DEF ON, inputs
<1>5. \A l : VarOf(l) \in W => (TrueUnder(inputs, l) <=> LitIn(ON, l))
  BY <1>2, <1>3, ValuesFollow
<1>. QED BY <1>1, <1>4, <1>5 DEF Valid

(* The SAT variables of the nodes a candidate depends on.                  *)
LEMMA ConeEncoded ==
  ASSUME GraphInv, SatInv, NEW lits, Unencoded(lits) = {}
  PROVE  /\ \A v \in Cone(lits) :
              /\ v \in DOMAIN satVar /\ SatVarOf(v) = satVar[v] /\ SatVarOf(v) # 0
              /\ SatVarOf(v) \in DOMAIN clauses /\ clauses[SatVarOf(v)] = ClauseOf(v)
         /\ \A u, v \in Cone(lits) : SatVarOf(u) = SatVarOf(v) => u = v
<1>1. \A v \in Cone(lits) : SatVarOf(v) # 0
  BY DEF Unencoded
<1>2. \A v \in Cone(lits) : v \in DOMAIN satVar /\ SatVarOf(v) = satVar[v]
  BY <1>1 DEF SatVarOf
<1>. QED BY <1>1, <1>2 DEF SatInv, EncodingFaithful

(* The candidate: its literals are of nodes with words, it depends on real *)
(* inputs only, and nothing is known of it while it is worked at.          *)
CandInv ==
  /\ \A l \in cand : l \in Nat /\ VarOf(l) \in 0 .. simmed - 1
  /\ Cone(cand) \intersect Pis \subseteq RealPis
  /\ pc # "build" => verdict = NoVerdict

AllInv == IInv /\ SimInv /\ ClauseInv /\ CandInv /\ VerdictRight

(* A pattern that screens a candidate out refutes it.                      *)
LEMMA ScreenedRefuted ==
  ASSUME AllInv, NEW s \in Slots, \A l \in cand : s \in LitRow(sim, l)
  PROVE  ~Valid(cand)
<1>. DEFINE W == 0 .. simmed - 1
<1>. GraphInv /\ SimInv /\ CandInv
  BY DEF AllInv, IInv
<1>1. W \subseteq Vars /\ s \notin sim[0]
  BY SimVars DEF SimInv
<1>2. \A v \in W : IsAnd(v) => v \in Nat /\ v < simmed /\ simmed \in Nat
  BY DEF SimInv
<1>3. Closed(W)
  <2>1. ASSUME NEW v \in W, IsAnd(v)
        PROVE  VarOf(nodes[v].f0) \in W /\ VarOf(nodes[v].f1) \in W
    <3>1. v \in Vars /\ v < simmed
      BY <1>1, <1>2, <2>1
    <3>2. /\ VarOf(nodes[v].f0) \in Vars /\ VarOf(nodes[v].f0) < v
          /\ VarOf(nodes[v].f1) \in Vars /\ VarOf(nodes[v].f1) < v
      BY <2>1, <3>1, FaninBelow
    <3>. QED BY <2>1, <3>1, <3>2, BelowFaithful
  <2>. QED BY <2>1 DEF Closed
<1>4. \A v \in W : IsAnd(v) => sim[v] = AndRow(sim, v)
  BY <1>1, <1>2 DEF SimInv, SimFaithful
<1>5. \A l \in cand : VarOf(l) \in W /\ s \in LitRow(sim, l)
  BY DEF CandInv
<1>. HIDE DEF W
<1>. QED BY <1>1, <1>3, <1>4, <1>5, PatternRefutes

(* A model refutes the candidate, and its pattern, once stored, screens it *)
(* out.                                                                    *)
LEMMA ModelRefutes ==
  ASSUME AllInv, Unencoded(cand) = {}, NEW model \in Models(cand), NEW slot \in CareSlots,
         NEW ones,
         ones = {v \in RealPis : SatVarOf(v) # 0 /\ SatValues(model)[SatVarOf(v)]}
  PROVE  ~Valid(cand) /\ \A l \in cand : slot \in LitRow(Stored(slot, ones), l)
<1>. DEFINE W == Cone(cand)
            new == Stored(slot, ones)
            ON == {v \in W : slot \in new[v]}
<1>. GraphInv /\ SimInv /\ CandInv /\ SatInv /\ ClauseInv /\ slot \in Slots
  BY AigSatAssumption DEF AllInv, IInv
<1>1. /\ \A v \in Vars : IsAnd(v) => new[v] = AndRow(new, v)
      /\ new[0] = {} /\ \A v \in RealPis : slot \in new[v] <=> v \in ones
  BY StoredRows
<1>. HIDE DEF new
<1>2. W \subseteq Vars /\ Closed(W) /\ \A l \in cand : l \in Nat /\ VarOf(l) \in W
  BY SimVars, ConeHas DEF CandInv
<1>3. \A v \in W : SatVarOf(v) # 0 /\ SatVarOf(v) \in DOMAIN clauses
                   /\ clauses[SatVarOf(v)] = ClauseOf(v)
  BY ConeEncoded
<1>4. Computes(ON, W)
  <2>1. ASSUME NEW v \in W, IsAnd(v)
        PROVE  v \in ON <=> LitIn(ON, nodes[v].f0) /\ LitIn(ON, nodes[v].f1)
    <3>1. VarOf(nodes[v].f0) \in W /\ VarOf(nodes[v].f1) \in W
      BY <1>2, <2>1 DEF Closed
    <3>2. v \in Vars /\ new[v] = AndRow(new, v)
      BY <1>1, <1>2, <2>1
    <3>3. slot \in new[v] <=> slot \in LitRow(new, nodes[v].f0) /\ slot \in LitRow(new, nodes[v].f1)
      BY <3>2 DEF AndRow
    <3>4. \A l : VarOf(l) \in W => (LitIn(ON, l) <=> slot \in LitRow(new, l))
      BY DEF LitIn, LitRow
    <3>5. v \in ON <=> slot \in new[v]
      OBVIOUS
    <3>. HIDE DEF ON
    <3>. QED BY <3>1, <3>3, <3>4, <3>5
  <2>. HIDE DEF ON
  <2>. QED BY <2>1 DEF Computes
<1>5. 0 \notin ON
  BY <1>1
<1>6. ASSUME NEW v \in W, v # 0, ~IsAnd(v) PROVE v \in ON <=> SatVarOf(v) \in model
  <2>1. v \in RealPis /\ SatVarOf(v) # 0
    BY <1>2, <1>3, <1>6 DEF CandInv, Pis
  <2>2. v \in ON <=> SatValues(model)[SatVarOf(v)]
    BY <1>1, <2>1
  <2>3. clauses[SatVarOf(v)] = Free /\ SatVarOf(v) \in DOMAIN clauses
    BY <1>3, <1>6 DEF ClauseOf
  <2>4. SatValues(model)[SatVarOf(v)] <=> SatVarOf(v) \in model
    BY <2>3, SatSolved
  <2>. QED BY <2>2, <2>4
<1>. HIDE DEF ON, W
<1>7. \A l : VarOf(l) \in W => (Holds(SatValues(model), SatLit(l)) <=> LitIn(ON, l))
  BY <1>2, <1>3, <1>4, <1>5, <1>6, SatFollows
<1>8. ASSUME NEW l \in cand PROVE slot \in LitRow(new, l)
  <2>1. LitIn(ON, l)
    BY <1>2, <1>7, <1>8 DEF Models
  <2>. QED BY <1>2, <1>8, <2>1 DEF LitIn, LitRow, ON
<1>9. ~Valid(cand)
  <2>1. \A v \in W : IsAnd(v) => new[v] = AndRow(new, v)
    BY <1>1, <1>2
  <2>. QED BY <1>1, <1>2, <1>8, <2>1, PatternRefutes
<1>. QED BY <1>8, <1>9 DEF new

(* Inputs that make all literals true are a model.                         *)
LEMMA NoModelValid ==
  ASSUME AllInv, Unencoded(cand) = {}, Models(cand) = {}
  PROVE  Valid(cand)
<1>. SUFFICES ASSUME NEW inputs \in SUBSET Pis, \A l \in cand : TrueUnder(inputs, l)
     PROVE  FALSE
  BY DEF Valid
<1>. DEFINE W == Cone(cand)
            val == NodeValues(inputs)
            ON == {v \in Vars : val[v]}
            model == {SatVarOf(v) : v \in W \intersect inputs}
<1>. GraphInv /\ SimInv /\ CandInv /\ SatInv /\ ClauseInv
  BY DEF AllInv, IInv
<1>1. \A v \in Vars :
        /\ val[v] \in BOOLEAN
        /\ val[v] <=> IF ~IsAnd(v) THEN v \in inputs
                      ELSE /\ val[VarOf(nodes[v].f0)] = (Phase(nodes[v].f0) = 0)
                           /\ val[VarOf(nodes[v].f1)] = (Phase(nodes[v].f1) = 0)
  BY ValuesSolved
<1>. HIDE DEF val
<1>2. W \subseteq Vars /\ Closed(W) /\ \A l \in cand : l \in Nat /\ VarOf(l) \in W
  BY SimVars, ConeHas DEF CandInv
<1>3. /\ \A v \in W : SatVarOf(v) # 0 /\ SatVarOf(v) \in DOMAIN clauses
                      /\ clauses[SatVarOf(v)] = ClauseOf(v)
      /\ \A u, v \in W : SatVarOf(u) = SatVarOf(v) => u = v
  BY ConeEncoded
<1>4. Computes(ON, W)
  <2>1. ASSUME NEW v \in W, IsAnd(v)
        PROVE  v \in ON <=> LitIn(ON, nodes[v].f0) /\ LitIn(ON, nodes[v].f1)
    <3>1. VarOf(nodes[v].f0) \in Vars /\ VarOf(nodes[v].f1) \in Vars /\ v \in Vars
      BY <1>2, <2>1, FaninBelow
    <3>2. ASSUME NEW l, VarOf(l) \in Vars PROVE (val[VarOf(l)] = (Phase(l) = 0)) <=> LitIn(ON, l)
      <4>1. val[VarOf(l)] \in BOOLEAN /\ (VarOf(l) \in ON <=> val[VarOf(l)])
        BY <1>1, <3>2
      <4>. QED BY <4>1 DEF LitIn
    <3>3. v \in ON <=> val[v]
      BY <3>1
    <3>. HIDE DEF ON
    <3>. QED BY <1>1, <2>1, <3>1, <3>2, <3>3
  <2>. HIDE DEF ON
  <2>. QED BY <2>1 DEF Computes
<1>5. \A v \in W : ~IsAnd(v) => (v \in ON <=> v \in inputs)
  BY <1>1, <1>2
<1>6. 0 \notin ON
  <2>1. 0 \notin inputs /\ 0 \in Vars /\ ~IsAnd(0)
    BY SimVars DEF Pis
  <2>. QED BY <1>1, <2>1
<1>7. \A v \in W : v # 0 /\ ~IsAnd(v) => (v \in ON <=> SatVarOf(v) \in model)
  BY <1>3, <1>5
<1>8. model \subseteq {x \in DOMAIN clauses : clauses[x].kind = "free"}
  <2>1. \A v \in W \intersect inputs : clauses[SatVarOf(v)] = Free
    BY <1>3 DEF ClauseOf, Pis
  <2>. QED BY <1>3, <2>1, ClauseKinds
<1>. HIDE DEF ON, W, model
<1>9. \A l : VarOf(l) \in W => (Holds(SatValues(model), SatLit(l)) <=> LitIn(ON, l))
  BY <1>2, <1>3, <1>4, <1>6, <1>7, SatFollows
<1>10. \A l : VarOf(l) \in W => (TrueUnder(inputs, l) <=> LitIn(ON, l))
  BY <1>2, <1>4, <1>5, ValuesFollow
<1>11. model \in Models(cand)
  BY <1>2, <1>8, <1>9, <1>10 DEF Models
<1>. QED BY <1>11

-----------------------------------------------------------------------------
(* Steps of the whole invariant.                                           *)

LEMMA Unknown == NoVerdict.kind = "none" /\ (verdict' = NoVerdict => VerdictRight')
BY DEF NoVerdict, VerdictRight

(* The value of a literal, with the graph as a parameter.                  *)
TrueIn(g, inputs, l) ==
  LET val[v \in DOMAIN g] ==
        IF ~(g[v] # Pi) THEN v \in inputs
        ELSE /\ val[VarOf(g[v].f0)] = (Phase(g[v].f0) = 0)
             /\ val[VarOf(g[v].f1)] = (Phase(g[v].f1) = 0)
  IN  val[VarOf(l)] = (Phase(l) = 0)

LEMMA ConeKept ==
  ASSUME UNCHANGED nodes, NEW c, cand' = c
  PROVE  Cone(cand)' = Cone(c) /\ Pis' = Pis /\ (Valid(cand)' <=> Valid(c))
<1>1. Vars' = Vars /\ \A v : IsAnd(v)' <=> IsAnd(v)
  BY DEF Vars, IsAnd
<1>2. Pis' = Pis
  BY <1>1 DEF Pis
<1>3. Cone(cand)' = Cone(c)
  BY <1>1 DEF Cone, Closed
<1>4. Valid(cand)' <=> Valid(c)
  <2>1. /\ \A inputs, l : TrueUnder(inputs, l) = TrueIn(nodes, inputs, l)
        /\ \A inputs, l : TrueUnder(inputs, l)' = TrueIn(nodes', inputs, l)
    BY DEF TrueUnder, TrueIn, Vars, IsAnd
  <2>2. \A inputs, l : TrueIn(nodes', inputs, l) = TrueIn(nodes, inputs, l)
    OBVIOUS
  <2>. QED BY <1>2, <2>1, <2>2 DEF Valid
<1>. QED BY <1>2, <1>3, <1>4

(* A node more is in no cone.                                              *)
LEMMA ConeAdded ==
  ASSUME GraphInv, SimInv, CandInv, NEW nd, AddNode(nd), UNCHANGED <<cand, simVars, pc>>,
         verdict' = NoVerdict
  PROVE  CandInv'
<1>. DEFINE C == Cone(cand)
<1>1. /\ Vars = 0 .. NumVars - 1 /\ Vars' = 0 .. NumVars /\ Vars \subseteq Vars'
      /\ \A v \in Vars : nodes'[v] = nodes[v]
  BY NodeAdded, SimVars
<1>2. C \subseteq Vars /\ Closed(C) /\ \A l \in cand : VarOf(l) \in C
  BY ConeHas, SimVars DEF CandInv
<1>3. PICK W : W = C
  OBVIOUS
<1>4. Closed(W)'
  BY <1>1, <1>2, <1>3 DEF Closed, IsAnd
<1>5. W \in SUBSET Vars' /\ \A l \in cand' : VarOf(l) \in W
  BY <1>1, <1>2, <1>3
<1>6. Cone(cand)' \subseteq W
  BY <1>4, <1>5 DEF Cone
<1>7. W \intersect Pis' \subseteq RealPis
  BY <1>1, <1>2, <1>3 DEF CandInv, Pis, IsAnd
<1>. QED BY <1>6, <1>7 DEF CandInv, simVars

LEMMA InitAll == Init => AllInv
<1>. SUFFICES ASSUME Init PROVE AllInv
  OBVIOUS
<1>1. ClauseInv
  BY DEF Init, ClauseInv
<1>2. CandInv
  <2>1. cand = {} /\ pc = "build"
    BY DEF Init
  <2>2. Cone(cand) = {}
    BY <2>1 DEF Cone, Closed
  <2>. QED BY <2>1, <2>2 DEF CandInv
<1>3. VerdictRight
  BY DEF Init, VerdictRight, NoVerdict
<1>. QED BY <1>1, <1>2, <1>3, InitInv, InitSim DEF AllInv

(* Steps that leave the graph, the words and the clauses alone.            *)
LEMMA SameGraph ==
  ASSUME AllInv, UNCHANGED <<aigVars, simVars, satVars, cand>>,
         pc' # "build" => verdict' = NoVerdict
  PROVE  IInv' /\ SimInv' /\ ClauseInv' /\ CandInv'
<1>1. nodes' = nodes /\ sim' = sim /\ simmed' = simmed /\ clauses' = clauses /\ cand' = cand
  BY DEF aigVars, simVars, satVars
<1>2. IInv'
  BY OtherInv DEF AllInv
<1>3. SimInv'
  BY <1>1 DEF AllInv, SimInv, SimFaithful, AndRow, LitRow, Vars, NumVars, IsAnd
<1>4. ClauseInv'
  BY <1>1 DEF AllInv, ClauseInv
<1>5. CandInv'
  <2>1. Cone(cand)' = Cone(cand) /\ Pis' = Pis
    BY <1>1, ConeKept
  <2>. QED BY <1>1, <2>1 DEF AllInv, CandInv
<1>. QED BY <1>2, <1>3, <1>4, <1>5

LEMMA BuildAll == AllInv /\ (NewPi \/ MkAnd) => AllInv'
<1>. SUFFICES ASSUME AllInv, NewPi \/ MkAnd PROVE AllInv'
  OBVIOUS
<1>1. /\ UNCHANGED <<simVars, satVars, pc, cand>> /\ verdict' = NoVerdict
      /\ \E nd : AddNode(nd)
  BY DEF NewPi, MkAnd
<1>2. IInv'
  BY NewPiInv, MkAndInv DEF AllInv
<1>3. SimInv'
  BY <1>1, AddedSim DEF AllInv, IInv
<1>4. ClauseInv'
  BY <1>1 DEF AllInv, ClauseInv, satVars
<1>5. CandInv'
  BY <1>1, ConeAdded DEF AllInv, IInv
<1>. QED BY <1>1, <1>2, <1>3, <1>4, <1>5, Unknown DEF AllInv

LEMMA CollectAll == AllInv /\ Collect => AllInv'
<1>. SUFFICES ASSUME AllInv, Collect PROVE AllInv'
  OBVIOUS
<1>1. /\ sim' = EvalFrom(Ensured) /\ simmed' = NumVars /\ UNCHANGED <<aigVars, satVars>>
      /\ nodes' = nodes /\ verdict' = NoVerdict
  BY DEF Collect, aigVars
<1>2. IInv' /\ SimInv'
  BY <1>1, OtherInv, CollectSim DEF AllInv, IInv
<1>3. ClauseInv'
  BY <1>1 DEF AllInv, ClauseInv, satVars
<1>4. CandInv'
  <2>1. PICK l \in Lits, m \in Lits :
          cand' = {l, m} /\ Cone({l, m}) \intersect Pis \subseteq RealPis
    BY DEF Collect
  <2>2. Cone(cand)' = Cone({l, m}) /\ Pis' = Pis
    BY <1>1, <2>1, ConeKept
  <2>3. ASSUME NEW k \in Lits PROVE k \in Nat /\ VarOf(k) \in 0 .. NumVars - 1
    <3>1. NumVars \in Nat /\ k \in Nat /\ k < 2 * NumVars
      BY DEF AllInv, IInv, GraphInv, Lits
    <3>. QED BY <3>1, VarBelow
  <2>4. \A k \in cand' : k \in Nat /\ VarOf(k) \in 0 .. simmed' - 1
    BY <1>1, <2>1, <2>3
  <2>. QED BY <1>1, <2>1, <2>2, <2>4 DEF CandInv
<1>. QED BY <1>1, <1>2, <1>3, <1>4, Unknown DEF AllInv

LEMMA ScreenAll == AllInv /\ (Again \/ Screen) => AllInv'
<1>. SUFFICES ASSUME AllInv, Again \/ Screen PROVE AllInv'
  OBVIOUS
<1>1. /\ UNCHANGED <<aigVars, simVars, satVars, cand>> /\ clauses' = clauses /\ nodes' = nodes
      /\ sim' = sim
  BY DEF Again, Screen, aigVars, satVars, simVars
<1>2. /\ pc' # "build" => verdict' = NoVerdict
      /\ \/ verdict' = NoVerdict
         \/ /\ verdict' = [kind |-> "killed", slot |-> 0]
            /\ \E s \in Slots : \A l \in cand : s \in LitRow(sim, l)
  BY DEF Again, Screen, AllInv, CandInv
<1>3. IInv' /\ SimInv' /\ ClauseInv' /\ CandInv'
  BY <1>1, <1>2, SameGraph
<1>4. VerdictRight'
  <2>1. CASE verdict' = NoVerdict
    BY <2>1, Unknown
  <2>2. CASE /\ verdict' = [kind |-> "killed", slot |-> 0]
             /\ \E s \in Slots : \A l \in cand : s \in LitRow(sim, l)
    <3>1. ~Valid(cand)
      BY <2>2, ScreenedRefuted
    <3>2. ~Valid(cand)'
      <4>1. PICK c : c = cand
        OBVIOUS
      <4>. QED BY <1>1, <3>1, <4>1, ConeKept
    <3>3. verdict'.kind = "killed"
      BY <2>2
    <3>. QED BY <3>2, <3>3 DEF VerdictRight
  <2>. QED BY <1>2, <2>1, <2>2
<1>. QED BY <1>3, <1>4 DEF AllInv

LEMMA EncodeAll == AllInv /\ Encode => AllInv'
<1>. SUFFICES ASSUME AllInv, Encode PROVE AllInv'
  OBVIOUS
<1>1. /\ UNCHANGED <<aigVars, simVars, pc, cand, verdict>> /\ nodes' = nodes /\ sim' = sim
      /\ simmed' = simmed /\ verdict' = NoVerdict
  BY DEF Encode, AllInv, CandInv, aigVars, simVars
<1>2. IInv' /\ ClauseInv'
  BY EncodeInv, EncodeClause DEF AllInv
<1>3. SimInv'
  BY <1>1 DEF AllInv, SimInv, SimFaithful, AndRow, LitRow, Vars, NumVars, IsAnd
<1>4. CandInv'
  <2>1. Cone(cand)' = Cone(cand) /\ Pis' = Pis
    BY <1>1, ConeKept
  <2>. QED BY <1>1, <2>1 DEF AllInv, CandInv
<1>. QED BY <1>1, <1>2, <1>3, <1>4, Unknown DEF AllInv

LEMMA RefuteAll == AllInv /\ Refute => AllInv'
<1>. SUFFICES ASSUME AllInv, Refute PROVE AllInv'
  OBVIOUS
<1>. DEFINE Ones(model) == {v \in RealPis : SatVarOf(v) # 0 /\ SatValues(model)[SatVarOf(v)]}
<1>0. PICK model \in Models(cand), slot \in CareSlots :
        sim' = Stored(slot, Ones(model)) /\ verdict' = [kind |-> "refuted", slot |-> slot]
  BY DEF Refute
<1>. HIDE DEF Ones
<1>1. PICK ones :
        /\ ones = {v \in RealPis : SatVarOf(v) # 0 /\ SatValues(model)[SatVarOf(v)]}
        /\ sim' = Stored(slot, ones) /\ verdict' = [kind |-> "refuted", slot |-> slot]
  BY <1>0 DEF Ones
<1>2. /\ UNCHANGED <<aigVars, satVars, cand>> /\ nodes' = nodes /\ clauses' = clauses
      /\ cand' = cand /\ simmed' = NumVars /\ pc' = "build" /\ Unencoded(cand) = {}
  BY DEF Refute, aigVars, satVars
<1>3. IInv' /\ ClauseInv'
  BY <1>2, OtherInv DEF AllInv, ClauseInv
<1>4. SimInv'
  <2>. DEFINE new == Stored(slot, ones)
  <2>1. /\ new \in [Vars -> SUBSET Slots] /\ new[0] = {}
        /\ \A v \in Vars : IsAnd(v) => new[v] = AndRow(new, v)
    BY StoredRows DEF AllInv, IInv
  <2>2. sim' = new
    BY <1>1
  <2>. HIDE DEF new
  <2>. QED BY <1>2, <2>1, <2>2, AllSimmed DEF AllInv, IInv
<1>5. CandInv'
  <2>1. Cone(cand)' = Cone(cand) /\ Pis' = Pis
    BY <1>2, ConeKept
  <2>2. \A l \in cand : l \in Nat /\ VarOf(l) \in 0 .. NumVars - 1
    <3>1. \A l \in cand : l \in Nat /\ VarOf(l) \in Vars
      BY SimVars DEF AllInv, IInv, CandInv
    <3>. QED BY <3>1, SimVars DEF AllInv, IInv
  <2>. QED BY <1>2, <2>1, <2>2 DEF AllInv, CandInv
<1>6. VerdictRight'
  <2>1. ~Valid(cand) /\ \A l \in cand : slot \in LitRow(Stored(slot, ones), l)
    BY <1>1, <1>2, ModelRefutes
  <2>2. ~Valid(cand)'
    <3>1. PICK c : c = cand
      OBVIOUS
    <3>. QED BY <1>2, <2>1, <3>1, ConeKept
  <2>3. \A l \in cand' : slot \in LitRow(sim', l)
    BY <1>1, <1>2, <2>1
  <2>4. verdict'.kind = "refuted" /\ verdict'.slot = slot
    BY <1>1
  <2>. QED BY <2>2, <2>3, <2>4 DEF VerdictRight, LitRow
<1>. QED BY <1>3, <1>4, <1>5, <1>6 DEF AllInv

LEMMA AnswerAll == AllInv /\ (Confirm \/ Undecided) => AllInv'
<1>. SUFFICES ASSUME AllInv, Confirm \/ Undecided PROVE AllInv'
  OBVIOUS
<1>1. /\ UNCHANGED <<aigVars, simVars, satVars, cand>> /\ clauses' = clauses /\ nodes' = nodes
      /\ pc' = "build" /\ Unencoded(cand) = {}
      /\ \/ verdict' = NoVerdict
         \/ verdict' = [kind |-> "valid", slot |-> 0] /\ Models(cand) = {}
  BY DEF Confirm, Undecided, aigVars, satVars
<1>2. IInv' /\ SimInv' /\ ClauseInv' /\ CandInv'
  BY <1>1, SameGraph
<1>3. VerdictRight'
  <2>1. CASE verdict' = NoVerdict
    BY <2>1, Unknown
  <2>2. CASE verdict' = [kind |-> "valid", slot |-> 0] /\ Models(cand) = {}
    <3>1. Valid(cand)
      BY <1>1, <2>2, NoModelValid
    <3>2. Valid(cand)'
      <4>1. PICK c : c = cand
        OBVIOUS
      <4>. QED BY <1>1, <3>1, <4>1, ConeKept
    <3>3. verdict'.kind = "valid"
      BY <2>2
    <3>. QED BY <3>2, <3>3 DEF VerdictRight
  <2>. QED BY <1>1, <2>1, <2>2
<1>. QED BY <1>2, <1>3 DEF AllInv

LEMMA NewRoundAll == AllInv /\ NewRound => AllInv'
<1>. SUFFICES ASSUME AllInv, NewRound PROVE AllInv'
  OBVIOUS
<1>1. /\ clauses' = [x \in {1} |-> False0] /\ cand' = {} /\ verdict' = NoVerdict
      /\ pc' = "build"
  BY DEF NewRound, EncodingDropped
<1>2. IInv' /\ SimInv'
  BY NewRoundInv, DroppedSim DEF AllInv, IInv
<1>3. ClauseInv'
  BY <1>1 DEF ClauseInv
<1>4. CandInv'
  <2>1. Cone(cand)' = {}
    BY <1>1 DEF Cone, Closed
  <2>. QED BY <1>1, <2>1 DEF CandInv
<1>. QED BY <1>1, <1>2, <1>3, <1>4, Unknown DEF AllInv

LEMMA IdleAll == AllInv /\ UNCHANGED vars => AllInv'
<1>. SUFFICES ASSUME AllInv, UNCHANGED vars PROVE AllInv'
  OBVIOUS
<1>1. /\ UNCHANGED <<aigVars, simVars, satVars, pc, cand, verdict>> /\ clauses' = clauses
      /\ nodes' = nodes /\ sim' = sim
  BY DEF vars, aigVars, satVars, simVars
<1>2. IInv' /\ SimInv' /\ ClauseInv' /\ CandInv'
  <2>1. pc' # "build" => verdict' = NoVerdict
    BY <1>1 DEF AllInv, CandInv
  <2>. QED BY <1>1, <2>1, SameGraph
<1>3. VerdictRight'
  <2>1. PICK c : c = cand
    OBVIOUS
  <2>2. Valid(cand)' <=> Valid(cand)
    BY <1>1, <2>1, ConeKept
  <2>3. \A l : LitRow(sim', l) = LitRow(sim, l)
    BY <1>1
  <2>. QED BY <1>1, <2>2, <2>3 DEF AllInv, VerdictRight, LitRow
<1>. QED BY <1>2, <1>3 DEF AllInv

LEMMA StepAll == AllInv /\ [Next]_vars => AllInv'
BY BuildAll, CollectAll, ScreenAll, EncodeAll, RefuteAll, AnswerAll, NewRoundAll, IdleAll
   DEF Next, Finished

THEOREM AllInvariance == Spec => []AllInv
BY InitAll, StepAll, PTL DEF Spec

-----------------------------------------------------------------------------
(* The theorems.                                                           *)

(* Aig::mkAnd and Aig::rollback keep the graph free of cycles and of       *)
(* duplicates.                                                             *)
THEOREM GraphCorrect == Spec => []GraphOK
<1>1. IInv => GraphOK BY DEF IInv, GraphInv
<1>. QED BY <1>1, Invariance, PTL

(* Aig::strash never leads to an index that was freed or given away.       *)
THEOREM StrashCorrect == Spec => []StrashFaithful
<1>1. IInv => StrashFaithful BY DEF IInv, StrashInv
<1>. QED BY <1>1, Invariance, PTL

(* SatAig::satVar and the clauses describe the graph as it is now.         *)
THEOREM EncodingCorrect == Spec => []EncodingFaithful
<1>1. IInv => EncodingFaithful BY DEF IInv, SatInv
<1>. QED BY <1>1, Invariance, PTL

(* The words Aig::simVals below simWatermark are what the graph computes,  *)
(* whatever was evaluated, injected and dropped in between.                *)
THEOREM WordsCorrect == Spec => []SimFaithful
<1>1. AllInv => SimFaithful BY DEF AllInv, SimInv
<1>. QED BY <1>1, AllInvariance, PTL

(* A candidate that simulation or the solver refutes is refuted by some    *)
(* input, and one found valid by none: the incremental encoding and the    *)
(* words that outlive a query never make a verdict wrong.                  *)
THEOREM VerdictsCorrect == Spec => []VerdictRight
<1>1. AllInv => VerdictRight BY DEF AllInv
<1>. QED BY <1>1, AllInvariance, PTL
=============================================================================
