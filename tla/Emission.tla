------------------------------ MODULE Emission ------------------------------
(***************************************************************************)
(* How patch netlists are emitted from a patch AIG (patch.hpp), and how    *)
(* runTrajectory (main.cpp) normalises their names.                        *)
(*                                                                         *)
(* WireBase + k is the name of the internal wire eco_wk.  A net of G1 may  *)
(* have such a name itself: a circuit c has another field here,            *)
(*   ecow   for each k such that eco_wk is a net, that net                 *)
(***************************************************************************)
EXTENDS AigTerm, Patch

CONSTANT WireBase   \* numbers from here on are no nets

EcoWire(c, k) == IF k \in DOMAIN c.ecow THEN c.ecow[k] ELSE WireBase + k

-----------------------------------------------------------------------------
(* Emission: aigToPatchDirect.  The state: litName, a name for each        *)
(* literal of C that has one, as the constants always have; the number of  *)
(* wires; the ports that are read; and the gates.                          *)
Emissions(C) ==
  [names : {names \in [C -> Int] : \A l \in C : l.node = Zero.node => names[l] # NoNet},
   wid : Nat, used : SUBSET Int,
   gates : Seq([type : GateTypes, out : Int, ins : Seq(Int)])]

ConeLits(targets) ==
  {Lit(x, ph) : x \in UNION {Cone(targets[i].lit) : i \in DOMAIN targets}, ph \in {0, 1}}

Named(st, l, n) == [st EXCEPT !.names[l] = n]

AddGateSame(c, st, type, ins, l) ==   \* mutant: all wires have one name
  Named([st EXCEPT !.gates = Append(@, Gate(type, EcoWire(c, 0), ins))], l, EcoWire(c, 0))
AddGate(c, st, type, ins, l) ==
  LET w == EcoWire(c, st.wid)
  IN  Named([st EXCEPT !.wid = @ + 1, !.gates = Append(@, Gate(type, w, ins))], l, w)

(* A name for literal l, once its positive phase has one.                  *)
WithInverter(c, st, l) ==
  IF l.ph = 0 THEN st ELSE AddGate(c, st, "not", <<st.names[Positive(l)]>>, l)

(* nameOf: the emission after literal l of C has got a name.  An AND that  *)
(* is needed in both phases, the positive one first, is emitted twice.     *)
NameOf(c, C, l, st) ==
  LET nameOf[m \in C] ==
        [s \in Emissions(C) |->
           IF s.names[m] # NoNet THEN s
           ELSE IF m.node.op = "port"
           THEN WithInverter(c, Named([s EXCEPT !.used = @ \union {m.node.port}],
                                  Positive(m), m.node.port), m)
           ELSE LET f0 == CHOOSE i \in m.node.ins : TRUE
                    f1 == CHOOSE i \in m.node.ins : i # f0
                    s0 == nameOf[f0][s]
                    s1 == nameOf[f1][s0]
                IN  WithInverter(c, AddGate(c, s1, "and", <<s0.names[f0], s1.names[f1]>>,
                                        Positive(m)), m)]
  IN  nameOf[l][st]

(* The patch whose outputs are computed by literals: targets is a sequence *)
(* of [out, lit].                                                          *)
AigToPatch(c, targets) ==
  LET C == ConeLits(targets)
      none == [names |-> [l \in C |-> IF l = Zero THEN 0 ELSE IF l = One THEN 1 ELSE NoNet],
               wid |-> 0, used |-> {}, gates |-> <<>>]
      done[k \in 0..Len(targets)] ==
        IF k = 0 THEN none
        ELSE LET st == NameOf(c, C, targets[k].lit, done[k - 1])
             IN  [st EXCEPT !.gates =
                    Append(@, Gate("buf", targets[k].out, <<st.names[targets[k].lit]>>))]
      last == done[Len(targets)]
  IN  [inputs |-> last.used, gates |-> last.gates,
       outputs |-> [k \in DOMAIN targets |-> targets[k].out]]

(* normalize: internal names become eco_w0, eco_w1, ... in the order in    *)
(* which they appear, gate by gate, the wire before its at most two inputs.*)
HasName(g, j, n) == IF j = 0 THEN g.out = n ELSE j \in DOMAIN g.ins /\ g.ins[j] = n

FirstAt(p, n) ==
  LET places == UNION {{3 * i + j : j \in {x \in 0..2 : HasName(p.gates[i], x, n)}} :
                         i \in DOMAIN p.gates}
  IN  CHOOSE k \in places : \A m \in places : k <= m

PatchPorts(p) == {0, 1} \union p.inputs \union Outs(p)
Internal(p) == (GateOuts(p) \union Read(p.gates)) \ PatchPorts(p)

NewName(c, p, n) ==
  IF n \in PatchPorts(p) THEN n
  ELSE EcoWire(c, Cardinality({m \in Internal(p) : FirstAt(p, m) < FirstAt(p, n)}))

Normalized(c, p) ==
  [p EXCEPT !.gates =
     [i \in DOMAIN p.gates |->
        Gate(p.gates[i].type, NewName(c, p, p.gates[i].out),
             [j \in DOMAIN p.gates[i].ins |-> NewName(c, p, p.gates[i].ins[j])])]]

(* The candidate that computes targets.                                    *)
CandidatePatch(c, targets) == Normalized(c, AigToPatch(c, targets))
=============================================================================
