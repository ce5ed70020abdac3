----------------------------- MODULE SynthFill -----------------------------
(***************************************************************************)
(* The last part of synthesize in rectify.hpp: how a truth table with      *)
(* don't-cares becomes an AIG.  Four are built - don't-cares 0 or 1 by     *)
(* Shannon expansion, and the ON set or the OFF set covered by cubes - and *)
(* the first of the smallest is taken.                                     *)
(*                                                                         *)
(* A table is given by the cells (sets of ports that are 1) where it is 1, *)
(* and where it is 0.  The ports are in the order s[1], s[2], ..., the     *)
(* last one being the most significant bit of a cell's number.             *)
(***************************************************************************)
EXTENDS AigTerm

(* The orders the ports may be in.                                         *)
PortSet(s) == {s[i] : i \in DOMAIN s}
Orders(sup) == {s \in [1..Cardinality(sup) -> sup] : PortSet(s) = sup}

(* coneSize: the nodes of a literal, ports included.                       *)
ConeSize(l) == Cardinality({x \in Cone(l) : x.op # "const"})

(* shannon: the most significant port is split first; a part that is       *)
(* constant is a constant.  split[k][high] is the part where the ports     *)
(* high are 1 and the others behind s[k] are 0.                            *)
Part(s, k, high) == {high \union low : low \in SUBSET {s[i] : i \in 1..k}}

ShannonSwapped(s, on) ==   \* mutant: the halves the wrong way round
  LET split[k \in 0..Len(s)] ==
        [high \in SUBSET PortSet(s) |->
           IF Part(s, k, high) \intersect on = {} THEN Zero
           ELSE IF Part(s, k, high) \subseteq on THEN One
           ELSE Mux(Port(s[k]), split[k - 1][high], split[k - 1][high \union {s[k]}])]
  IN  split[Len(s)][{}]
Shannon(s, on) ==
  LET split[k \in 0..Len(s)] ==
        [high \in SUBSET PortSet(s) |->
           IF Part(s, k, high) \intersect on = {} THEN Zero
           ELSE IF Part(s, k, high) \subseteq on THEN One
           ELSE Mux(Port(s[k]), split[k - 1][high \union {s[k]}], split[k - 1][high])]
  IN  split[Len(s)][{}]

(* The cells of the cube around m in which the ports free are free.        *)
CubeCells(m, free) == {(m \ free) \union x : x \in SUBSET free}

(* Ports are freed one by one, as long as no cell of avoid comes in.       *)
FreeToo(m, avoid, free, p) ==
  IF CubeCells(m, free \union {p}) \intersect avoid = {} THEN free \union {p} ELSE free
Freed(s, m, avoid) ==
  LET free[k \in 0..Len(s)] ==
        IF k = 0 THEN {} ELSE FreeToo(m, avoid, free[k - 1], s[k])
  IN  free[Len(s)]

(* The AND of the ports that are not free, as they are in m.               *)
WithPort(m, free, l, p) ==
  IF p \in free THEN l ELSE And(l, Flip(Port(p), IF p \in m THEN 0 ELSE 1))
Cube(s, m, free) ==
  LET cube[k \in 0..Len(s)] ==
        IF k = 0 THEN One ELSE WithPort(m, free, cube[k - 1], s[k])
  IN  cube[Len(s)]

(* The cells in the order of their numbers.                                *)
Doubled(cells, p) == cells \o [i \in DOMAIN cells |-> cells[i] \union {p}]
CellList(s) ==
  LET cells[k \in 0..Len(s)] ==
        IF k = 0 THEN <<{}>> ELSE Doubled(cells[k - 1], s[k])
  IN  cells[Len(s)]

(* sopBuild: cubes for the cells on, in their order, each covering what it *)
(* can; the cells avoid stay out.                                          *)
WithCube(s, on, avoid, st, m) ==
  IF m \notin on \ st.covered THEN st
  ELSE LET free == Freed(s, m, avoid)
       IN  [covered |-> st.covered \union CubeCells(m, free),
            lit |-> Or(st.lit, Cube(s, m, free))]

SopBuild(s, on, avoid) ==
  LET cells == CellList(s)
      sop[i \in 0..Len(cells)] ==
        IF i = 0 THEN [covered |-> {}, lit |-> Zero]
        ELSE WithCube(s, on, avoid, sop[i - 1], cells[i])
  IN  sop[Len(cells)].lit

Forms(s, one, zero) ==
  <<Shannon(s, one), Shannon(s, (SUBSET PortSet(s)) \ zero),
    SopBuild(s, one, zero), Not(SopBuild(s, zero, one))>>

Cheapest(ls) ==
  ls[CHOOSE i \in DOMAIN ls : \A j \in DOMAIN ls :
       /\ ConeSize(ls[i]) <= ConeSize(ls[j])
       /\ j < i => ConeSize(ls[i]) < ConeSize(ls[j])]

(* The patch function of a literal: its ports, and the sets of ports that  *)
(* make it 1.                                                              *)
FnOf(l) ==
  LET sup == PortsOf(l)
  IN  [sup |-> sup,
       on |-> TermValue(SUBSET sup, [p \in sup |-> {x \in SUBSET sup : p \in x}], l)]

(* What may come out for the ports sup, in whatever order they were        *)
(* chosen.                                                                 *)
Filled(sup, one, zero) == {FnOf(Cheapest(Forms(s, one, zero))) : s \in Orders(sup)}
=============================================================================
