------------------------------- MODULE MCSweep -------------------------------
(***************************************************************************)
(* Two inputs a and b, whose patterns are numbered 2 * b + a.              *)
(***************************************************************************)
EXTENDS Sweep, TLC

A == {1, 3}
B == {2, 3}

(* xor and xnor built apart, and a & b built twice; the last node, a & ~b  *)
(* once more, is made after the sweep.                                     *)
Xor ==
  [value |-> 0 :> {} @@ 1 :> A @@ 2 :> B @@ 3 :> {3} @@ 4 :> {0} @@ 5 :> {1, 2}
               @@ 6 :> {1} @@ 7 :> {2} @@ 8 :> {0, 3} @@ 9 :> {3} @@ 10 :> {1},
   pis |-> {1, 2}, swept |-> 9, last |-> 10]

(* a & b, (a & b) & ~a, which is constant, (a & b) & b, which is a & b,   *)
(* and so is that & a.                                                     *)
Redundant ==
  [value |-> 0 :> {} @@ 1 :> A @@ 2 :> B @@ 3 :> {3} @@ 4 :> {} @@ 5 :> {3} @@ 6 :> {3},
   pis |-> {1, 2}, swept |-> 6, last |-> 6]

(* a & b, a & ~b, and ~(a & b) & ~(a & ~b), the complement of input a: a   *)
(* class with both phases, in a graph whose rows need not collide.         *)
Folded ==
  [value |-> 0 :> {} @@ 1 :> A @@ 2 :> B @@ 3 :> {3} @@ 4 :> {1} @@ 5 :> {0, 2},
   pis |-> {1, 2}, swept |-> 5, last |-> 5]

MCGraphs == {Xor, Redundant, Folded}

(* The hash of a row: its number modulo 12, so that the rows {} and {2, 3}, *)
(* {1} and {1, 2, 3} collide.                                              *)
RowNumber(row) == (IF 0 \in row THEN 1 ELSE 0) + (IF 1 \in row THEN 2 ELSE 0)
                    + (IF 2 \in row THEN 4 ELSE 0) + (IF 3 \in row THEN 8 ELSE 0)
RowHash(row) == RowNumber(row) % 12
=============================================================================
