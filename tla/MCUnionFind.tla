----------------------------- MODULE MCUnionFind -----------------------------
(***************************************************************************)
(* Nodes that can be merged in many orders and phases: the input, three    *)
(* that equal it, two that are its complement, a second constant, and one  *)
(* node made later.                                                        *)
(***************************************************************************)
EXTENDS UnionFind, TLC

Mixed ==
  [value |-> 0 :> {} @@ 1 :> {1} @@ 2 :> {0} @@ 3 :> {1} @@ 4 :> {} @@ 5 :> {0}
               @@ 6 :> {1} @@ 7 :> {1},
   pis |-> {1}, swept |-> 6, last |-> 7]

MCGraphs == {Mixed}
=============================================================================
