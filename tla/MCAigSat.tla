------------------------------ MODULE MCAigSat ------------------------------
(*************************************************************************)
(* The constant and two inputs (1 and 2) below the rollback mark:        *)
(* everything else is scratch, dropped and built anew in every round.    *)
(*************************************************************************)
EXTENDS AigSat, TLC

MCBase == 0 :> Pi @@ 1 :> Pi @@ 2 :> Pi

(* Input 1 is 0 on every pattern, input 2 is 1 on the first.               *)
MCSeeds == {1 :> {} @@ 2 :> {0}}
=============================================================================
