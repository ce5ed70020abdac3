----------------------------- MODULE MCBuildCkt -----------------------------
(***************************************************************************)
(* All netlists of three gates, NANDs and inverters, over input 2 and nets *)
(* 3, 4 and 5, whose gates drive these nets in some orders.                *)
(***************************************************************************)
EXTENDS BuildCkt

MCGates(out) ==
  {[out |-> out, type |-> "not", ins |-> <<n>>] : n \in 2..5}
    \union {[out |-> out, type |-> "nand", ins |-> <<m, n>>] : m \in {2, 3}, n \in {3, 4, 5}}

MCOuts == {<<3, 4, 5>>, <<5, 4, 3>>, <<4, 5, 3>>, <<3, 5, 3>>, <<4, 3, 2>>}

MCNetlists ==
  {[nets |-> 2..5, pats |-> {0, 1}, pis |-> [n \in {2} |-> {1}], gates |-> gates] :
     gates \in UNION {{<<a, b, c>> : a \in MCGates(outs[1]), b \in MCGates(outs[2]),
                                     c \in MCGates(outs[3])} : outs \in MCOuts}}
    \union {[nets |-> 2..5, pats |-> {0, 1}, pis |-> [n \in {2} |-> {1}], gates |-> <<a, b>>] :
              a \in MCGates(5), b \in MCGates(4)}
    \union {[nets |-> {2}, pats |-> {0, 1}, pis |-> [n \in {2} |-> {1}], gates |-> <<>>]}
=============================================================================
