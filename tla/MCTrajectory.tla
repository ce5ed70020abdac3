---------------------------- MODULE MCTrajectory ----------------------------
(***************************************************************************)
(* Small pairs of netlists for a trajectory.  Nets 2 and 3 are the inputs  *)
(* a and b; R2 has the numbers of G1 for its inputs and outputs.           *)
(***************************************************************************)
EXTENDS Trajectory, TLC

G(type, ins) == [type |-> type, ins |-> ins]

Bit(n, p) == (p \div 2^(n - 2)) % 2 = 1

(* k inputs, the gates of gate, and the gates of R2.                       *)
Netlist(k, gate) ==
  LET pats == 0..(2^k - 1)
  IN  [nets |-> 2..(k + 1) \union DOMAIN gate, pats |-> pats, gate |-> gate,
       pis |-> [n \in 2..(k + 1) |-> {p \in pats : Bit(n, p)}]]

Two(k, gate, pos, r2) ==
  LET c == Netlist(k, gate)
      lits == CurLits(c, Unpatched)
      gold == CurLits(Netlist(k, r2), Unpatched)
  IN [nets |-> c.nets, pats |-> c.pats, gate |-> gate, pos |-> pos, pis |-> c.pis,
      free |-> [n \in {} |-> {}], ecow |-> [n \in {} |-> 0],
      swept |-> UNION ({Cone(lits[n]) : n \in c.nets} \union {Cone(gold[n]) : n \in pos}),
      r2 |-> [o \in pos |-> gold[o]],
      spec |-> [o \in pos |-> TermValue(c.pats, c.pis, gold[o])]]

(* The nets 7 and 8: 8 is an output that fails, 7 a copy of 6, which reads *)
(* the failing output 5.                                                   *)
Dangling ==
  Two(3, 5 :> G("and", <<2, 3>>) @@ 6 :> G("xor", <<5, 3>>)
           @@ 7 :> G("buf", <<6>>) @@ 8 :> G("and", <<7, 4>>)
           @@ 9 :> G("xor", <<5, 2>>),
      {5, 8, 9},
      5 :> G("or", <<2, 3>>) @@ 8 :> G("not", <<2>>)
           @@ 10 :> G("and", <<2, 3>>) @@ 9 :> G("xor", <<10, 2>>))

(* a & b and a copy of a; R2 wants a | b and ~(a & b).                     *)
Stale ==
  Two(2, 4 :> G("and", <<2, 3>>) @@ 5 :> G("buf", <<2>>), {4, 5},
      4 :> G("or", <<2, 3>>) @@ 5 :> G("nand", <<2, 3>>))

(* x = a & b feeds t = x ^ b and the outputs p = x and q = ~x. *)
StaleFanout ==
  Two(2, 4 :> G("and", <<2, 3>>) @@ 5 :> G("xor", <<4, 3>>)
           @@ 6 :> G("buf", <<4>>) @@ 7 :> G("not", <<4>>), {5, 6, 7},
      8 :> G("and", <<2, 3>>) @@ 5 :> G("xnor", <<8, 3>>)
        @@ 6 :> G("or", <<2, 3>>) @@ 7 :> G("nor", <<2, 3>>))

(* x = a & b, y = ~x is an output and feeds the output z = y ^ a.          *)
Chain ==
  Two(2, 4 :> G("and", <<2, 3>>) @@ 5 :> G("not", <<4>>)
           @@ 6 :> G("xor", <<5, 2>>), {5, 6},
      5 :> G("buf", <<2>>) @@ 6 :> G("buf", <<3>>))

(* Nothing fails.                                                          *)
Equal ==
  Two(2, 4 :> G("nand", <<2, 3>>), {4},
      5 :> G("and", <<2, 3>>) @@ 4 :> G("not", <<5>>))

(* The output 5 reads the failing output 4, and is right as soon as 4 is.  *)
Follows ==
  Two(2, 4 :> G("and", <<2, 3>>) @@ 5 :> G("xor", <<4, 3>>), {4, 5},
      4 :> G("or", <<2, 3>>) @@ 5 :> G("xor", <<4, 3>>))

(* R2 wants ~5, but what drives 5 reads the failing output 4.              *)
Inverted ==
  Two(2, 4 :> G("and", <<2, 3>>) @@ 5 :> G("xor", <<4, 2>>), {4, 5},
      4 :> G("or", <<2, 3>>) @@ 6 :> G("and", <<2, 3>>)
        @@ 5 :> G("xnor", <<6, 2>>))

(* R2 wants for 4 what 5 computes from it; the output 6 does not mind.     *)
Behind ==
  Two(2, 4 :> G("and", <<2, 3>>) @@ 7 :> G("xor", <<2, 3>>)
           @@ 5 :> G("xor", <<4, 7>>) @@ 6 :> G("or", <<5, 4>>), {4, 6},
      4 :> G("or", <<2, 3>>) @@ 6 :> G("or", <<2, 3>>))

(* R2 wants for 6 what 5 is before 4 is repaired, and for 7 what 6 was.    *)
Rest ==
  Two(2, 4 :> G("and", <<2, 3>>) @@ 5 :> G("xor", <<4, 2>>)
           @@ 6 :> G("xor", <<2, 3>>) @@ 7 :> G("buf", <<6>>), {4, 6, 7},
      4 :> G("buf", <<3>>) @@ 8 :> G("not", <<3>>) @@ 6 :> G("and", <<2, 8>>)
        @@ 7 :> G("xor", <<2, 3>>))

(* R2 has an input that G1 has not.                                        *)
Inputless ==
  LET c == Two(3, 5 :> G("and", <<2, 3>>), {5}, 5 :> G("or", <<2, 4>>))
  IN  [c EXCEPT !.nets = @ \ {4}, !.pis = [n \in {2, 3} |-> c.pis[n]],
                !.free = 4 :> c.pis[4], !.swept = @ \union {Port(4).node}]

(* A net of G1 has the name eco_w0.                                        *)
WithWire(c, n) == [c EXCEPT !.ecow = 0 :> n]

MCSmall == {Equal, Follows, Inverted, Behind, Rest, Inputless, Chain, Stale,
            StaleFanout, WithWire(Chain, 4), WithWire(Follows, 4)}
MCDangling == {Dangling}
=============================================================================
