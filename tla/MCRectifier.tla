---------------------------- MODULE MCRectifier ----------------------------
(***************************************************************************)
(* Small circuits for the Rectifier.  Nets 2 and 3 are the inputs a and b.  *)
(***************************************************************************)
EXTENDS Rectifier, TLC

G(type, ins) == [type |-> type, ins |-> ins]

Bit(n, p) == (p \div 2^(n - 2)) % 2 = 1

(* k inputs and the gates of gate; spec(p)[o] is output o on pattern p.    *)
Net(k, gate, pos, spec(_, _)) ==
  LET nets == 2..(k + 1) \union DOMAIN gate
      pats == 0..(2^k - 1)
  IN [nets |-> nets, pats |-> pats, gate |-> gate, pos |-> pos,
      pis |-> [n \in 2..(k + 1) |-> {p \in pats : Bit(n, p)}],
      spec |-> [o \in pos |-> {p \in pats : spec(o, p)}]]

(* x = a & b feeds t = x ^ b and the outputs p = x and q = ~x.  R2 wants   *)
(* ~t as it was, and a | b instead of a & b at p and q.                    *)
StaleFanout ==
  LET gate == 4 :> G("and", <<2, 3>>) @@ 5 :> G("xor", <<4, 3>>)
                @@ 6 :> G("buf", <<4>>) @@ 7 :> G("not", <<4>>)
      spec(o, p) ==
        CASE o = 5 -> Bit(2, p) \/ ~Bit(3, p)
          [] o = 6 -> Bit(2, p) \/ Bit(3, p)
          [] o = 7 -> ~(Bit(2, p) \/ Bit(3, p))
  IN  Net(2, gate, {5, 6, 7}, spec)

(* x = a & b, t = x ^ b, and the outputs are t, d = t | a and p = x.  R2   *)
(* wants t and d to be a | ~b, and p to be a | b, which is a | ~d: a fix   *)
(* of x that reads d closes a cycle through an old value of t.             *)
Loop ==
  LET gate == 4 :> G("and", <<2, 3>>) @@ 5 :> G("xor", <<4, 3>>)
                @@ 6 :> G("or", <<5, 2>>) @@ 7 :> G("buf", <<4>>)
      spec(o, p) == IF o = 7 THEN Bit(2, p) \/ Bit(3, p)
                    ELSE Bit(2, p) \/ ~Bit(3, p)
  IN  Net(2, gate, {5, 6, 7}, spec)

(* x = a & b, y = ~x is an output and feeds the output z = y ^ a.          *)
Chain ==
  LET gate == 4 :> G("and", <<2, 3>>) @@ 5 :> G("not", <<4>>)
                @@ 6 :> G("xor", <<5, 2>>)
      spec(o, p) == IF o = 5 THEN Bit(2, p) ELSE Bit(3, p)
  IN  Net(2, gate, {5, 6}, spec)

MCStale == {StaleFanout}
MCCircuits == {StaleFanout, Chain, Loop}
=============================================================================
