---------------------------- MODULE MCSynthesis ----------------------------
(***************************************************************************)
(* Small problems of synthesis: x = a & b and t = x ^ b (nets 4 and 5) of  *)
(* the inputs a and b, with every pair of care sets; and a net t of the    *)
(* inputs a, b and c.                                                      *)
(***************************************************************************)
EXTENDS Synthesis, TLC

Bit(n, p) == (p \div 2^(n - 2)) % 2 = 1

Problem(pats, cur, T, t, ones, zeros) ==
  [c |-> [nets |-> DOMAIN cur, pats |-> pats], T |-> T, cur |-> cur, t |-> t,
   tfo |-> {t}, bad0 |-> ones, bad1 |-> zeros, sims |-> {{}, {0, 1, 3}}]

Two(T, ones, zeros) ==
  LET pats == 0..3
      cur == 2 :> {p \in pats : Bit(2, p)} @@ 3 :> {p \in pats : Bit(3, p)}
               @@ 4 :> {3} @@ 5 :> {2}
  IN  Problem(pats, cur, T, 5, ones, zeros)

Three(old, ones, zeros) ==
  LET pats == 0..7
  IN  Problem(pats, [n \in 2..5 |-> IF n = 5 THEN old
                                    ELSE {p \in pats : Bit(n, p)}],
              {}, 5, ones, zeros)

Parity == {1, 2, 4, 7}

(* Two patterns that no divisor tells apart once a is a target; of three   *)
(* inputs, a & b with care patterns that a alone nearly tells apart, the   *)
(* parity of a, b and c, which needs more ports than allowed, and the      *)
(* parity where the old value of t is its complement.                      *)
MCProblems ==
  {Two({}, ones, zeros) : ones, zeros \in SUBSET (0..3)}
    \union {Two({2, 4}, {0}, {1}), Three({7}, {3, 7}, 0..2 \union {4, 5, 6}),
            Three({0, 7}, Parity, 0..7 \ Parity),
            Three(0..7 \ Parity, Parity, 0..7 \ Parity)}

MCDisjoint == {p \in MCProblems : p.bad0 \intersect p.bad1 = {}}
=============================================================================
