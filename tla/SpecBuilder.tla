---------------------------- MODULE SpecBuilder ----------------------------
(***************************************************************************)
(* How runTrajectory expresses functions of R2 over nets of G1: the        *)
(* registry of matched nets, the targets of a patch, buildVar, the two     *)
(* baseline candidates, and the rest of a rectification that did not       *)
(* finish (the hybrid candidate).                                          *)
(*                                                                         *)
(* A literal of the shared AIG has a circuit c's primary inputs as ports.  *)
(* Three more fields of a circuit c are needed:                            *)
(*   r2      for every output its literal in the AIG shared with G1        *)
(*   free    the inputs R2 has and G1 has not, with their patterns         *)
(*   swept   the nodes of the shared AIG when it is swept: G1 and R2       *)
(* The sweep that found equal nodes is modelled by what it may come back   *)
(* with: every pair of equal or opposite nodes (merged), or, when all its  *)
(* queries are lost, none but the identical ones.                          *)
(***************************************************************************)
EXTENDS AigTerm

AllInputs(c) ==
  [n \in Inputs(c) \union DOMAIN c.free |->
     IF n \in Inputs(c) THEN c.pis[n] ELSE c.free[n]]

Value(c, l) == TermValue(Patterns(c), AllInputs(c), l)

(* R2 as it comes from buildCkt: over the same patterns, and the function  *)
(* of an output is that of its literal.                                    *)
HasR2(c) ==
  /\ \A n \in DOMAIN c.free : n \in Int /\ c.free[n] \subseteq Patterns(c)
  /\ \A o \in c.pos : /\ IsLiteral(c.r2[o])
                      /\ PortsOf(c.r2[o]) \subseteq DOMAIN AllInputs(c)
                      /\ Value(c, c.r2[o]) = c.spec[o]

NoLazy == [n \in {} |-> {}]

(* inSafe: the original driver of t reads no changed net.                  *)
InSafe(c, t, changed) == t \in Driven(c) /\ Ins(c, t) \intersect changed = {}

(* Under which name net n may be used: its own, unless it is an output of  *)
(* the patch or has changed; t_in for an output that kept its old driver's *)
(* value.                                                                  *)
UsableAnyOld(c, ctx, n) ==   \* mutant: t_in without looking at its driver
  IF n \notin ctx.outs \union ctx.changed THEN n
  ELSE IF n \in ctx.outs THEN -n ELSE NoNet
Usable(c, ctx, n) ==
  IF n \notin ctx.outs \union ctx.changed THEN n
  ELSE IF n \in ctx.outs /\ InSafe(c, n, ctx.changed) THEN -n ELSE NoNet

(* What buildVar knows: outs, the outputs of the patch; changed, the nets  *)
(* that have another value than the registry's; nets, the literals of the  *)
(* registry's nets; merged, see above; lazy, the nets that may be matched  *)
(* by their current value, with that value.                                *)
Same(c, merged, l, m) ==
  \/ l = m
  \/ merged /\ l.node \in c.swept /\ Value(c, l) = Value(c, m)

(* A usable net that carries node l, or its complement; else l may be a    *)
(* constant; else a net whose current value is that of l.  The net with    *)
(* the smallest number is taken.                                           *)
Least(N) == CHOOSE n \in N : \A m \in N : n <= m

Carrier(c, ctx, N, ph) ==
  IF N = {} THEN NoLit ELSE Flip(Port(Usable(c, ctx, Least(N))), ph)

LazyCarrier(lazy, N, x) ==
  IF N = {} THEN NoLit ELSE Flip(Port(Least(N)), IF lazy[Least(N)] = x THEN 0 ELSE 1)

Matched(c, ctx, l) ==
  LET nets(ph) == {n \in c.nets \intersect DOMAIN ctx.nets :
                     /\ Same(c, ctx.merged, ctx.nets[n], Flip(l, ph))
                     /\ Usable(c, ctx, n) # NoNet}
      const == {k \in {Zero, One} : Same(c, ctx.merged, l, k)}
      x == Value(c, l)
      lazy == {n \in DOMAIN ctx.lazy : ctx.lazy[n] \in {x, Patterns(c) \ x}}
  IN  Else(Carrier(c, ctx, nets(0), 0),
        Else(Carrier(c, ctx, nets(1), 1),
          IF const # {} THEN CHOOSE k \in const : TRUE
          ELSE LazyCarrier(ctx.lazy, lazy, x)))

(* The AND of a set of one or two literals.                                *)
AndOf(S) ==
  LET a == CHOOSE x \in S : TRUE
  IN  IF NoLit \in S THEN NoLit ELSE And(a, CHOOSE b \in S : S = {a, b})

(* buildVar: a literal of the patch AIG that has the value of l.  Nodes    *)
(* that match nothing are built from their operands; an input of R2 that   *)
(* G1 does not have raises an exception.                                   *)
Build(c, ctx, l) ==
  LET built[x \in Cone(l)] ==
        IF x = Zero.node THEN Zero
        ELSE Else(Matched(c, ctx, Lit(x, 0)),
                  IF x.op = "and" THEN AndOf({Flip(built[i.node], i.ph) : i \in x.ins})
                  ELSE NoLit)
  IN  Flip(built[l.node], l.ph)

(* The targets of a patch in order, each with the literal it is given; an  *)
(* empty sequence when one of them cannot be expressed.                    *)
Complete(ts) == IF \E i \in DOMAIN ts : ts[i].lit = NoLit THEN <<>> ELSE ts

InOrder(S) ==
  CHOOSE s \in [1..Cardinality(S) -> S] : \A i, j \in DOMAIN s : i < j => s[i] < s[j]

Expressed(c, ctx, spec) ==
  LET nets == InOrder(DOMAIN spec)
  IN  Complete([i \in DOMAIN nets |->
                  [out |-> nets[i], lit |-> Build(c, ctx, spec[nets[i]])]])

-----------------------------------------------------------------------------
(* Baseline: each failing output gets its R2 function, and the gates that  *)
(* read a failing output are given their old function.                     *)
BaselineSpec(c, F) ==
  [n \in F \union Preserved(c, F) |->
     IF n \in F THEN c.r2[n] ELSE CurLits(c, Unpatched)[n]]

Baseline(c, merged) ==
  LET F == FailingPos(c)
  IN  Expressed(c, [outs |-> F \union Preserved(c, F), changed |-> F,
                    nets |-> CurLits(c, Unpatched), merged |-> merged,
                    lazy |-> NoLazy], BaselineSpec(c, F))

(* Variant B: when all outputs are right although the nets that read a     *)
(* failing output change with it, these need no target; but everything     *)
(* downstream of a failing output has changed.                             *)
Replaced(c, F) == Settle(c, Unpatched, GivenSpec(c, Unpatched, F))

NoPreservation(c, F) == \A o \in c.pos : Replaced(c, F)[o] = c.spec[o]

ChangedOnlyF(c, F) == F   \* mutant: what is downstream counts as unchanged
ChangedB(c, F) == UNION {Tfo(c, Unpatched, o) : o \in F}

BaselineB(c, merged) ==
  LET F == FailingPos(c)
  IN  IF Preserved(c, F) # {} /\ NoPreservation(c, F)
      THEN Expressed(c, [outs |-> F, changed |-> ChangedB(c, F),
                         nets |-> CurLits(c, Unpatched), merged |-> merged,
                         lazy |-> NoLazy],
                   [n \in F |-> c.r2[n]])
      ELSE <<>>

-----------------------------------------------------------------------------
(* The fixes of the Rectifier as targets.                                  *)
FixTargets(fixes) ==
  [i \in DOMAIN fixes |->
     [out |-> fixes[i].target,
      lit |-> FnLit(fixes[i].fn.sup, fixes[i].fn.on,
                    [p \in fixes[i].fn.sup |-> Port(p)])]]

(* What the fixes have changed.                                            *)
BannedTargets(c, drv, fixed) == fixed   \* mutant: not what is downstream
Banned(c, drv, fixed) == UNION {Tfo(c, drv, t) : t \in fixed}

(* The gates that read an output of F, and are no targets themselves.      *)
Fixed(fixes) == {fixes[i].target : i \in DOMAIN fixes}
Readers(c, fixes, F) == Consumers(c, F) \ (Fixed(fixes) \union F)

(* The hybrid candidate: the fixes, then the outputs F that still fail -   *)
(* with the old functions of the gates that read them, unless noPresCheck  *)
(* thinks that they may change - over nets that no fix has changed and     *)
(* nets that still have their current value.                               *)
Hybrid(c, drv, cur, fixes, F, merged) ==
  LET fixed == Fixed(fixes)
      noPres == NoPresCheck(c, drv, cur, F)
      tfoRem == UNION {Tfo(c, drv, o) : o \in F}
      kept == IF noPres THEN {} ELSE Readers(c, fixes, F)
      outs == fixed \union F \union kept
      current == {n \in c.nets \ outs :
                    cur[n] # Unset /\ (noPres => n \notin tfoRem)}
      rest == Expressed(c, [outs |-> outs, merged |-> merged,
                            changed |-> Banned(c, drv, fixed) \union F
                                          \union (IF noPres THEN tfoRem ELSE {}),
                            nets |-> CurLits(c, Unpatched),
                            lazy |-> [n \in current |-> cur[n]]],
                        [n \in F \union kept |->
                           IF n \in F THEN c.r2[n] ELSE CurLits(c, drv)[n]])
  IN  IF F # {} /\ rest = <<>> THEN <<>> ELSE FixTargets(fixes) \o rest
=============================================================================
