---------------------------- MODULE MCPortfolio ----------------------------
(***************************************************************************)
(* A handful of inputs, for trajectories up to the last one.  The profiles *)
(* are the inputs the driver can tell apart: which candidates exist, which *)
(* of them verify, and how their costs compare.                            *)
(***************************************************************************)
EXTENDS Portfolio

P(t, s) == [t |-> t, slot |-> s]

(* A typical input: every family, abc finds cheaper forms, all is well.    *)
Plain ==
  [equal |-> FALSE, err |-> {}, late |-> {},
   fams |-> [t \in Traj |-> {1, 2}], abc |-> TRUE,
   maps |-> [t \in Traj |-> Family],
   cost |-> [p \in Patch |-> 10 + p.t - p.slot],
   good |-> [p \in Patch |-> TRUE],
   simp |-> [p \in Patch |-> 8 + p.t - p.slot],
   mkdtemp |-> {TRUE}]

(* All trajectories cost the same, and every candidate of one does.        *)
Ties ==
  [Plain EXCEPT !.cost = [p \in Patch |-> 7], !.simp = [p \in Patch |-> 5]]

(* The mapped candidates are cheapest and wrong; the last trajectory has   *)
(* no right candidate at all.                                              *)
Wrong(last) ==
  [Plain EXCEPT !.good = [p \in Patch |-> p.slot < 4 /\ p.t < last]]

(* abc writes nothing for the second family of the first trajectory; the   *)
(* last one throws in the rectifier.                                       *)
AbcFails(last) ==
  [Plain EXCEPT !.maps = [t \in Traj |-> IF t = 1 THEN {1, 3} ELSE Family],
                !.late = {last}]

(* The first trajectory reaches cost 2, the last one 1.                    *)
Cheap(last) ==
  [Plain EXCEPT !.simp = [p \in Patch |-> IF p.t = last THEN 1 ELSE 2]]

Equal == [Plain EXCEPT !.equal = TRUE]
NoAbc == [Plain EXCEPT !.abc = FALSE, !.fams = [t \in Traj |-> {1, 3}]]
Broken == [Plain EXCEPT !.err = Traj]
OneBroken == [Plain EXCEPT !.err = {1}, !.fams = [t \in Traj |-> {1, 3}]]

Inputs(last) ==
  {Plain, Ties, Wrong(last), AbcFails(last), Cheap(last), Equal, NoAbc, Broken,
   OneBroken}

(* mkdtemp may fail; the last trajectory throws early, so that the others  *)
(* share "/tmp".                                                           *)
MCShared ==
  {[p EXCEPT !.mkdtemp = BOOLEAN, !.err = @ \union {N}] : p \in Inputs(N - 1)}

MCPrivate == Inputs(N)
MCProfiles == MCPrivate \union MCShared
=============================================================================
