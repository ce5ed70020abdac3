------------------------------ MODULE Portfolio ------------------------------
(***************************************************************************)
(* The driver of eco/src/main.cpp: main() runs N solving trajectories, in  *)
(* threads or one after the other (ECO_SERIAL), and emits the cheapest     *)
(* verified patch.  Each trajectory is a run of runTrajectory(); what its  *)
(* solver computes is data here (a profile), what it does to the file      *)
(* system it shares with the other trajectories is modelled step by step:  *)
(* mkdtemp, the BLIF files, the abc process, parsing, cleanup.             *)
(***************************************************************************)
EXTENDS Integers, FiniteSets

CONSTANTS
  N,               \* number of trajectories (cfgs.size(), five in main())
  Modes,           \* subset of {"serial", "parallel"}: ECO_SERIAL or not
  Profiles,        \* what the solvers compute, see ProfileType
  KeepTmp          \* BOOLEAN: ECO_KEEP_TMP is set

Traj == 1..N
Family == 1..3     \* 1 baseline, 2 baseline without preservation, 3 rectified
Slot == 1..6       \* position in cands: 1..3 direct, 4..6 mapped by abc
Patch == [t : Traj, slot : Slot]
NoPatch == [t |-> 0, slot |-> 0]
EmptyPatch == [t |-> 0, slot |-> 1]
NoDir == -1
SharedTmp == 0     \* the directory "/tmp"; directory t > 0 is mkdtemp's for t
Dir == 0..N

(***************************************************************************)
(* A profile fixes the deterministic part of a run on one input, and the   *)
(* machine it runs on:                                                     *)
(*   equal  no primary output of G1 differs from R2                        *)
(*   err    trajectories that throw before they make a directory           *)
(*   late   trajectories that throw after it, in the rectifier             *)
(*   fams   the families a trajectory has candidates for                   *)
(*   abc    an abc binary was found                                        *)
(*   maps   the families for which abc, given its input, writes an output  *)
(*   cost, good   patchCost and the verdict of verify() on each patch      *)
(*   simp   patchCost after simplify()                                     *)
(*   mkdtemp   what mkdtemp may answer                                     *)
(***************************************************************************)
ProfileType ==
  [equal : BOOLEAN, err : SUBSET Traj, late : SUBSET Traj,
   fams : [Traj -> {F \in SUBSET Family : 1 \in F}],
   abc : BOOLEAN, maps : [Traj -> SUBSET Family],
   cost : [Patch -> Nat], good : [Patch -> BOOLEAN], simp : [Patch -> Nat],
   mkdtemp : (SUBSET BOOLEAN) \ {{}}]

ASSUME PortfolioAssumption ==
  /\ N \in Nat \ {0}
  /\ Modes \subseteq {"serial", "parallel"}
  /\ Profiles \subseteq ProfileType
  /\ KeepTmp \in BOOLEAN

VARIABLES
  prof,     \* the profile of this execution
  mode,     \* ECO_SERIAL or threads
  mainPc,   \* "launch", "join", "choose", "done"
  next,     \* the loop variable of main(): next trajectory to start
  tpc,      \* program counter of each trajectory
  fam,      \* family the trajectory is working on
  dir,      \* the trajectory's tmpDir
  held,     \* the BLIF the trajectory's abc process has read
  cands,    \* candidates collected so far, a set of <<slot, patch>>
  exists,   \* directories that exist
  genlib,   \* directories that hold cost.genlib
  blif,     \* blif[d][f]: the patch in patch.blif / patchB.blif / patch2.blif
  mapped,   \* mapped[d][f]: the patch in the mapped*.blif of that family
  results,  \* TrajResult of each trajectory
  out       \* NotYet, then the result writePatchV wrote, or Failed

fsVars == <<exists, genlib, blif, mapped>>
trajVars == <<tpc, fam, dir, held, cands, results>>
vars == <<prof, mode, mainPc, next, trajVars, fsVars, out>>

Failed == [ok |-> FALSE, cost |-> 0, patch |-> NoPatch]
NotYet == [ok |-> FALSE, cost |-> -1, patch |-> NoPatch]
NoFiles == [f \in Family |-> NoPatch]

-----------------------------------------------------------------------------
(* Selection inside a trajectory and among trajectories.                   *)

(* c comes before d when candidates are sorted by cost, cheapest first.    *)
Before(c, d) ==
  \/ prof.cost[c[2]] < prof.cost[d[2]]
  \/ prof.cost[c[2]] = prof.cost[d[2]] /\ c[1] <= d[1]

(* verify(): every output of the patched G1 equals R2's.                   *)
NoVerify(C) == C   \* mutant: trusts the construction of the candidates
Verified(C) == {c \in C : prof.good[c[2]]}

(* The first candidate, cheapest first, that verify() accepts; simplify()  *)
(* then shrinks it.  No such candidate: the trajectory throws.             *)
Outcome(C) ==
  LET ok == Verified(C)
      first == {c \in ok : \A d \in ok : Before(c, d)}
      w == CHOOSE c \in first : TRUE
  IN  IF first = {} THEN Failed
      ELSE [ok |-> TRUE, cost |-> prof.simp[w[2]], patch |-> w[2]]

(* The loop at the end of main(): only a strictly cheaper result replaces  *)
(* the best one so far, so that i stays in front of j when ...             *)
StaysAheadLast(R, i, j) ==   \* mutant: <= for <, the last of the cheapest
  \/ R[i].cost < R[j].cost
  \/ R[i].cost = R[j].cost /\ j <= i
StaysAhead(R, i, j) ==
  \/ R[i].cost < R[j].cost
  \/ R[i].cost = R[j].cost /\ i <= j

Best(R) ==
  LET ok == {i \in Traj : R[i].ok}
      first == {i \in ok : \A j \in ok : StaysAhead(R, i, j)}
  IN  IF first = {} THEN Failed ELSE R[CHOOSE i \in first : TRUE]

-----------------------------------------------------------------------------
Init ==
  /\ prof \in Profiles
  /\ mode \in Modes
  /\ mainPc = "launch" /\ next = 1
  /\ tpc = [t \in Traj |-> "idle"]
  /\ fam = [t \in Traj |-> 1]
  /\ dir = [t \in Traj |-> NoDir]
  /\ held = [t \in Traj |-> NoPatch]
  /\ cands = [t \in Traj |-> {}]
  /\ exists = {SharedTmp}
  /\ genlib = {}
  /\ blif = [d \in Dir |-> NoFiles]
  /\ mapped = [d \in Dir |-> NoFiles]
  /\ results = [t \in Traj |-> Failed]
  /\ out = NotYet

Goto(t, from, to) == tpc[t] = from /\ tpc' = [tpc EXCEPT ![t] = to]

(* Netlists parsed, sweep, failing outputs and specifications: either all  *)
(* outputs already agree, or an exception ends the trajectory, or it goes  *)
(* on to make its directory.                                               *)
Solve(t) ==
  /\ \/ /\ t \in prof.err
        /\ Goto(t, "start", "finished")
        /\ results' = results
     \/ /\ t \notin prof.err /\ prof.equal
        /\ Goto(t, "start", "finished")
        /\ results' = [results EXCEPT ![t] =
                         [ok |-> TRUE, cost |-> 0, patch |-> EmptyPatch]]
     \/ /\ t \notin prof.err /\ ~prof.equal
        /\ Goto(t, "start", "mktemp")
        /\ results' = results
  /\ UNCHANGED <<prof, mode, mainPc, next, fam, dir, held, cands, fsVars, out>>

(* tmpDir: the directory mkdtemp made, or "/tmp" when it failed.           *)
TmpDirFixed(t, made) == IF made THEN 1 ELSE SharedTmp \* mutant: no mkdtemp
TmpDirOf(t, made) == IF made THEN t ELSE SharedTmp

Direct(t) == {<<f, [t |-> t, slot |-> f]>> : f \in prof.fams[t]}

(* mkdtemp (which needs "/tmp"), then the rectifier, which may throw; the  *)
(* direct candidates are pushed, and without abc they are all there is.    *)
MakeTemp(t) ==
  /\ Goto(t, "mktemp", IF t \in prof.late THEN "finished"
                       ELSE IF prof.abc THEN "genlib" ELSE "select")
  /\ \E made \in IF SharedTmp \in exists THEN prof.mkdtemp ELSE {FALSE} :
       /\ dir' = [dir EXCEPT ![t] = TmpDirOf(t, made)]
       /\ exists' = IF made THEN exists \union {TmpDirOf(t, made)} ELSE exists
  /\ cands' = [cands EXCEPT ![t] = Direct(t)]
  /\ UNCHANGED <<prof, mode, mainPc, next, fam, held, genlib, blif, mapped,
                 results, out>>

(* cost.genlib; an ofstream into a missing directory fails silently.       *)
WriteGenlib(t) ==
  /\ Goto(t, "genlib", "blif")
  /\ genlib' = IF dir[t] \in exists THEN genlib \union {dir[t]} ELSE genlib
  /\ UNCHANGED <<prof, mode, mainPc, next, fam, dir, held, cands, exists,
                 blif, mapped, results, out>>

(* mkdir -p for the second and third family, then aigToBlif.               *)
WriteBlif(t) ==
  LET d == dir[t]
      f == fam[t]
      made == IF f > 1 THEN exists \union {d} ELSE exists
  IN  /\ f \in prof.fams[t]
      /\ Goto(t, "blif", "abc")
      /\ exists' = made
      /\ blif' = IF d \in made
                 THEN [blif EXCEPT ![d][f] = [t |-> t, slot |-> f]] ELSE blif
      /\ UNCHANGED <<prof, mode, mainPc, next, fam, dir, held, cands, genlib,
                     mapped, results, out>>

(* The families are tried in order, up to the third.                       *)
SameFamily(f) == f   \* mutant: no progress
NextFamily(f) == IF f = 3 THEN 3 ELSE f + 1

(* The family's candidate list is empty: it is skipped.                    *)
SkipFamily(t) ==
  /\ fam[t] \notin prof.fams[t]
  /\ Goto(t, "blif", IF fam[t] = 3 THEN "select" ELSE "blif")
  /\ fam' = [fam EXCEPT ![t] = NextFamily(@)]
  /\ UNCHANGED <<prof, mode, mainPc, next, dir, held, cands, fsVars, results,
                 out>>

(* The abc process reads the library and the BLIF; if one is missing it    *)
(* writes nothing, and its exit code is not looked at.                     *)
AbcRead(t) ==
  /\ Goto(t, "abc", "abcwrite")
  /\ held' = [held EXCEPT ![t] =
                IF dir[t] \in genlib THEN blif[dir[t]][fam[t]] ELSE NoPatch]
  /\ UNCHANGED <<prof, mode, mainPc, next, fam, dir, cands, fsVars, results,
                 out>>

MappedForm(p) == [t |-> p.t, slot |-> p.slot + 3]

AbcWrite(t) ==
  /\ Goto(t, "abcwrite", "parse")
  /\ mapped' = IF /\ held[t] # NoPatch /\ dir[t] \in exists
                  /\ fam[t] \in prof.maps[held[t].t]
               THEN [mapped EXCEPT ![dir[t]][fam[t]] =
                       MappedForm(held[t])]
               ELSE mapped
  /\ held' = [held EXCEPT ![t] = NoPatch]
  /\ UNCHANGED <<prof, mode, mainPc, next, fam, dir, cands, exists, genlib,
                 blif, results, out>>

(* blifToPatch on whatever output is there; a missing file is skipped.     *)
Parse(t) ==
  LET p == mapped[dir[t]][fam[t]] IN
  /\ Goto(t, "parse", IF fam[t] = 3 THEN "select" ELSE "blif")
  /\ fam' = [fam EXCEPT ![t] = NextFamily(@)]
  /\ cands' = [cands EXCEPT ![t] =
                 IF p # NoPatch THEN @ \union {<<fam[t] + 3, p>>} ELSE @]
  /\ UNCHANGED <<prof, mode, mainPc, next, dir, held, fsVars, results, out>>

(* Verify cheapest-first, simplify the winner.  With no verified candidate *)
(* an exception ends the trajectory and the directory stays.               *)
Select(t) ==
  LET r == Outcome(cands[t]) IN
  /\ Goto(t, "select", IF r.ok THEN "cleanup" ELSE "finished")
  /\ results' = [results EXCEPT ![t] = r]
  /\ UNCHANGED <<prof, mode, mainPc, next, fam, dir, held, cands, fsVars, out>>

(* rm -rf tmpDir unless ECO_KEEP_TMP.                                      *)
Cleanup(t) ==
  LET gone == IF KeepTmp THEN {} ELSE {dir[t]} \union
                (IF dir[t] = SharedTmp THEN Dir ELSE {}) IN
  /\ Goto(t, "cleanup", "finished")
  /\ exists' = exists \ gone
  /\ genlib' = genlib \ gone
  /\ blif' = [d \in Dir |-> IF d \in gone THEN NoFiles ELSE blif[d]]
  /\ mapped' = [d \in Dir |-> IF d \in gone THEN NoFiles ELSE mapped[d]]
  /\ UNCHANGED <<prof, mode, mainPc, next, fam, dir, held, cands, results, out>>

Trajectory(t) ==
  \/ Solve(t) \/ MakeTemp(t) \/ WriteGenlib(t) \/ WriteBlif(t)
  \/ SkipFamily(t) \/ AbcRead(t) \/ AbcWrite(t) \/ Parse(t)
  \/ Select(t) \/ Cleanup(t)

-----------------------------------------------------------------------------
(* main().                                                                 *)

LastStartedLate == next > N   \* mutant: i <= cfgs.size ()
LastStarted == next = N

(* Threads: start them all, then join.                                     *)
Spawn ==
  /\ mainPc = "launch" /\ mode = "parallel"
  /\ tpc' = [tpc EXCEPT ![next] = "start"]
  /\ next' = next + 1
  /\ mainPc' = IF LastStarted THEN "join" ELSE "launch"
  /\ UNCHANGED <<prof, mode, fam, dir, held, cands, fsVars, results, out>>

Join ==
  /\ mainPc = "join" /\ mode = "parallel"
  /\ \A t \in Traj : tpc[t] = "finished"
  /\ mainPc' = "choose"
  /\ UNCHANGED <<prof, mode, next, trajVars, fsVars, out>>

(* ECO_SERIAL: call runTrajectory, ...                                     *)
Call ==
  /\ mainPc = "launch" /\ mode = "serial"
  /\ tpc' = [tpc EXCEPT ![next] = "start"]
  /\ mainPc' = "join"
  /\ UNCHANGED <<prof, mode, next, fam, dir, held, cands, fsVars, results, out>>

(* ... and stop when the result costs at most 2.                           *)
Return ==
  /\ mainPc = "join" /\ mode = "serial"
  /\ tpc[next] = "finished"
  /\ IF (results[next].ok /\ results[next].cost <= 2) \/ LastStarted
     THEN mainPc' = "choose" /\ next' = next
     ELSE mainPc' = "launch" /\ next' = next + 1
  /\ UNCHANGED <<prof, mode, trajVars, fsVars, out>>

(* The best result is written; without one main() returns 1.               *)
Emit ==
  /\ mainPc = "choose"
  /\ mainPc' = "done"
  /\ out' = Best(results)
  /\ UNCHANGED <<prof, mode, next, trajVars, fsVars>>

Main == Spawn \/ Join \/ Call \/ Return \/ Emit

(* The process has ended.                                                  *)
Terminated == mainPc = "done" /\ UNCHANGED vars

Next == Main \/ (\E t \in Traj : Trajectory(t)) \/ Terminated

Spec == Init /\ [][Next]_vars

(* main() and every thread it started keep running: nothing blocks except  *)
(* thread::join, and system() returns when abc does.                       *)
Fairness == WF_vars(Main) /\ \A t \in Traj : WF_vars(Trajectory(t))
FairSpec == Spec /\ Fairness

-----------------------------------------------------------------------------
(* Properties.                                                             *)

ResultType == [ok : BOOLEAN, cost : Nat,
               patch : Patch \union {NoPatch, EmptyPatch}]

(* Every variable stays within its type; next passes N only when the loops *)
(* of main() are over.                                                     *)
TypeOK ==
  /\ prof \in Profiles /\ mode \in Modes
  /\ mainPc \in {"launch", "join", "choose", "done"}
  /\ next \in 1..(N + 1)
  /\ (mainPc = "launch" \/ mode = "serial") => next \in Traj
  /\ tpc \in [Traj -> {"idle", "start", "mktemp", "genlib", "blif", "abc",
                       "abcwrite", "parse", "select", "cleanup", "finished"}]
  /\ fam \in [Traj -> Family]
  /\ dir \in [Traj -> Dir \union {NoDir}]
  /\ held \in [Traj -> Patch \union {NoPatch}]
  /\ cands \in [Traj -> SUBSET (Slot \X Patch)]
  /\ exists \subseteq Dir /\ genlib \subseteq Dir
  /\ blif \in [Dir -> [Family -> Patch \union {NoPatch}]]
  /\ mapped \in [Dir -> [Family -> Patch \union {NoPatch}]]
  /\ results \in [Traj -> ResultType]
  /\ out \in ResultType \union {NotYet}

Sound(r) ==
  r.ok => \/ prof.equal /\ r.patch = EmptyPatch
          \/ r.patch \in Patch /\ prof.good[r.patch]

(* main.cpp:1016: a patch is written only if verify() accepted that very   *)
(* patch, or nothing had to be patched - whatever files the trajectories   *)
(* overwrote, removed or took from each other on the way.                  *)
EmitSound == Sound(out) /\ \A t \in Traj : Sound(results[t])

(* What trajectory t answers when it has the machine for itself.           *)
Mapped(t) ==
  {<<f + 3, [t |-> t, slot |-> f + 3]>> : f \in prof.fams[t] \cap prof.maps[t]}

Alone(t) ==
  IF t \in prof.err THEN Failed
  ELSE IF prof.equal
       THEN [ok |-> TRUE, cost |-> 0, patch |-> EmptyPatch]
  ELSE IF t \in prof.late THEN Failed
  ELSE Outcome(Direct(t) \union IF prof.abc THEN Mapped(t) ELSE {})

(* Every trajectory gets a directory of its own.                           *)
Private == prof.mkdtemp = {TRUE}

(* main.cpp:1361: "trajectories are fully independent": one that finishes  *)
(* answers what it would answer with the machine for itself, in every      *)
(* interleaving of the threads and of their abc processes, provided that   *)
(* mkdtemp never fails.                                                    *)
Independent ==
  Private => \A t \in Traj : tpc[t] = "finished" => results[t] = Alone(t)

(* The driver implements BestPatch: one delivery, of the best answer.  It  *)
(* promises nothing when mkdtemp may fail.                                 *)
Promise == INSTANCE BestPatch WITH
  answers <- [t \in Traj |-> Alone(t)], Enough <- 2, None <- NotYet,
  out <- IF Private THEN out ELSE NotYet

ImplementsBestPatch == Promise!Spec

(* Every run ends, with a patch or with an error: no thread is waited for  *)
(* for ever, whichever trajectories fail.                                  *)
Terminates == <>(mainPc = "done")

(* main.cpp:1361: "Selection below is order-independent, so the output is  *)
(* bit-identical to the serial run": whatever the mode, the best of all N  *)
(* trajectories is delivered, provided that mkdtemp never fails.           *)
SerialMatchesParallel ==
  Private /\ mainPc = "done" => out = Best([t \in Traj |-> Alone(t)])
=============================================================================
