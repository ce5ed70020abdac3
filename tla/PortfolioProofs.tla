--------------------------- MODULE PortfolioProofs ---------------------------
(***************************************************************************)
(* Theorems about Portfolio, for any number of trajectories and any        *)
(* profiles: types, and that only verified patches are written.            *)
(***************************************************************************)
EXTENDS Portfolio, TLAPS

(* The trajectory has a directory: from mkdtemp on.                        *)
HasDir ==
  {"genlib", "blif", "abc", "abcwrite", "parse", "select", "cleanup"}

(* What TypeOK needs to be inductive: BLIF files hold direct candidates,   *)
(* so that their mapped forms are slots 4 to 6, and a trajectory past      *)
(* mkdtemp has a directory.                                                *)
FilesTyped ==
  /\ \A d \in Dir, f \in Family :
       blif[d][f] = NoPatch \/ blif[d][f].slot \in Family
  /\ \A t \in Traj : held[t] = NoPatch \/ held[t].slot \in Family
  /\ \A t \in Traj : tpc[t] \in HasDir => dir[t] \in Dir

TypeInv == TypeOK /\ FilesTyped

-----------------------------------------------------------------------------
(* The result of selecting among candidates.                               *)
LEMMA OutcomeType ==
  ASSUME prof \in ProfileType, NEW C \in SUBSET (Slot \X Patch)
  PROVE  /\ Outcome(C) \in ResultType
         /\ Sound(Outcome(C))
<1> DEFINE ok == Verified(C)
           first == {c \in ok : \A d \in ok : Before(c, d)}
           w == CHOOSE c \in first : TRUE
<1>1. CASE first = {}
  <2>1. Outcome(C) = Failed
    BY <1>1 DEF Outcome
  <2> QED
    BY <2>1 DEF Failed, ResultType, Sound
<1>2. CASE first # {}
  <2>1. w \in first
    BY <1>2
  <2>2. w \in Slot \X Patch /\ prof.good[w[2]]
    BY <2>1 DEF Verified
  <2>3. w[2] \in Patch /\ prof.simp[w[2]] \in Nat
    BY <2>2 DEF ProfileType
  <2>4. Outcome(C) = [ok |-> TRUE, cost |-> prof.simp[w[2]], patch |-> w[2]]
    BY <1>2 DEF Outcome
  <2> QED
    BY <2>2, <2>3, <2>4 DEF ResultType, Sound
<1> QED
  BY <1>1, <1>2

(* The result main() selects is one of those it selects from, or Failed.   *)
LEMMA BestType ==
  ASSUME NEW R
  PROVE  Best(R) = Failed \/ \E i \in Traj : Best(R) = R[i]
<1> DEFINE ok == {i \in Traj : R[i].ok}
           first == {i \in ok : \A j \in ok : StaysAhead(R, i, j)}
           w == CHOOSE i \in first : TRUE
<1>1. CASE first = {}
  BY <1>1 DEF Best
<1>2. CASE first # {}
  <2>1. w \in Traj
    BY <1>2
  <2>2. Best(R) = R[w]
    BY <1>2 DEF Best
  <2> QED
    BY <2>1, <2>2
<1> QED
  BY <1>1, <1>2

LEMMA InitType == Init => TypeInv
<1> SUFFICES ASSUME Init PROVE TypeInv
  OBVIOUS
<1> USE PortfolioAssumption
<1>1. 1 \in Traj /\ 1 \in Family /\ SharedTmp \in Dir
  BY DEF Traj, Family, SharedTmp, Dir
<1>2. Failed \in ResultType
  BY DEF Failed, ResultType
<1>3. TypeOK
  BY <1>1, <1>2 DEF Init, TypeOK, NoFiles, Traj
<1>4. FilesTyped
  BY DEF Init, FilesTyped, NoFiles, HasDir
<1> QED
  BY <1>3, <1>4 DEF TypeInv

(* Every step of a trajectory keeps the types.                             *)
LEMMA TrajectoryType ==
  ASSUME TypeInv, NEW t \in Traj, Trajectory(t)
  PROVE  TypeInv'
<1> USE PortfolioAssumption DEF TypeInv, TypeOK, FilesTyped, fsVars, Goto,
      HasDir
<1>1. CASE Solve(t)
  <2>1. [ok |-> TRUE, cost |-> 0, patch |-> EmptyPatch] \in ResultType
    BY DEF ResultType
  <2>2. results' \in [Traj -> ResultType]
    BY <1>1, <2>1 DEF Solve
  <2>3. tpc' = [tpc EXCEPT ![t] = "finished"]
        \/ tpc' = [tpc EXCEPT ![t] = "mktemp"]
    BY <1>1 DEF Solve
  <2> QED
    BY <1>1, <2>2, <2>3 DEF Solve
<1>2. CASE MakeTemp(t)
  <2>1. Direct(t) \in SUBSET (Slot \X Patch)
    BY DEF Direct, ProfileType, Patch, Slot, Family
  <2>2. \A made \in BOOLEAN : TmpDirOf(t, made) \in Dir
    BY DEF TmpDirOf, Dir, SharedTmp, Traj
  <2>3. prof.mkdtemp \subseteq BOOLEAN
    BY DEF ProfileType
  <2>4. PICK made \in BOOLEAN :
          /\ dir' = [dir EXCEPT ![t] = TmpDirOf(t, made)]
          /\ exists' = IF made THEN exists \union {TmpDirOf(t, made)} ELSE exists
    BY <1>2, <2>3 DEF MakeTemp
  <2>5. dir' \in [Traj -> Dir \union {NoDir}] /\ dir'[t] \in Dir /\ exists' \subseteq Dir
    BY <2>2, <2>4
  <2> QED
    BY <1>2, <2>1, <2>4, <2>5 DEF MakeTemp
<1>3. CASE WriteGenlib(t)
  BY <1>3 DEF WriteGenlib
<1>4. CASE WriteBlif(t)
  <2>1. [t |-> t, slot |-> fam[t]] \in Patch
    BY DEF Patch, Slot, Family
  <2> QED
    BY <1>4, <2>1 DEF WriteBlif
<1>5. CASE SkipFamily(t)
  BY <1>5 DEF SkipFamily, NextFamily, Family
<1>6. CASE AbcRead(t)
  BY <1>6 DEF AbcRead
<1>7. CASE AbcWrite(t)
  <2>1. held[t] # NoPatch => MappedForm(held[t]) \in Patch
    BY DEF MappedForm, Patch, Slot, Family
  <2>2. mapped' \in [Dir -> [Family -> Patch \union {NoPatch}]]
    BY <1>7, <2>1 DEF AbcWrite
  <2>3. /\ tpc' = [tpc EXCEPT ![t] = "parse"] /\ tpc[t] = "abcwrite"
        /\ held' = [held EXCEPT ![t] = NoPatch]
        /\ UNCHANGED <<prof, mode, mainPc, next, fam, dir, cands, exists,
                       genlib, blif, results, out>>
    BY <1>7 DEF AbcWrite
  <2>4. held' \in [Traj -> Patch \union {NoPatch}]
    BY <2>3
  <2>5. TypeOK'
    BY <2>2, <2>3, <2>4
  <2>6. FilesTyped'
    BY <2>3, <2>4
  <2> QED
    BY ONLY <2>5, <2>6 DEF TypeInv
<1>8. CASE Parse(t)
  <2>1. mapped[dir[t]][fam[t]] \in Patch \union {NoPatch}
    BY <1>8 DEF Parse
  <2>2. fam[t] + 3 \in Slot /\ NextFamily(fam[t]) \in Family
    BY DEF Slot, Family, NextFamily
  <2> QED
    BY <1>8, <2>1, <2>2 DEF Parse
<1>9. CASE Select(t)
  <2>1. Outcome(cands[t]) \in ResultType
    BY OutcomeType
  <2> QED
    BY <1>9, <2>1 DEF Select
<1>10. CASE Cleanup(t)
  <2>1. NoFiles \in [Family -> Patch \union {NoPatch}]
    BY DEF NoFiles
  <2> QED
    BY <1>10, <2>1 DEF Cleanup, NoFiles
<1> QED
  BY <1>1, <1>2, <1>3, <1>4, <1>5, <1>6, <1>7, <1>8, <1>9, <1>10
    DEF Trajectory

(* Every step of main() keeps the types.                                   *)
LEMMA MainType ==
  ASSUME TypeInv, Main
  PROVE  TypeInv'
<1> USE PortfolioAssumption DEF TypeInv, TypeOK, FilesTyped, fsVars, trajVars,
      HasDir, Traj
<1>1. CASE Spawn
  BY <1>1 DEF Spawn, LastStarted
<1>2. CASE Join
  BY <1>2 DEF Join
<1>3. CASE Call
  BY <1>3 DEF Call
<1>4. CASE Return
  <2>1. next' \in 1..(N + 1) /\ mainPc' \in {"choose", "launch"}
    BY <1>4 DEF Return, LastStarted
  <2>2. mainPc' = "launch" => next' \in 1..N
    BY <1>4 DEF Return, LastStarted
  <2> QED
    BY <1>4, <2>1, <2>2 DEF Return
<1>5. CASE Emit
  <2>1. Failed \in ResultType
    BY DEF Failed, ResultType
  <2>2. Best(results) = Failed \/ \E i \in 1..N : Best(results) = results[i]
    BY BestType
  <2>3. Best(results) \in ResultType
    BY <2>1, <2>2
  <2> QED
    BY <1>5, <2>3 DEF Emit
<1> QED
  BY <1>1, <1>2, <1>3, <1>4, <1>5 DEF Main

LEMMA NextType == TypeInv /\ [Next]_vars => TypeInv'
<1>1. ASSUME TypeInv, UNCHANGED vars PROVE TypeInv'
  BY <1>1 DEF TypeInv, TypeOK, FilesTyped, vars, trajVars, fsVars
<1> QED
  BY <1>1, TrajectoryType, MainType DEF Next, Terminated

(* Types, for every N and every set of profiles: in particular next, a     *)
(* loop variable that serial and parallel main() advance differently,      *)
(* never starts a trajectory that does not exist, and no trajectory uses a *)
(* directory it has not got.                                               *)
THEOREM TypeCorrect == Spec => []TypeOK
<1>1. Spec => []TypeInv
  BY InitType, NextType, PTL DEF Spec
<1>2. TypeInv => TypeOK
  BY DEF TypeInv
<1> QED
  BY <1>1, <1>2, PTL

-----------------------------------------------------------------------------
(* Only verified patches are written, for every N, every set of profiles   *)
(* and every outcome of mkdtemp: EmitSound is inductive given the types,   *)
(* because the last filter before a result is verify() on the patch that   *)
(* was parsed, wherever the file came from.                                *)
THEOREM EmitSoundCorrect == Spec => []EmitSound
<1>1. Init => EmitSound
  BY DEF Init, EmitSound, Sound, Failed, NotYet
<1>2. ASSUME TypeInv, EmitSound, [Next]_vars
      PROVE  EmitSound'
  <2>1. TypeInv'
    BY <1>2, NextType
  <2>2. ASSUME NEW t \in Traj, Trajectory(t) PROVE EmitSound'
    <3>1. prof' = prof /\ out' = out
      BY <2>2 DEF Trajectory, Solve, MakeTemp, WriteGenlib, WriteBlif,
        SkipFamily, AbcRead, AbcWrite, Parse, Select, Cleanup
    <3>2. CASE UNCHANGED results
      BY <1>2, <3>1, <3>2 DEF EmitSound, Sound
    <3>3. CASE Select(t)
      <4>1. results' = [results EXCEPT ![t] = Outcome(cands[t])]
        BY <3>3 DEF Select
      <4>2. Sound(Outcome(cands[t]))
        BY <1>2, OutcomeType, PortfolioAssumption DEF TypeInv, TypeOK
      <4> QED
        BY <1>2, <3>1, <4>1, <4>2 DEF EmitSound, Sound, TypeInv, TypeOK
    <3>4. CASE Solve(t)
      BY <1>2, <3>1, <3>4 DEF Solve, EmitSound, Sound, TypeInv, TypeOK
    <3> QED
      BY <2>2, <3>2, <3>3, <3>4 DEF Trajectory, MakeTemp, WriteGenlib,
        WriteBlif, SkipFamily, AbcRead, AbcWrite, Parse, Cleanup
  <2>3. ASSUME Main PROVE EmitSound'
    <3>1. CASE Emit
      <4>1. Sound(Best(results))
        BY <1>2, BestType DEF EmitSound, Sound, Failed
      <4> QED
        BY <1>2, <3>1, <4>1 DEF Emit, EmitSound, Sound, trajVars
    <3>2. CASE Spawn \/ Join \/ Call \/ Return
      BY <1>2, <3>2 DEF Spawn, Join, Call, Return, EmitSound, Sound, trajVars
    <3> QED
      BY <2>3, <3>1, <3>2 DEF Main
  <2>4. ASSUME UNCHANGED vars PROVE EmitSound'
    BY <1>2, <2>4 DEF vars, trajVars, EmitSound, Sound
  <2> QED
    BY <1>2, <2>2, <2>3, <2>4 DEF Next, Terminated
<1> QED
  BY <1>1, <1>2, InitType, NextType, PTL DEF Spec

-----------------------------------------------------------------------------
(* Independence when mkdtemp always succeeds.                              *)

WithAbc == {"blif", "abc", "abcwrite", "parse"}

(* Where trajectory t stands, as a function of its own files only.         *)
OwnFiles(t) ==
  /\ tpc[t] \in HasDir => dir[t] = t /\ t \in exists
  /\ tpc[t] \in WithAbc => t \in genlib
  /\ tpc[t] = "abc" => blif[t][fam[t]] = [t |-> t, slot |-> fam[t]]
  /\ tpc[t] = "abcwrite" => held[t] = [t |-> t, slot |-> fam[t]]
  /\ tpc[t] = "parse" =>
       mapped[t][fam[t]] = IF fam[t] \in prof.maps[t]
                           THEN [t |-> t, slot |-> fam[t] + 3] ELSE NoPatch
  /\ tpc[t] \in {"idle", "start", "mktemp", "genlib"} \union WithAbc =>
       \A f \in Family : f > fam[t] \/ (f = fam[t] /\ tpc[t] # "parse")
                          => mapped[t][f] = NoPatch

(* What it has collected so far, and answered.                             *)
OwnCands(t) ==
  /\ tpc[t] \in {"idle", "start", "mktemp", "genlib"} => fam[t] = 1
  /\ tpc[t] \in {"abc", "abcwrite", "parse"} => fam[t] \in prof.fams[t]
  /\ tpc[t] \in HasDir \union {"mktemp"} => t \notin prof.err /\ ~prof.equal
  /\ tpc[t] \in HasDir => t \notin prof.late
  /\ tpc[t] \in WithAbc \union {"genlib"} =>
       /\ prof.abc
       /\ cands[t] = Direct(t) \union {m \in Mapped(t) : m[1] < fam[t] + 3}
  /\ tpc[t] = "select" =>
       cands[t] = Direct(t) \union IF prof.abc THEN Mapped(t) ELSE {}
  /\ results[t] = IF tpc[t] \in {"cleanup", "finished"} THEN Alone(t)
                  ELSE Failed

Own(t) == OwnFiles(t) /\ OwnCands(t)

(* Trajectories that are still to be started.                              *)
Waiting ==
  /\ mainPc = "launch" => \A t \in Traj : t >= next => tpc[t] = "idle"
  /\ mainPc = "join" /\ mode = "serial" =>
       \A t \in Traj : t > next => tpc[t] = "idle"

OwnInv == SharedTmp \in exists /\ Waiting /\ \A t \in Traj : Own(t)

LEMMA InitOwn == Init => OwnInv
<1> SUFFICES ASSUME Init PROVE OwnInv
  OBVIOUS
<1>1. ASSUME NEW t \in Traj PROVE Own(t)
  <2>1. t \in Dir
    BY DEF Traj, Dir
  <2> QED
    BY <2>1 DEF Init, Own, OwnFiles, OwnCands, HasDir, WithAbc, NoFiles
<1> QED
  BY <1>1 DEF Init, OwnInv, Waiting

(* A trajectory touches nothing another one looks at.                      *)
Untouched(u) ==
  /\ prof' = prof /\ tpc'[u] = tpc[u] /\ fam'[u] = fam[u] /\ dir'[u] = dir[u]
  /\ held'[u] = held[u] /\ cands'[u] = cands[u] /\ results'[u] = results[u]
  /\ blif'[u] = blif[u] /\ mapped'[u] = mapped[u]
  /\ (u \in exists' <=> u \in exists) /\ (u \in genlib' <=> u \in genlib)

LEMMA UntouchedOwn ==
  ASSUME NEW u \in Traj, Own(u), Untouched(u)
  PROVE  Own(u)'
<1>1. /\ (Alone(u))' = Alone(u) /\ (Direct(u))' = Direct(u)
      /\ (Mapped(u))' = Mapped(u)
  BY DEF Untouched, Alone, Direct, Mapped, Outcome, Verified, Before
<1>2. OwnFiles(u)'
  BY DEF Untouched, Own, OwnFiles
<1>3. OwnCands(u)'
  BY <1>1 DEF Untouched, Own, OwnCands
<1> QED
  BY <1>2, <1>3 DEF Own

(* main() has started it, and nothing else.                               *)
Started(u) ==
  /\ tpc[u] = "idle" /\ tpc'[u] = "start"
  /\ prof' = prof /\ fam'[u] = fam[u] /\ dir'[u] = dir[u]
  /\ held'[u] = held[u] /\ cands'[u] = cands[u] /\ results'[u] = results[u]
  /\ blif'[u] = blif[u] /\ mapped'[u] = mapped[u]
  /\ (u \in exists' <=> u \in exists) /\ (u \in genlib' <=> u \in genlib)

LEMMA StartedOwn ==
  ASSUME NEW u \in Traj, Own(u), Started(u)
  PROVE  Own(u)'
BY DEF Started, Own, OwnFiles, OwnCands, HasDir, WithAbc

LEMMA StepUntouched ==
  ASSUME Private, TypeInv, OwnInv, NEW t \in Traj, Trajectory(t),
         NEW u \in Traj, u # t
  PROVE  Untouched(u)
<1> USE DEF TypeInv, TypeOK, Untouched, Goto, fsVars
<1>1. t \in Dir /\ u \in Dir /\ t # SharedTmp /\ t \in Nat
  BY PortfolioAssumption DEF Traj, Dir, SharedTmp
<1>2. tpc[t] \in HasDir => dir[t] = t
  BY DEF OwnInv, Own, OwnFiles
<1>3. CASE Solve(t)
  BY <1>3 DEF Solve
<1>4. CASE MakeTemp(t)
  BY <1>1, <1>4 DEF MakeTemp, TmpDirOf, Private, OwnInv
<1>5. CASE WriteGenlib(t)
  BY <1>1, <1>2, <1>5 DEF WriteGenlib, HasDir
<1>6. CASE WriteBlif(t)
  BY <1>1, <1>2, <1>6 DEF WriteBlif, HasDir
<1>7. CASE SkipFamily(t)
  BY <1>7 DEF SkipFamily
<1>8. CASE AbcRead(t)
  BY <1>8 DEF AbcRead
<1>9. CASE AbcWrite(t)
  BY <1>1, <1>2, <1>9 DEF AbcWrite, HasDir
<1>10. CASE Parse(t)
  BY <1>10 DEF Parse
<1>11. CASE Select(t)
  BY <1>11 DEF Select
<1>12. CASE Cleanup(t)
  BY <1>1, <1>2, <1>12 DEF Cleanup, HasDir
<1> QED
  BY <1>3, <1>4, <1>5, <1>6, <1>7, <1>8, <1>9, <1>10, <1>11, <1>12
    DEF Trajectory

(* A trajectory's own step takes it to where its own files say.            *)
LEMMA StepOwn ==
  ASSUME Private, TypeInv, OwnInv, NEW t \in Traj, Trajectory(t)
  PROVE  Own(t)'
<1> USE PortfolioAssumption DEF TypeInv, TypeOK, Goto, fsVars
<1>1. /\ t \in Dir /\ t # SharedTmp /\ t \in Nat \ {0} /\ SharedTmp \in exists
      /\ prof \in ProfileType /\ fam[t] \in Family
  BY DEF Traj, Dir, SharedTmp, OwnInv
<1>2. OwnFiles(t) /\ OwnCands(t)
  BY DEF OwnInv, Own
<1>3. prof' = prof
  BY DEF Trajectory, Solve, MakeTemp, WriteGenlib, WriteBlif, SkipFamily,
    AbcRead, AbcWrite, Parse, Select, Cleanup
<1>4. /\ (Alone(t))' = Alone(t) /\ (Direct(t))' = Direct(t)
      /\ (Mapped(t))' = Mapped(t)
  BY <1>3 DEF Alone, Direct, Mapped, Outcome, Verified, Before
<1>5. CASE Solve(t)
  <2>1. OwnFiles(t)'
    BY <1>1, <1>2, <1>5 DEF Solve, OwnFiles, HasDir, WithAbc
  <2>2. OwnCands(t)'
    BY <1>1, <1>2, <1>4, <1>5 DEF Solve, OwnCands, HasDir, WithAbc, Alone
  <2> QED
    BY <2>1, <2>2 DEF Own
<1>6. CASE MakeTemp(t)
  <2>1. /\ dir' = [dir EXCEPT ![t] = t] /\ exists' = exists \union {t}
    BY <1>1, <1>6 DEF MakeTemp, TmpDirOf, Private
  <2>2. OwnFiles(t)'
    BY <1>1, <1>2, <1>6, <2>1 DEF MakeTemp, OwnFiles, HasDir, WithAbc
  <2>3. {m \in Mapped(t) : m[1] < 1 + 3} = {}
    BY DEF Mapped, ProfileType, Family
  <2>4. t \in prof.late => Alone(t) = Failed
    BY <1>2, <1>6 DEF MakeTemp, OwnCands, Alone
  <2>5. OwnCands(t)'
    BY <1>1, <1>2, <1>3, <1>4, <1>6, <2>3, <2>4 DEF MakeTemp, OwnCands, HasDir,
      WithAbc
  <2> QED
    BY <2>2, <2>5 DEF Own
<1>7. CASE WriteGenlib(t)
  <2>1. OwnFiles(t)'
    BY <1>1, <1>2, <1>7 DEF WriteGenlib, OwnFiles, HasDir, WithAbc
  <2>2. OwnCands(t)'
    BY <1>1, <1>2, <1>4, <1>7 DEF WriteGenlib, OwnCands, HasDir, WithAbc
  <2> QED
    BY <2>1, <2>2 DEF Own
<1>8. CASE WriteBlif(t)
  <2>1. OwnFiles(t)'
    BY <1>1, <1>2, <1>8 DEF WriteBlif, OwnFiles, HasDir, WithAbc
  <2>2. OwnCands(t)'
    BY <1>1, <1>2, <1>4, <1>8 DEF WriteBlif, OwnCands, HasDir, WithAbc
  <2> QED
    BY <2>1, <2>2 DEF Own
<1>9. CASE SkipFamily(t)
  <2>1. OwnFiles(t)'
    BY <1>1, <1>2, <1>9 DEF SkipFamily, OwnFiles, HasDir, WithAbc, NextFamily,
      Family
  <2>2. {m \in Mapped(t) : m[1] < fam[t] + 3}
          = IF fam[t] = 3 THEN Mapped(t)
            ELSE {m \in Mapped(t) : m[1] < NextFamily(fam[t]) + 3}
    BY <1>1, <1>9 DEF Mapped, SkipFamily, NextFamily, ProfileType, Family
  <2>3. OwnCands(t)'
    BY <1>1, <1>2, <1>3, <1>4, <1>9, <2>2 DEF SkipFamily, OwnCands, HasDir,
      WithAbc
  <2> QED
    BY <2>1, <2>3 DEF Own
<1>10. CASE AbcRead(t)
  <2>1. OwnFiles(t)'
    BY <1>1, <1>2, <1>10 DEF AbcRead, OwnFiles, HasDir, WithAbc
  <2>2. OwnCands(t)'
    BY <1>1, <1>2, <1>4, <1>10 DEF AbcRead, OwnCands, HasDir, WithAbc
  <2> QED
    BY <2>1, <2>2 DEF Own
<1>11. CASE AbcWrite(t)
  <2>1. /\ held[t] = [t |-> t, slot |-> fam[t]] /\ held[t] # NoPatch
        /\ held[t].t = t /\ dir[t] = t /\ t \in exists
        /\ MappedForm(held[t]) = [t |-> t, slot |-> fam[t] + 3]
        /\ mapped[t][fam[t]] = NoPatch
    BY <1>1, <1>2, <1>11 DEF AbcWrite, OwnFiles, HasDir, WithAbc, MappedForm,
      NoPatch
  <2>3. mapped' = IF fam[t] \in prof.maps[t]
                  THEN [mapped EXCEPT ![t][fam[t]] =
                          [t |-> t, slot |-> fam[t] + 3]]
                  ELSE mapped
    BY <1>11, <2>1 DEF AbcWrite
  <2>5. /\ tpc'[t] = "parse" /\ tpc[t] = "abcwrite"
        /\ UNCHANGED <<prof, fam, dir, exists, genlib>>
    BY <1>11 DEF AbcWrite
  <2>6. /\ mapped'[t][fam[t]] = IF fam[t] \in prof.maps[t]
                               THEN [t |-> t, slot |-> fam[t] + 3] ELSE NoPatch
        /\ \A f \in Family : f > fam[t] => mapped'[t][f] = mapped[t][f]
    BY <1>1, <2>1, <2>3 DEF Family
  <2>4. OwnFiles(t)'
    BY <1>1, <1>2, <2>1, <2>5, <2>6 DEF OwnFiles, HasDir, WithAbc, Family
  <2>2. OwnCands(t)'
    BY <1>1, <1>2, <1>4, <1>11 DEF AbcWrite, OwnCands, HasDir, WithAbc
  <2> QED
    BY <2>2, <2>4 DEF Own
<1>12. CASE Parse(t)
  <2>1. OwnFiles(t)'
    BY <1>1, <1>2, <1>12 DEF Parse, OwnFiles, HasDir, WithAbc, NextFamily,
      Family
  <2>2. /\ fam[t] \in prof.fams[t] /\ dir[t] = t
        /\ mapped[t][fam[t]] = IF fam[t] \in prof.maps[t]
                               THEN [t |-> t, slot |-> fam[t] + 3] ELSE NoPatch
        /\ NoPatch # [t |-> t, slot |-> fam[t] + 3]
    BY <1>1, <1>2, <1>12 DEF Parse, OwnFiles, OwnCands, HasDir, WithAbc,
      NoPatch
  <2>3. {m \in Mapped(t) : m[1] < fam[t] + 3}
          \union (IF fam[t] \in prof.maps[t]
                  THEN {<<fam[t] + 3, [t |-> t, slot |-> fam[t] + 3]>>} ELSE {})
        = IF fam[t] = 3 THEN Mapped(t)
          ELSE {m \in Mapped(t) : m[1] < NextFamily(fam[t]) + 3}
    BY <1>1, <2>2 DEF Mapped, NextFamily, ProfileType, Family
  <2>4. cands'[t] = Direct(t) \union
          (IF fam[t] = 3 THEN Mapped(t)
           ELSE {m \in Mapped(t) : m[1] < NextFamily(fam[t]) + 3})
    BY <1>1, <1>2, <1>12, <2>2, <2>3 DEF Parse, OwnCands, WithAbc
  <2>5. OwnCands(t)'
    BY <1>1, <1>2, <1>3, <1>4, <1>12, <2>4 DEF Parse, OwnCands, HasDir,
      WithAbc
  <2> QED
    BY <2>1, <2>5 DEF Own
<1>13. CASE Select(t)
  <2>1. OwnFiles(t)'
    BY <1>1, <1>2, <1>13 DEF Select, OwnFiles, HasDir, WithAbc
  <2>2. Outcome(cands[t]) = Alone(t)
    BY <1>2, <1>13 DEF Select, OwnCands, HasDir, Alone
  <2>3. ~Outcome(cands[t]).ok => Outcome(cands[t]) = Failed
    BY DEF Outcome, Failed
  <2>4. OwnCands(t)'
    BY <1>1, <1>2, <1>4, <1>13, <2>2, <2>3 DEF Select, OwnCands, HasDir,
      WithAbc
  <2> QED
    BY <2>1, <2>4 DEF Own
<1>14. CASE Cleanup(t)
  <2>1. OwnFiles(t)'
    BY <1>1, <1>2, <1>14 DEF Cleanup, OwnFiles, HasDir, WithAbc
  <2>2. OwnCands(t)'
    BY <1>1, <1>2, <1>4, <1>14 DEF Cleanup, OwnCands, HasDir, WithAbc
  <2> QED
    BY <2>1, <2>2 DEF Own
<1> QED
  BY <1>5, <1>6, <1>7, <1>8, <1>9, <1>10, <1>11, <1>12, <1>13, <1>14
    DEF Trajectory

LEMMA NextOwn ==
  ASSUME Private, TypeInv, OwnInv, [Next]_vars
  PROVE  OwnInv'
<1>1. ASSUME NEW t \in Traj, Trajectory(t) PROVE OwnInv'
  <2>1. \A u \in Traj : Own(u)'
    BY <1>1, StepUntouched, UntouchedOwn, StepOwn DEF OwnInv
  <2>2. SharedTmp \in exists'
    <3>1. t # SharedTmp /\ (tpc[t] \in HasDir => dir[t] = t)
      <4>1. OwnFiles(t)
        BY <1>1 DEF OwnInv, Own
      <4> QED
        BY <1>1, <4>1, PortfolioAssumption DEF OwnFiles, Traj, SharedTmp
    <3>2. CASE Cleanup(t)
      BY <3>1, <3>2 DEF Cleanup, Goto, HasDir, OwnInv
    <3> QED
      BY <1>1, <3>2 DEF Trajectory, Solve, MakeTemp, WriteGenlib, WriteBlif,
        SkipFamily, AbcRead, AbcWrite, Parse, Select, OwnInv, fsVars
  <2>3. /\ UNCHANGED <<mainPc, mode, next>>
        /\ \A u \in Traj : tpc[u] = "idle" => tpc'[u] = "idle"
    BY <1>1 DEF Trajectory, Solve, MakeTemp, WriteGenlib, WriteBlif,
      SkipFamily, AbcRead, AbcWrite, Parse, Select, Cleanup, Goto, TypeInv,
      TypeOK
  <2> QED
    BY <2>1, <2>2, <2>3 DEF OwnInv, Waiting
<1>2. ASSUME Main PROVE OwnInv'
  <2>1. ASSUME NEW t \in Traj PROVE Untouched(t) \/ Started(t)
    <3>1. CASE Spawn
      BY <3>1 DEF Spawn, TypeInv, TypeOK, OwnInv, Waiting, Traj, fsVars,
        Untouched, Started
    <3>2. CASE Call
      BY <3>2 DEF Call, TypeInv, TypeOK, OwnInv, Waiting, Traj, fsVars,
        Untouched, Started
    <3>3. CASE Join \/ Return \/ Emit
      BY <3>3 DEF Join, Return, Emit, trajVars, fsVars, Untouched
    <3> QED
      BY <1>2, <3>1, <3>2, <3>3 DEF Main
  <2>2. Waiting'
    BY <1>2, PortfolioAssumption DEF Main, Spawn, Join, Call, Return, Emit,
      trajVars, LastStarted, OwnInv, Waiting, TypeInv, TypeOK, Traj
  <2>3. \A t \in Traj : Own(t)'
    BY <2>1, UntouchedOwn, StartedOwn DEF OwnInv
  <2>4. exists' = exists
    BY <1>2 DEF Main, Spawn, Join, Call, Return, Emit, fsVars
  <2> QED
    BY <2>2, <2>3, <2>4 DEF OwnInv
<1>3. ASSUME UNCHANGED vars PROVE OwnInv'
  <2>1. \A t \in Traj : Untouched(t)
    BY <1>3 DEF vars, trajVars, fsVars, Untouched
  <2>2. \A t \in Traj : Own(t)'
    BY <2>1, UntouchedOwn DEF OwnInv
  <2> QED
    BY <1>3, <2>2 DEF vars, trajVars, fsVars, OwnInv, Waiting
<1> QED
  BY <1>1, <1>2, <1>3 DEF Next, Terminated

(* The profile and the mode are chosen once; only main() delivers.         *)
LEMMA ProfileKept ==
  ASSUME [Next]_vars
  PROVE  UNCHANGED <<prof, mode>> /\ (out' = out \/ Emit)
<1>1. ASSUME NEW t \in Traj, Trajectory(t) PROVE UNCHANGED <<prof, mode, out>>
  BY <1>1 DEF Trajectory, Solve, MakeTemp, WriteGenlib, WriteBlif, SkipFamily,
    AbcRead, AbcWrite, Parse, Select, Cleanup
<1>2. CASE Main
  BY <1>2 DEF Main, Spawn, Join, Call, Return, Emit
<1>3. CASE UNCHANGED vars
  BY <1>3 DEF vars
<1> QED
  BY <1>1, <1>2, <1>3 DEF Next, Terminated

(* main.cpp:1361, "trajectories are fully independent": with a directory   *)
(* of its own for every trajectory, each answers what it would answer      *)
(* alone, for every N, all profiles and every interleaving of the threads  *)
(* and their abc processes.                                                *)
THEOREM IndependentCorrect == Spec => []Independent
<1>1. TypeInv /\ (Private => OwnInv) => Independent
  BY DEF OwnInv, Own, OwnCands, Independent
<1>2. TypeInv /\ (Private => OwnInv) /\ [Next]_vars => (Private => OwnInv)'
  BY NextOwn, ProfileKept DEF Private
<1> QED
  BY <1>1, <1>2, InitType, NextType, InitOwn, PTL DEF Spec

-----------------------------------------------------------------------------
(* The driver implements BestPatch.                                        *)

Enough(r) == r.ok /\ r.cost <= 2

(* How far main() is: whom it has waited for, and whom it never starts.    *)
MainInv ==
  /\ out = NotYet <=> mainPc # "done"
  /\ mode = "parallel" /\ mainPc = "choose" =>
       \A t \in Traj : tpc[t] = "finished"
  /\ mode = "serial" /\ mainPc \in {"launch", "join", "choose"} =>
       \A t \in 1..(next - 1) : tpc[t] = "finished" /\ ~Enough(results[t])
  /\ mode = "serial" /\ mainPc = "choose" =>
       /\ tpc[next] = "finished"
       /\ next = N \/ Enough(results[next])
       /\ \A t \in Traj : t > next => tpc[t] = "idle"

LEMMA InitMain == Init => MainInv
BY DEF Init, MainInv, NotYet

LEMMA NextMain ==
  ASSUME TypeInv, OwnInv, MainInv, [Next]_vars
  PROVE  MainInv'
<1> USE PortfolioAssumption DEF TypeInv, TypeOK, Traj
<1>1. ASSUME NEW t \in Traj, Trajectory(t) PROVE MainInv'
  <2>1. /\ UNCHANGED <<mainPc, mode, next, out>>
        /\ \A u \in Traj : tpc[u] \in {"idle", "finished"} =>
             tpc'[u] = tpc[u] /\ results'[u] = results[u]
    BY <1>1 DEF Trajectory, Solve, MakeTemp, WriteGenlib, WriteBlif,
      SkipFamily, AbcRead, AbcWrite, Parse, Select, Cleanup, Goto
  <2> QED
    BY <2>1 DEF MainInv
<1>2. ASSUME Main PROVE MainInv'
  <2>1. CASE Spawn
    BY <2>1 DEF Spawn, MainInv, LastStarted
  <2>2. CASE Join
    BY <2>2 DEF Join, MainInv, trajVars
  <2>3. CASE Call
    BY <2>3 DEF Call, MainInv
  <2>4. CASE Return
    BY <2>4 DEF Return, MainInv, LastStarted, Enough, trajVars, OwnInv,
      Waiting
  <2>5. CASE Emit
    <3>1. Best(results) # NotYet
      <4>1. Failed.cost # NotYet.cost
        BY DEF Failed, NotYet
      <4>2. \A i \in Traj : results[i].cost \in Nat
        BY DEF ResultType
      <4>3. NotYet.cost \notin Nat
        BY DEF NotYet
      <4> QED
        BY <4>1, <4>2, <4>3, BestType
    <3> QED
      BY <2>5, <3>1 DEF Emit, MainInv
  <2> QED
    BY <1>2, <2>1, <2>2, <2>3, <2>4, <2>5 DEF Main
<1>3. ASSUME UNCHANGED vars PROVE MainInv'
  BY <1>3 DEF vars, trajVars, MainInv
<1> QED
  BY <1>1, <1>2, <1>3 DEF Next, Terminated

(* When main() has stopped waiting, a result is there exactly for the      *)
(* trajectories that BestPatch says are run.                               *)
LEMMA RanResults ==
  ASSUME TypeInv, OwnInv, MainInv, mainPc = "choose", NEW t \in Traj
  PROVE  results[t] = IF t \in Promise!Ran THEN Alone(t) ELSE Failed
<1> USE PortfolioAssumption DEF TypeInv, TypeOK, Traj
<1>1. \A u \in Traj : results[u] = IF tpc[u] = "finished" THEN Alone(u)
                                   ELSE IF tpc[u] = "idle" THEN Failed
                                   ELSE results[u]
  BY DEF OwnInv, Own, OwnCands
<1>2. CASE mode = "parallel"
  BY <1>1, <1>2 DEF MainInv, Promise!Ran
<1>3. CASE mode = "serial"
  <2>1. \A u \in 1..(next - 1) : tpc[u] = "finished" /\ ~Enough(Alone(u))
    BY <1>1, <1>3 DEF MainInv
  <2>2. CASE t <= next
    <3>1. tpc[t] = "finished"
      BY <1>3, <2>1, <2>2 DEF MainInv
    <3>2. t \in Promise!Ran
      BY <2>1, <2>2 DEF Promise!Ran, Enough
    <3> QED
      BY <1>1, <3>1, <3>2
  <2>3. CASE t > next
    <3>1. tpc[t] = "idle" /\ Enough(Alone(next))
      BY <1>1, <1>3, <2>3 DEF MainInv
    <3>2. next \in 1..(t - 1) /\ [u \in Traj |-> Alone(u)][next] = Alone(next)
      BY <1>3, <2>3
    <3>3. t \notin Promise!Ran
      BY <1>3, <3>1, <3>2 DEF Promise!Ran, Enough
    <3> QED
      BY <1>1, <3>1, <3>3
  <2> QED
    BY <2>2, <2>3
<1> QED
  BY <1>2, <1>3

(* The loop at the end of main() delivers what BestPatch delivers.         *)
LEMMA EmitDelivers ==
  ASSUME Private, TypeInv, OwnInv, MainInv, Emit
  PROVE  Promise!Deliver
<1> DEFINE ok == {i \in Traj : results[i].ok}
           first == {i \in ok : \A j \in ok : StaysAhead(results, i, j)}
           w == CHOOSE i \in first : TRUE
<1>1. mainPc = "choose" /\ out = NotYet /\ out' = Best(results)
  BY DEF Emit, MainInv
<1>2. \A t \in Traj : results[t] = IF t \in Promise!Ran THEN Alone(t) ELSE Failed
  BY <1>1, RanResults
<1>3. /\ ~Failed.ok /\ \A i \in Promise!Ran : i \in Traj
  BY DEF Failed, Promise!Ran, Traj
<1>4. UNCHANGED <<prof, mode>>
  BY DEF Emit
<1>5. UNCHANGED <<[t \in Traj |-> Alone(t)], mode>> /\ Private'
  <2>1. UNCHANGED <<[t \in Traj |-> Alone(t)], mode>>
    BY <1>4 DEF Alone, Direct, Mapped, Outcome, Verified, Before
  <2>2. Private'
    BY <1>4 DEF Private
  <2> QED
    BY <2>1, <2>2
<1>6. \A i \in Traj : i \in first <=> i \in Promise!Ran /\ Promise!Wins(i)
  <2> TAKE i \in Traj
  <2>1. \A j \in Traj : j \in ok <=> j \in Promise!Ran /\ Alone(j).ok
    BY <1>2, <1>3
  <2> QED
    BY <1>2, <1>3, <2>1 DEF StaysAhead, Promise!Wins
<1>7. CASE first = {}
  <2>1. Best(results) = Failed
    BY <1>7 DEF Best
  <2>2. \A i \in Promise!Ran : ~Promise!Wins(i)
    BY <1>3, <1>6, <1>7
  <2> QED
    BY <1>1, <1>5, <2>1, <2>2 DEF Promise!Deliver
<1>8. CASE first # {}
  <2>1. w \in first /\ w \in Traj
    BY <1>8
  <2>2. Best(results) = results[w]
    BY <1>8 DEF Best
  <2>3. w \in Promise!Ran /\ Promise!Wins(w)
    BY <1>6, <2>1
  <2>4. results[w] = [t \in Traj |-> Alone(t)][w]
    BY <1>2, <2>1, <2>3
  <2> QED
    BY <1>1, <1>5, <2>2, <2>3, <2>4 DEF Promise!Deliver
<1> QED
  BY <1>7, <1>8

(* main() implements BestPatch: for every N and all profiles, with private *)
(* directories, one answer is delivered, once, and it is the earliest of   *)
(* the cheapest answers of the trajectories that run.                      *)
THEOREM Refinement == Spec => ImplementsBestPatch
<1> DEFINE Inv == TypeInv /\ (Private => OwnInv /\ MainInv)
<1>1. Init => Promise!Init
  BY DEF Init, Promise!Init
<1>2. ASSUME Inv, [Next]_vars
      PROVE  [Promise!Next]_Promise!vars
  <2>1. CASE Private /\ Emit
    BY <1>2, <2>1, EmitDelivers DEF Promise!Next
  <2>2. CASE ~(Private /\ Emit)
    <3>1. UNCHANGED <<prof, mode>> /\ (Private => out' = out)
      BY <1>2, <2>2, ProfileKept
    <3>2. UNCHANGED [t \in Traj |-> Alone(t)] /\ Private' = Private
      BY <3>1 DEF Private, Alone, Direct, Mapped, Outcome, Verified, Before
    <3> QED
      BY <3>1, <3>2 DEF Promise!vars
  <2> QED
    BY <2>1, <2>2
<1>3. Inv /\ [Next]_vars => Inv'
  BY NextType, NextOwn, NextMain, ProfileKept DEF Private
<1>4. Init => Inv
  BY InitType, InitOwn, InitMain
<1> QED
  BY <1>1, <1>2, <1>3, <1>4, PTL DEF Spec, ImplementsBestPatch, Promise!Spec
=============================================================================
