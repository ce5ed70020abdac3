\* Three trajectories: every mkdtemp succeeds, or two of them may share /tmp.
CONSTANTS
  N = 3
  Modes = {"serial", "parallel"}
  KeepTmp = FALSE
  Profiles <- MCProfiles
SPECIFICATION FairSpec
INVARIANTS
  TypeOK
  Independent
  EmitSound
PROPERTIES
  ImplementsBestPatch
  Terminates
