\* The serial driver stops early, the threads do not.
CONSTANTS
  N = 2
  Modes = {"serial", "parallel"}
  KeepTmp = FALSE
  Profiles <- MCPrivate
SPECIFICATION Spec
INVARIANTS
  SerialMatchesParallel
