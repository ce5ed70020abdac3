\* One random pattern, three counterexamples, a hash that collides.
CONSTANTS
  Graphs <- MCGraphs
  Pats = {0, 1, 2, 3}
  BaseSlots = 1
  CexSlots = 3
  MaxRounds = 3
  Key <- RowHash
SPECIFICATION Spec
INVARIANTS
  SweepTypeOK
  SweepComplete
  RefutedOnce
  NamedByFirst
