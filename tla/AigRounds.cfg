\* Two nodes of scratch in each of two rounds.
CONSTANTS
  Base <- MCBase
  Slots = {0, 1}
  CareSlots = {1}
  Seeds <- MCSeeds
  MaxVars = 5
  MaxRounds = 1
SPECIFICATION Spec
INVARIANTS
  GraphOK
  StrashFaithful
  EncodingFaithful
  SimFaithful
  VerdictRight
