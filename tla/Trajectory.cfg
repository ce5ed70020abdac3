CONSTANTS
  Circuits <- MCSmall
  MaxRounds = 2
  MaxFix = 3
  MaxSup = 2
  MaxMissed = 1
  WireBase = 100
SPECIFICATION TrajSpec
INVARIANTS
  VerdictsAgree
  BaselineExact
  VariantBRight
  FixesAsEvaluated
  CompleteRight
  NoPresRight
  HybridRight
  PatchesTidy
PROPERTY AnswersRight
