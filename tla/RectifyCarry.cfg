\* A fix that reads the old value of a net, then a fix upstream of that net.
CONSTANTS
  Circuits <- MCStale
  MaxRounds = 3
  MaxFix = 4
  MaxSup = 2
SPECIFICATION Spec
INVARIANTS
  CarryExact
