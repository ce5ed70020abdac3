CONSTANTS
  Circuits <- MCDangling
  MaxRounds = 1
  MaxFix = 3
  MaxSup = 2
  MaxMissed = 0
  WireBase = 100
SPECIFICATION TrajSpec
INVARIANT DeliveredAcyclic
