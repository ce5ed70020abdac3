\* Three circuits, three rounds.
CONSTANTS
  Circuits <- MCCircuits
  MaxRounds = 3
  MaxFix = 4
  MaxSup = 2
SPECIFICATION Spec
INVARIANTS
  TypeOK
  TargetsConsistent
  CarryExactIfStable
  DefinedIfStable
PROPERTIES
  Progress
  Advances
