CONSTANTS
  Problems <- MCDisjoint
  Cap = 2
  ScanCap = 3
  MaxIter = 2
  Slots = 8
  MaxCover = 3
  MaxSup = 2
SPECIFICATION Spec
INVARIANTS
  TypeOK
  CareKept
  ResultRight
PROPERTY Learns
