\* Merges, finds and new nodes in every order.
CONSTANTS
  Pats = {0, 1}
  Graphs <- MCGraphs
SPECIFICATION UFSpec
INVARIANTS
  ParentsBelow
  ClassesSound
PROPERTY
  ImplementsClasses
