\* Every small netlist, in good order or not.
CONSTANT
  Netlists <- MCNetlists
SPECIFICATION FairSpec
INVARIANTS
  BuiltAsEvaluated
  RefusedRightly
PROPERTY
  Terminates
