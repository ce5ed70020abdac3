\* A gate reads a net that nobody drives.
CONSTANT
  Netlists <- MCNetlists
SPECIFICATION FairSpec
INVARIANT
  DanglingIsFree
