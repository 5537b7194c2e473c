SPECIFICATION FairSpec
CONSTANT
  Networks = {n1, n2}
INVARIANTS
  OwnedUntilAtRest
PROPERTY
  DemoEnds
