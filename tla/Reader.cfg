\* Every way of cutting up every small request.
CONSTANTS
  InitialSize = 4
  MaxSize = 8
  IntMax = 15
  Heads <- SmallHeads
  Bodies <- SmallBodies
  Lengths <- SmallLengths
SPECIFICATION FairSpec
CHECK_DEADLOCK FALSE
INVARIANTS
  InBounds
  WholeWhenItFits
PROPERTIES
  Returns
