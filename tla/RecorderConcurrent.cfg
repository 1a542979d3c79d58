\* Both HTTP workers call the tool at once, every action, save included.
CONSTANTS
  Workers = {w1, w2}
  Threads = {t1, t2}
  NoThread = NoThread
  NoOwner = NoOwner
  Actions = {"start", "stop", "clear", "dump", "save"}
  Preallocs <- WrappingSizes
  Buttons = {0, 1}
  Sticks = {0}
  StickThreshold = 0
  InitialCapacity = 1
  EventSize = 4
  SizeLimit = 32
  HeapBytes = 8
SPECIFICATION Spec
SYMMETRY Symmetry
CHECK_DEADLOCK FALSE
INVARIANTS
  TypeOK
  MutualExclusion
  WritesWithinAllocation
  DumpIsSnapshot
PROPERTIES
  AppendOrReset
