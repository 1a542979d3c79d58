\* One client records something and saves it.
CONSTANTS
  Workers = {w1}
  Threads = {t1, t2}
  NoThread = NoThread
  NoOwner = NoOwner
  Actions = {"start", "save"}
  Preallocs = {0}
  Buttons = {0}
  Sticks = {0, 1}
  StickThreshold = 0
  InitialCapacity = 1
  EventSize = 4
  SizeLimit = 32
  HeapBytes = 8
SPECIFICATION FairSpec
CHECK_DEADLOCK FALSE
PROPERTIES
  SaveReturns
