\* One client that waits for each answer: every start/stop/clear/dump history.
CONSTANTS
  Workers = {w1}
  Threads = {t1, t2}
  NoThread = NoThread
  NoOwner = NoOwner
  Actions = {"start", "stop", "clear", "dump"}
  Preallocs = {0, 2}
  Buttons = {0, 1}
  Sticks = {0, 1, 2}
  StickThreshold = 1
  InitialCapacity = 1
  EventSize = 4
  SizeLimit = 32
  HeapBytes = 8
SPECIFICATION FairSpec
INVARIANTS
  OnePoller
  NoThreadClosedAlive
  NoThreadLost
  FlagMatchesPoller
  RecordingIsFiltered
PROPERTIES
  EveryCallReturns
