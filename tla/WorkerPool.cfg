\* The two workers of the program, and one connection more than they can take.
CONSTANTS
  WorkerCount = 2
  Fds = {f1, f2, f3}
  NoFd = NoFd
SPECIFICATION FairSpec
CHECK_DEADLOCK FALSE
INVARIANTS
  OneHolder
  NothingLeaked
PROPERTIES
  Finished
