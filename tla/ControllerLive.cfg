\* A worker posts; everything may fail, but not for ever.
CONSTANTS
  rest = rest
  a = a
  w1 = w1
  w2 = w2
  d1 = d1
  d2 = d2
  Workers = {w1}
  Devices = {d1}
  NoDevice = NoDevice
  NoOwner = NoOwner
  Inputs = {rest, a}
  Neutral = rest
  NoInput = NoInput
  Off = Off
  Failures = {"alloc", "work", "create", "start", "query", "attach", "set"}
  MaxInits = 2
SPECIFICATION FairSpec
CHECK_DEADLOCK FALSE
PROPERTIES
  PostsAreTaken
  NothingSticks
