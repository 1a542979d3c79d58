\* Two workers call at will, first calls at once included; everything may fail.
CONSTANTS
  rest = rest
  a = a
  w1 = w1
  w2 = w2
  d1 = d1
  d2 = d2
  Workers = {w1, w2}
  Devices = {d1, d2}
  NoDevice = NoDevice
  NoOwner = NoOwner
  Inputs = {rest, a}
  Neutral = rest
  NoInput = NoInput
  Off = Off
  Failures = {"alloc", "work", "create", "start", "query", "attach", "set"}
  MaxInits = 2
SPECIFICATION Spec
SYMMETRY Symmetry
CONSTRAINT NoClaimBeyond
CHECK_DEADLOCK FALSE
INVARIANTS
  OneHdlsThread
  OneVirtualPad
PROPERTIES
  WorkBufferHeld
  PlaysLikeAPad
  LongPressStays
