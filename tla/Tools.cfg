\* Two workers in any two calls.
CONSTANTS
  Workers = {w1, w2}
  NoOne = NoOne
  Requests <- MCRequests
  Paths <- MCPaths
  Textual = {}
  Bytes = {0, 1, 2}
  CardSize = 2
  Unsafe = Unsafe
  NoText = NoText
  Garbled = Garbled
  JpegSizes = {1}
SPECIFICATION Spec
SYMMETRY Symmetry
INVARIANTS
  NothingHeld
  ReadIsWhole
  WriteIsWhole
  RefusedLeavesFiles
  LinesAreWhole
  Base64Fits
