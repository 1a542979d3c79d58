\* A tool or resource of the registry fails.
CONSTANTS
  Workers = {w1}
  Ids = {1}
  NoId = NoId
  Sessions = {s1, s2}
  NoSession = NoSession
SPECIFICATION Spec
INVARIANTS
  UnknownIsUnknown
