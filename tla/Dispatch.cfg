\* Two workers answer every kind of request side by side.
CONSTANTS
  Workers = {w1, w2}
  Ids = {1}
  NoId = NoId
  Sessions = {s1, s2}
  NoSession = NoSession
SPECIFICATION Spec
INVARIANTS
  OneReply
  MethodNotFoundIsTrue
PROPERTIES
  EveryRequestAnswered
