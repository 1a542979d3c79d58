\* Both workers register, reconnect and post beside the heartbeat, all of them
\* scheduled fairly.
CONSTANTS
  c1 = c1
  c2 = c2
  c3 = c3
  s1 = s1
  s2 = s2
  Workers = {w1, w2}
  Conns = {c1, c2, c3}
  Sessions = {s1, s2}
  SessionOf <- Clients
  NoSession = NoSession
  NoConn = NoConn
  MaxConnections = 2
  Fds = {3, 4, 5}
SPECIFICATION FairSpec
CHECK_DEADLOCK FALSE
INVARIANTS
  KeepsItsConnection
  SlotIsItsStream
  NothingLost
  SessionsUnique
PROPERTIES
  GoneIsClosed
  KeepsItsPromise
