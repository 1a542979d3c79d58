\* The heartbeat drops the old connection of a session that reconnects.
CONSTANTS
  c1 = c1
  c2 = c2
  c3 = c3
  s1 = s1
  s2 = s2
  Workers = {w1}
  Conns = {c1, c2, c3}
  Sessions = {s1, s2}
  SessionOf <- Clients
  NoSession = NoSession
  NoConn = NoConn
  MaxConnections = 2
  Fds = {3, 4, 5}
SPECIFICATION Spec
CHECK_DEADLOCK FALSE
PROPERTIES
  SlotReused
