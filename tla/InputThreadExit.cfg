SPECIFICATION Spec
CONSTANTS
  Objects = {a1}
  Surfaces = {}
  Callbacks = {c1}
  Peers = {p1}
  MaxSessions = 1
  MaxEvents = 1
  Reads = {8}
  Nil = Nil
INVARIANT ExitsGracefully
CHECK_DEADLOCK FALSE
