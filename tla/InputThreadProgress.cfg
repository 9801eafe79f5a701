SPECIFICATION Spec
CONSTANTS
  Objects = {a1}
  Surfaces = {}
  Callbacks = {c1}
  Peers = {p1}
  MaxSessions = 2
  MaxEvents = 2
  Reads = {8}
  Nil = Nil
PROPERTIES
  CallbacksAnswered
  JoinReturns
CHECK_DEADLOCK FALSE
