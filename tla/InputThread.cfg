SPECIFICATION Spec
CONSTANTS
  Objects = {a1, s1}
  Surfaces = {s1}
  Callbacks = {c1}
  Peers = {p1}
  MaxSessions = 2
  MaxEvents = 2
  Reads = {1, 7, 8, 16}
  Nil = Nil
INVARIANTS
  TypeOK
  HandledInOrder
  
CONSTRAINT Bounds
CHECK_DEADLOCK FALSE
