SPECIFICATION Spec
CONSTANTS
  Clients = {c1}
  Surfaces = {s1, s2}
  Apps = {a1}
  Toplevels = {t1, t2}
  ClientOf <- SeatClientOf
  MaxSeats = 2
  Nil = Nil
INVARIANTS
  TypeOK
  PointerAgrees
  StraysAreDragged
  KeyboardAgrees
  OneActivated
  OneCursor
  MisuseHasCause
CONSTRAINT Bounds
SYMMETRY Twins
CHECK_DEADLOCK FALSE
