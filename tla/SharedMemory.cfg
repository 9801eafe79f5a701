SPECIFICATION Spec
CONSTANTS
  Pools = {p1}
  Buffers = {b1, b2}
  Readers = {r1}
  Shaders = {h1}
  Surfaces = {s1}
  WlBuffers = {w1}
  Word = 8
  MaxPages = 2
  MaxMoves = 2
  Chunks = {1, 2}
  Nil = Nil
INVARIANTS
  TypeOK
  BuffersCovered
  PoolsCounted
  MisuseHasCause
  ZerosReported
PROPERTY HandedOverIntact
CONSTRAINT Bounds
SYMMETRY Twins
CHECK_DEADLOCK FALSE
