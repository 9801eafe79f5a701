SPECIFICATION Spec
CONSTANTS
  Surfaces = {s1, s2, s3}
  Textures = {t1, t2}
  Directions = {d1, d2}
  Front = d1
  Offsets = {1}
  MaxOffset = 2
  Nil = Nil
  Third = s3
INVARIANTS
  TypeOK
  LayersFollowOrder
  PeerShowsSurfaces
PROPERTIES
  WindowsStay
CONSTRAINT Bounds
ACTION_CONSTRAINT ThirdStays
SYMMETRY Twins
