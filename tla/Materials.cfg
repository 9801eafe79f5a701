SPECIFICATION Spec
CONSTANTS
  Techniques = {t1, t2}
  Textures = {x1, x2}
  Samplers = {s1}
  Points = {b1}
  ParameterSize <- BorderColor
  OtherPname = "other"
  Names = {n1}
  Locations = {l1}
  LocationOf <- AtLocation
  Values = {1, 2}
  MaxVersion = 1
  MaxUniforms = 2
  MaxSessions = 2
  Junk = Junk
  Nil = Nil
INVARIANTS
  TypeOK
  NamedOnce
  UniformsMirrored
  BindingsMirrored
  TexturesMirrored
  SamplersMirrored
CONSTRAINT Bounds
SYMMETRY Twins
CHECK_DEADLOCK FALSE
