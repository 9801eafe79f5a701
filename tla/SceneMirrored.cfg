SPECIFICATION DisciplinedSpec
CONSTANTS
  Objects = {o1, o2}
  Units = {u1, u2}
  Techniques = {t1, t2}
  Programs = {p1}
  Shaders = {s1}
  VertexArrays = {v1}
  Buffers = {b1}
  Positions = {here, there}
  Start = here
  Created = {p1, s1, v1, b1}
  Arrays = Arrays
  MaxVersion = 2
  MaxSessions = 2
  Nil = Nil
  Discipline <- AllRules
INVARIANT NoEmptyUpload
PROPERTY MirrorsScene
CONSTRAINT Bounds
SYMMETRY Twins
CHECK_DEADLOCK FALSE
