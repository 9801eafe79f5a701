SPECIFICATION DisciplinedSpec
CONSTANTS
  Objects = {o1}
  Units = {u1}
  Techniques = {t1}
  Programs = {p1}
  Shaders = {s1}
  VertexArrays = {}
  Buffers = {}
  Positions = {here}
  Start = here
  Created = {p1, s1}
  Arrays = Arrays
  MaxVersion = 1
  MaxSessions = 2
  Nil = Nil
  Discipline <- LooseShaders
PROPERTY EverythingSyncedOnEstablish
CHECK_DEADLOCK FALSE
