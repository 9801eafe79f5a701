SPECIFICATION Spec
CONSTANTS
  Objects = {o1}
  Units = {u1}
  Techniques = {t1}
  Programs = {p1}
  Shaders = {}
  VertexArrays = {v1}
  Buffers = {b1}
  Positions = {here}
  Start = here
  Created = {p1, v1}
  Arrays = Arrays
  MaxVersion = 1
  MaxSessions = 2
  Nil = Nil
  Discipline <- AllRules
INVARIANTS TypeOK ProxyOfThisSession RemoteIdsExist UndamagedNotStale
CHECK_DEADLOCK FALSE
