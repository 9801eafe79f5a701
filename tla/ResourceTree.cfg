SPECIFICATION Spec
CONSTANTS
  Objects = {o1}
  Units = {u1, u2}
  Techniques = {t1, t2}
  Apps = {a1, a2}
  Nil = Nil
INVARIANTS TypeOK ObjectsMatchResources PointersDown MisuseHasCause
CHECK_DEADLOCK FALSE
