SPECIFICATION Spec
CONSTANTS
  Objects = {o1}
  Units = {u1}
  Techniques = {t1}
  Apps = {a1}
  Nil = Nil
INVARIANT OwnerOutlivesUnit
CHECK_DEADLOCK FALSE
