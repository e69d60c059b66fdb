\* every sequence of calls over five keys
SPECIFICATION Spec
CONSTANTS
  Key = {k1, k2, k3, k4, k5}
  Value = {v1, v2}
  Nil = Nil
INVARIANTS
  TypeOK
  InUseOrder
