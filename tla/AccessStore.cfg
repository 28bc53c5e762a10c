SPECIFICATION Spec
CONSTANTS
  User = {u1}
  Key = {k1, k2}
  Owner <- MCOwner
  QueueBound = 3
  FailBound = 1
  CrashBound = 1
  None = None
SYMMETRY Symmetry
INVARIANTS
  IInv
  Durable
  AdmitsNoRevoked
