SPECIFICATION AuthSpec
SYMMETRY Symmetry
CONSTANTS
  Login = {l1, l2}
  Client = {c1}
  Object = {o1, o2, o3}
  NoObject = NoObject
  IdleTimeout = 1
  AbsoluteTimeout = 2
  MaxSessions = 2
  FailureWindow = 1
  FailureLimit = 2
  BaseLockout = 1
  MaxLockout = 2
  MaxTime = 3
  MaxOpened = 3
  MaxWrong = 3
INVARIANT LockoutEarned
PROPERTY SessionsEndRightly
