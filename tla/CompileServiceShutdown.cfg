SPECIFICATION Spec
CONSTANTS
  Request = {r1, r2}
  MaxActive = 2
  MaxRound = 1
  MaxPass = 2
INVARIANT ShutdownHeard
