SPECIFICATION FairServer
CONSTANTS
  Request = {r1, r2}
  MaxActive = 1
  MaxRound = 1
  MaxPass = 2
  Peer = {p1, p2}
  MaxLive = 1
INVARIANTS ServerInv DeadlineHeard StoppedIsNoSuccess LiveWithinLimit
PROPERTIES BusyEnds 
