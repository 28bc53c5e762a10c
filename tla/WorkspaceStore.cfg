SPECIFICATION FairSpec
CONSTANTS
  Client = {c1, c2}
  Path <- MCPath
  Above <- MCAbove
  Content = {1, 2, 3}
  Size <- MCSize
  Request <- MCRequest
  MaxFileBytes = 2
  MaxEntries = 2
  MaxBytes = 3
  CrashBound = 1
  Absent = Absent
  NoClient = NoClient
  NoRequest = NoRequest
INVARIANTS
  IInv
  TreeShaped
  WithinLimits
PROPERTIES ImplementsCAS Answered
