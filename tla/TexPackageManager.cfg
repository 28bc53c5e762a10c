SPECIFICATION FairSpec
CONSTANTS
  Caller = {c1, c2, u}
  Updater = {u}
  Tree = {a, b}
  File = {f}
  MaxManager = 2
  MaxTicket = 3
INVARIANT OneTlmgrPerManager
PROPERTIES NoOvertaking 
