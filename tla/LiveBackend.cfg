SPECIFICATION FairSpec
CONSTANTS
  Client = {c1, c2}
  Page = {1}
  MaxEdit = 2
  MaxWaiter = 2
  Nobody = Nobody
INVARIANTS
  
  CacheFresh
  ExitNoticed
PROPERTIES
  RequestsEnd
  CloseEnds
