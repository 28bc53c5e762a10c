SPECIFICATION FairSpec
CONSTANTS
  MaxRevision = 3
  QueueLimit = 1
  PageLimit = 2
  OutboundBound = 1
INVARIANTS
  IInv
  OneRenderer
  SettledIsShown
  NoEditLost
PROPERTIES
  PublishedWhole
  ImplementsProtocol
  
  WorkSettles
