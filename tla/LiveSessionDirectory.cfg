SPECIFICATION Spec
CONSTANTS
  MaxRevision = 1
  QueueLimit = 1
  PageLimit = 1
  OutboundBound = 1
INVARIANT DirectoryRemoved
