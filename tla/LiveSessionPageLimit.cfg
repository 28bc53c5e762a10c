SPECIFICATION Spec
CONSTANTS
  MaxRevision = 1
  QueueLimit = 1
  PageLimit = 2
  OutboundBound = 1
PROPERTY DocumentWithinLimitAccepted
