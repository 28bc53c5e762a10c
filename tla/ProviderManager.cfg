SPECIFICATION FairSpec
CONSTANTS
  Provider = {tex, lsp}
  Tex = {tex}
  System = System
  NoJob = NoJob
  QueueBound = 2
  FailBound = 1
  CrashBound = 1
INVARIANTS Agree ActiveIsInstalled InstalledIsThere
PROPERTY EveryJobEnds
