SPECIFICATION FairSpec
CONSTANTS
  Events = {e1, e2}
  MaxMatches = 2
  Limits <- OneLimit
  InitialLimits <- Deep
  Reloads = {r1}
  Shutdowns = {s1}
  CallersCancel = FALSE
PROPERTIES
  OperationsReturn
  StopLeadsToShutdown
  QueueDrains
