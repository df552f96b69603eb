SPECIFICATION FairSpec
CONSTANTS
  Events = {e1, e2}
  MaxMatches = 2
  Limits <- OneLimit
  InitialLimits <- Deep
  Reloads = {r1}
  Shutdowns = {}
  CallersCancel = TRUE
PROPERTIES
  TransitionDiscardsQueue
