SPECIFICATION Spec
CONSTANTS
  Events = {e1, e2}
  MaxMatches = 2
  Limits <- TwoLimits
  InitialLimits <- Deep
  Reloads = {r1}
  Shutdowns = {s1, s2}
  CallersCancel = TRUE
SYMMETRY Symmetry
INVARIANTS
  PoolInvariant
  QuietStaging
  NoSilentDrop
PROPERTIES
  AtomicAdmission
  ShutdownIsFinal
