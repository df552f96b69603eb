SPECIFICATION Spec
CONSTANTS
  p = p
  q = q
  m = m
  builtin = builtin
  plain = plain
  loop = loop
  broken = broken
  file = file
  near = near
  far = far
  Alphabet <- MCAlphabet
  BuiltinRefs <- MCBuiltinRefs
  DefaultBuiltins <- MCDefaults
  Published <- MCPublished
  Classes <- MCClasses
  Contents <- MCContents
  Outside = {far}
  Unset = Unset
  a1 = a1
  Plugins = {p, q, m}
  Keeper = p
  Configs <- MCConfigs
  Adapters = {a1}
  Stores = {"json", "sqlite"}
  MaxGenerations = 3
  MaxEdits = 1
INVARIANTS TypeOK Settled NeededIsUp NothingIsLost FailedStagingLeavesNoTrace EditsAreNoticed
PROPERTIES FailureEndsServe
