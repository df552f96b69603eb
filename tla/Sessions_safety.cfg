SPECIFICATION Spec
CONSTANTS
  w1 = w1
  w2 = w2
  w3 = w3
  m1 = m1
  m2 = m2
  m3 = m3
  ka = ka
  kb = kb
  NoWait = NoWait
  Messages = {m1, m2, m3}
  Waits = {w1, w2, w3}
  Keys = {ka, kb}
  KeyOf <- TwoKeys
  Accepts <- Some
  AsyncWaits = {w1}
  Background = {w1}
  Limits <- TwoLimits
  InitialLimits <- Narrow
  MaxGeneration = 1
INVARIANTS
  TypeOK
  GivenOnce
  BacklogIsBounded
  NoLostWakeupUnlessAwaiting
PROPERTIES
  ReturnsCurrent
  ServedInOrder
