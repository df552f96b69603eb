SPECIFICATION Spec
CONSTANTS
  w1 = w1
  w2 = w2
  w3 = w3
  m1 = m1
  m2 = m2
  m3 = m3
  ka = ka
  kb = kb
  NoWait = NoWait
  Messages = {m1, m2}
  Waits = {w1}
  Keys = {ka}
  KeyOf <- OneKey
  Accepts <- Some
  AsyncWaits = {w1}
  Background = {}
  Limits <- OneLimit
  InitialLimits <- Narrow
  MaxGeneration = 1
INVARIANTS
  NoLostWakeup
