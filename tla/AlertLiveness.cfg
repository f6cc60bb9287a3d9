SPECIFICATION FairSpec
CONSTANTS
  r1 = r1
  r2 = r2
  r3 = r3
  w1 = w1
  w2 = w2
  o1 = o1
  o2 = o2
  c1 = c1
  c2 = c2
  k1 = k1
  email = email
  telegram = telegram
  Cadence = 60
  NoEvent = NoEvent
  NoOwner = NoOwner
  NoRule = NoRule
  Channels = {email, telegram}
  Rules = {r1}
  Workers = {w1, w2}
  Owners = {o1, o2}
  Clients = {c1}
  Keys = {}
  Definitions <- OnlyImmediate
  Patches <- Toggles
  StaleRuleReads = FALSE
  BackfillTimes = {}
  MaxTime = 2
  MaxVersion = 2
  MaxEpoch = 9
  MaxFaults = 1
PROPERTY DueRuleIsServed
CHECK_DEADLOCK FALSE
