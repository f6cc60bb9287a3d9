SPECIFICATION Spec
CONSTANTS
  r1 = r1
  r2 = r2
  r3 = r3
  w1 = w1
  w2 = w2
  o1 = o1
  o2 = o2
  c1 = c1
  c2 = c2
  k1 = k1
  email = email
  telegram = telegram
  Cadence = 60
  NoEvent = NoEvent
  NoOwner = NoOwner
  NoRule = NoRule
  Channels = {email, telegram}
  Rules = {r1}
  Workers = {w1}
  Owners = {o1}
  Clients = {c1}
  Keys = {}
  Definitions <- OneDefinition
  Patches <- SemanticPatches
  StaleRuleReads = TRUE
  BackfillTimes = {}
  MaxTime = 2
  MaxVersion = 4
  MaxEpoch = 2
  MaxFaults = 0
SYMMETRY Symmetry
INVARIANT InactiveRuleNotIndexed
CHECK_DEADLOCK FALSE
