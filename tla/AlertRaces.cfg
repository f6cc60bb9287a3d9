SPECIFICATION RaceSpec
CONSTANTS
  r1 = r1
  r2 = r2
  r3 = r3
  w1 = w1
  w2 = w2
  o1 = o1
  o2 = o2
  c1 = c1
  c2 = c2
  k1 = k1
  email = email
  telegram = telegram
  Cadence = 60
  NoEvent = NoEvent
  NoOwner = NoOwner
  NoRule = NoRule
  Channels = {email, telegram}
  Rules = {r1, r2, r3}
  Workers = {w1, w2}
  Owners = {o1, o2}
  Clients = {c1}
  Keys = {k1}
  Definitions <- AllDefinitions
  Patches <- AllPatches
  StaleRuleReads = FALSE
  BackfillTimes = {0, 1}
  MaxTime = 4
  MaxVersion = 3
  MaxEpoch = 4
  MaxFaults = 1
SYMMETRY Symmetry
INVARIANT IncidentMatchesState
INVARIANT CooldownRespected
INVARIANT OutboxesMatchEvents
INVARIANT ActiveIndexExact
 
 
INVARIANT ReplacementLinked
 
CHECK_DEADLOCK FALSE
