SPECIFICATION MCSpec
CONSTANTS
  q1 = q1
  q2 = q2
  q3 = q3
  w1 = w1
  w2 = w2
  k1 = k1
  d1 = d1
  d2 = d2
  Requests = {q1, q2, q3}
  Keys = {k1}
  Bodies <- OneOrTwo
  TTL = 2
  RequestTimeout = 1
  MaxTime = 4
  MaxIds = 3
  Handlers = {w1, w2}
  LegacyEligible <- One
  MaxOperatorRuns = 1
  MaxReceives = 1
  MaxStatusChanges = 2
  MaxSends = 3
  Links = {1, 2}
  Deliveries = {d1, d2}
  Concurrency = 2
  MaxMessages = 2
  StallAfter = 1
  Horizon = 4
SYMMETRY Symmetry
INVARIANT RetriesAgree
INVARIANT NothingLost
INVARIANT MarksHighest
INVARIANT WedgeIsSeen
PROPERTY DecisionsStand
PROPERTY LastWordStands
CHECK_DEADLOCK FALSE
