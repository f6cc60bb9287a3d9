SPECIFICATION OutboxSpec
CONSTANTS
  p1 = p1
  p2 = p2
  w1 = w1
  w2 = w2
  c1 = c1
  c2 = c2
  NoOwner = NoOwner
  NumRecipients = 2
  Channels = {"email","telegram"}
  MaxProviderCalls = 1
  ResolveWhen = {"pending","expanded"}
  MaxGateChanges = 1
  MaxFaults = 1
  Relays = {p1,p2}
  PageSize = 1
  MaxOutboxRev = 4
  Workers = {w1}
  Results = {"accepted","ambiguous","permanent"}
  MaxEpoch = 3
  Consumers = {c1,c2}
  SesEvents = {"hard_bounce","complaint"}
  MaxFeedback = 2
SYMMETRY Symmetry
INVARIANT SuppressionRecorded
INVARIANT FanoutComplete
PROPERTY ImplementsLifecycle
CHECK_DEADLOCK FALSE
