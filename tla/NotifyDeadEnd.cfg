SPECIFICATION Spec
CONSTANTS
  p1 = p1
  p2 = p2
  w1 = w1
  w2 = w2
  c1 = c1
  c2 = c2
  NoOwner = NoOwner
  NumRecipients = 1
  Channels = {"email"}
  MaxProviderCalls = 2
  ResolveWhen = {}
  MaxGateChanges = 0
  MaxFaults = 1
  Relays = {p1}
  PageSize = 2
  MaxOutboxRev = 4
  Workers = {w1}
  Results = {"ambiguous","permanent"}
  MaxEpoch = 4
  Consumers = {c1}
  SesEvents = {}
  MaxFeedback = 2
SYMMETRY Symmetry
INVARIANT LapsedClaimRecoverable
CHECK_DEADLOCK FALSE
