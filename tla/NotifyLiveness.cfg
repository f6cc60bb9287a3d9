SPECIFICATION FairSpec
CONSTANTS
  p1 = p1
  p2 = p2
  w1 = w1
  w2 = w2
  c1 = c1
  c2 = c2
  NoOwner = NoOwner
  NumRecipients = 1
  Channels = {"email"}
  MaxProviderCalls = 2
  ResolveWhen = {"expanded"}
  MaxGateChanges = 0
  MaxFaults = 1
  Relays = {p1}
  PageSize = 2
  MaxOutboxRev = 16
  Workers = {w1}
  Results = {"accepted","ambiguous","fatal"}
  MaxEpoch = 6
  Consumers = {}
  SesEvents = {}
  MaxFeedback = 2
PROPERTY DeliveriesEnd
CHECK_DEADLOCK FALSE
