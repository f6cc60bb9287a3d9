SPECIFICATION AttemptSpec
CONSTANTS
  p1 = p1
  p2 = p2
  w1 = w1
  w2 = w2
  c1 = c1
  c2 = c2
  NoOwner = NoOwner
  NumRecipients = 1
  Channels = {"email","telegram"}
  MaxProviderCalls = 2
  ResolveWhen = {"expanded"}
  MaxGateChanges = 1
  MaxFaults = 2
  Relays = {p1}
  PageSize = 2
  MaxOutboxRev = 4
  Workers = {w1,w2}
  Results = {"accepted","ambiguous","permanent","retryable"}
  MaxEpoch = 4
  Consumers = {c1}
  SesEvents = {"delivery_delay","reject_recipient"}
  MaxFeedback = 1
SYMMETRY Symmetry
INVARIANT UnfinishedIsFindable
INVARIANT CallsCounted
INVARIANT AcceptedNotFailed
PROPERTY SendAuthorised
PROPERTY NoCallAfterFeedback
PROPERTY ImplementsLifecycle
CHECK_DEADLOCK FALSE
