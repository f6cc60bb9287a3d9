SPECIFICATION Spec
CONSTANTS
    Owners <- MCOwners
    Chats <- MCChats
    Addresses <- MCAddresses
    Lower <- MCLower
    Severities = {"low", "high"}
    Workloads <- MCWorkloads
    Lifetime = 2
    MaxTries = 3
    MaxDeliveries = 2
INVARIANT LiveTokenIsCurrent
INVARIANT StopStands
INVARIANT BindingOwnsChat
PROPERTY RevokedRequestStaysOut
PROPERTY EnabledWhileEligible
PROPERTY SuppressionFollows
CHECK_DEADLOCK FALSE
