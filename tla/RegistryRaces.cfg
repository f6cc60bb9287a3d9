SPECIFICATION RegistrySpec
CONSTANTS
    Workloads <- MCWorkloads
    ReceiptTTL = 2
    DefaultSite <- MCDefaultSite
    Components <- MCComponents
    DefaultComponents <- MCDefaultComponents
    HttpsAccounts <- MCHttps
    Slots = {1, 2}
    InitialRows <- MCRows
    InitialDeployments <- MCDeployments
INVARIANT CreatedOnce
INVARIANT IntervalsDisjoint
INVARIANT LocatesExactly
INVARIANT CopiesAgree
 
PROPERTY ParentsAliveAtBirth
CHECK_DEADLOCK FALSE
