SPECIFICATION Spec
CONSTANTS
    Ponds <- MCPonds
    Components <- MCDevices
    PondOrder <- MCPondOrder
    DeviceOrder <- MCDeviceOrder
    Workloads <- MCWorkloads
    PageSize = 1
    MaxAttempts = 3
    MaxRecordAttempts = 3
    MaxPasses = 3
PROPERTY PlacementFenced
CHECK_DEADLOCK FALSE
