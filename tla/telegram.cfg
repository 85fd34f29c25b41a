CONSTANTS
    None = None
    high = high
    low = low
    p1 = p1
    Deliveries = {high, low}
    Priority <- MCPriority
    Content <- MCContent
    Edits = {low}
    Producers = {p1}
    QueueSize = 1
    BatchSize = 2
    MaxRetryAttempts = 2
    MaxCrashes = 1
    MaxFaults = 1
SPECIFICATION FairSpec
INVARIANTS
    UrgentIsNeverDropped
    DuplicatesNeedAFailure
PROPERTIES
    ClosedIsFinal
    EveryDeliveryCloses
