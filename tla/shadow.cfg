CONSTANTS
    None = None
    s1 = s1
    s2 = s2
    s3 = s3
    Costs <- MCCosts
    Shadow <- MCShadow
    Signals = {s1, s2, s3}
    PlanOf <- MCPlanOf
    Follows <- MCFollows
    Markets <- MCMarkets
    QueueSize = 2
    MaxConcurrent = 2
    DedupeCycles = 2
    ForeignKeys = FALSE
    MaxTasks = 2
    MaxTroubles = 2
SPECIFICATION FairSpec
INVARIANTS
    ReportedIsStored
PROPERTIES
    FinishedIsHandled
