CONSTANTS
    None = None
    s1 = s1
    s2 = s2
    p1 = p1
    p2 = p2
    plan1 = plan1
    Signals = {s1, s2}
    Plans = {plan1}
    Processes = {p1, p2}
    Config <- MCConfig
    PlanExpiry <- MCPlanExpiry
    Instrument <- MCInstrument
    MaxActive = 1
    Surroundings <- RaceContexts
    LeaseTime = 1
    MaxClock = 2
    MaxCrashes = 1
    MaxFaults = 1
    Priority <- MCPriority
    EntryTrigger = "BREAKOUT_CLOSE_CONFIRM"
    BreakoutCandidate = TRUE
    InvalidationPolicy = "CONSERVATIVE_COMBINED"
    CloseConfirmationRequired = FALSE
    TargetPolicy = "FIVE_M_CLOSE_AT_OR_BEYOND_TARGET"
    SecondTarget = TRUE
    SessionEndPolicy = "PAUSE"
    PostEntryExpiryPolicy = "EXPIRE"
    DegradedGrace = 0
    EntryMaxWait = 9
    ActiveMaxDuration = 9
SPECIFICATION FairSpec
INVARIANTS
    OneActivePerContext
    LeaseExclusion
    AuditTrailIsSound
    AuditGapsNeedAFailure
PROPERTIES
    ImplementsResearchSignals
    
