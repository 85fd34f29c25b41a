CONSTANTS
    None = None
    s1 = s1
    s2 = s2
    p1 = p1
    p2 = p2
    plan1 = plan1
    Signals = {s1, s2}
    Plans = {plan1}
    Processes = {p1}
    Config <- MCConfig
    PlanExpiry <- MCLongPlanExpiry
    Instrument <- MCInstrument
    MaxActive = 1
    Surroundings <- EngineContexts
    LeaseTime = 1
    MaxClock = 4
    MaxCrashes = 0
    MaxFaults = 0
    Priority <- MCPriority
    EntryTrigger = "BREAKOUT_CLOSE_CONFIRM"
    BreakoutCandidate = TRUE
    InvalidationPolicy = "CONSERVATIVE_COMBINED"
    CloseConfirmationRequired = FALSE
    TargetPolicy = "FIVE_M_CLOSE_AT_OR_BEYOND_TARGET"
    SecondTarget = TRUE
    SessionEndPolicy = "PAUSE"
    PostEntryExpiryPolicy = "TECHNICAL_EXIT"
    DegradedGrace = 1
    EntryMaxWait = 1
    ActiveMaxDuration = 2
SPECIFICATION Spec
PROPERTIES
    StaleDataNeverConfirms
