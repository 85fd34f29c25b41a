CONSTANTS
    None = None
    q1 = q1
    q2 = q2
    r1 = r1
    r2 = r2
    Costs <- MCCosts
    Shadow <- MCShadow
    Symbols = {1, 2}
    SeedPlans <- MCSeedPlans
    PlanOfKey <- MCPlanOfKey
    Book <- MCBook
    Start = 0
    End = 5
    MaxEvents = 7
    Interval = 3
    MaxGap = 10
    FundingGap = 10
    Segmented = TRUE
    Required = {"closed_candles", "ticker_bbo", "orderbook", "funding"}
    Requests = {q1, q2}
    Runs = {r1, r2}
    Inputs <- MCInputs
    MaxConcurrent = 1
    MaxTroubles = 1
SPECIFICATION FairSpec
CHECK_DEADLOCK FALSE
INVARIANTS
    EntryIsDelayed
PROPERTIES
    CompletedRunsAreWhole
    TerminalIsFinal
    
