CONSTANTS
    None = None
    Costs <- MCCosts
    Strategy <- MCStrategy
    RiskDefaults <- MCRisk
    ClassOverrides <- NoOverrides
    SymbolOverrides <- NoOverrides
    Days <- MCDays
    Surroundings <- MCSurroundings
    Markets <- MCMarkets
    Epoch <- MCEpoch
    MaxCandles = 4

SPECIFICATION RulesSpec

INVARIANTS
    ReversalsTellTheirStory
    BreakoutsConfirmBackInside
    PlansFollowTheirSignal
    PlansKeepTheirPromises
