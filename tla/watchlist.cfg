CONSTANTS
    None = None
    aapl = aapl
    btc = btc
    Instruments = {aapl, btc}
    Allowlist = {aapl, btc}
    MaxWatchlistSize = 1
    MaxCrashes = 1
    MaxFaults = 1
    EquitySettings <- MCEquitySettings
    CryptoSettings <- MCCryptoSettings
    Calendar <- MCCalendar
    FirstWeekday = 3
    Offsets <- MCOffsets
    Selection <- MCSelection
    Thresholds <- MCThresholds
    Instants <- MCInstants
    Universes <- MCUniverses
    Situations <- MCSituations
    SymbolOrder <- MCSymbolOrder
SPECIFICATION SelectionSpec
INVARIANTS
    RestoredCycleConverges
    ActiveReportsAreBacked
    TransitionsAreForetold
    ListedMarketsAreSound
PROPERTIES
    ImplementsWatchlist
    ListRecovers
