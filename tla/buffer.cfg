CONSTANTS
    Keys = {k1, k2, k3}
    BatchSize = 2
    MaxBuffered = 2
    MaxVersions = 2
    MaxFaults = 2
SPECIFICATION BufferSpec
CHECK_DEADLOCK FALSE
INVARIANTS
    NewestIsAccountedFor
PROPERTIES
    CandlesNeverGoBack
