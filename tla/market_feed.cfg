CONSTANTS
    MaxLag = 4
    Instruments = {1, 2}
    Universes <- MCUniverses
    MaxSubscriptions = 1
    QueueSize = 2
    MaxReconnectAttempts = 1
    MaxLosses = 1
    MaxRefusals = 1
    MaxOverflows = 1
    MaxFlaws = 1
    MaxSyncs = 2
SPECIFICATION FairSpec
INVARIANTS
    
    DesiredIsServed
PROPERTIES
    WantedBooksRecover
