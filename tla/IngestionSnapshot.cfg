SPECIFICATION MSpec
CONSTANTS
    Ids <- MCIds
    Registry <- MCRegistry
    Messages <- OutcomeMessages
    NoMessage = NoMessage
    MaxSkew = 1
    MaxInflight = 2
    MaxQueued = 2
    MaxNow = 0
    MaxPublishes = 3
    MaxCrashes = 0
    MaxStops = 1
    MaxDisconnects = 0
    MaxStoreErrors = 1
INVARIANTS
    SnapshotIsCoherent
CHECK_DEADLOCK FALSE
