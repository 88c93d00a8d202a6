SPECIFICATION Spec
CONSTANTS
    Ids <- MCIds
    Registry <- MCRegistry
    Messages <- TwoMessages
    NoMessage = NoMessage
    MaxSkew = 1
    MaxInflight = 2
    MaxQueued = 2
    MaxNow = 0
    MaxPublishes = 2
    MaxCrashes = 0
    MaxStops = 0
    MaxDisconnects = 0
    MaxStoreErrors = 1
INVARIANTS
    HeldOrStored
CHECK_DEADLOCK FALSE
