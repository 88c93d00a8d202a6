SPECIFICATION Spec
CONSTANTS
    Ids <- MCIds
    Registry <- MCRegistry
    Messages <- RefusedMessages
    NoMessage = NoMessage
    MaxSkew = 1
    MaxInflight = 2
    MaxQueued = 3
    MaxNow = 0
    MaxPublishes = 3
    MaxCrashes = 2
    MaxStops = 1
    MaxDisconnects = 1
    MaxStoreErrors = 0
INVARIANTS
    HeldOrStored
CHECK_DEADLOCK FALSE
