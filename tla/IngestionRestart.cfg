SPECIFICATION FairSpec
CONSTANTS
    Ids <- MCIds
    Registry <- MCRegistry
    Messages <- TwoMessages
    NoMessage = NoMessage
    MaxSkew = 1
    MaxInflight = 1
    MaxQueued = 2
    MaxNow = 0
    MaxPublishes = 2
    MaxCrashes = 1
    MaxStops = 0
    MaxDisconnects = 0
    MaxStoreErrors = 0
PROPERTIES
    OwedIsStored
CHECK_DEADLOCK FALSE
