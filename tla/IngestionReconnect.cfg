SPECIFICATION FairSpec
CONSTANTS
    Ids <- MCIds
    Registry <- MCRegistry
    Messages <- SessionMessages
    NoMessage = NoMessage
    MaxSkew = 1
    MaxInflight = 1
    MaxQueued = 3
    MaxNow = 0
    MaxPublishes = 3
    MaxCrashes = 1
    MaxStops = 0
    MaxDisconnects = 2
    MaxStoreErrors = 0
PROPERTIES
    StoredUnlessStuck
CHECK_DEADLOCK FALSE
