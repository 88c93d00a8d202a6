\* Every path of the handler, with crashes, a lost connection and a failing
\* statement between its steps.
SPECIFICATION Spec
CONSTANTS
    Ids <- MCIds
    Registry <- MCRegistry
    Messages <- HandlerMessages
    NoMessage = NoMessage
    MaxSkew = 1
    MaxInflight = 2
    MaxQueued = 2
    MaxNow = 1
    MaxPublishes = 2
    MaxCrashes = 1
    MaxStops = 0
    MaxDisconnects = 1
    MaxStoreErrors = 1
INVARIANTS
    TypeOK
    MeasurementHasRaw
    RawIsAdmitted
    ReadingsAreNotMixed
    ForeignKeyHolds
    CountersAgree
    AcceptedIsStored
    LossesAreCounted
PROPERTIES
    LedgerSpec
CHECK_DEADLOCK FALSE
