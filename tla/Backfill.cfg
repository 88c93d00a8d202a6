SPECIFICATION FairSpec
CONSTANTS
    Ids <- MCRegistry
    Registry <- MCRegistry
    Messages <- ShapeMessages
    NoMessage = NoMessage
    MaxSkew = 1
    Times = {0}
    MaxClaims = 2
    MaxShortWrites = 1
    MaxRestarts = 1
    MaxDbErrors = 1
    MaxOtherRows = 1
INVARIANTS
    BackfillTypeOK
    RawLineFirst
    PrefixIsStored
PROPERTIES
    LedgerSpec
    FileIsReplayed
