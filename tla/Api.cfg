\* Two clients beside an ingestion service and a dbt job that write, with a
\* failing statement.
SPECIFICATION Spec
CONSTANTS
    Ids <- MCIds
    Designs = {"a", "b"}
    Absent = Absent
    Fleets <- MCFleets
    Instants <- MCInstants
    Samples <- MCSamples
    Windows <- MCWindows
    Asked = {0, 3}
    DefaultPageLimit = 1
    MaxPageLimit = 2
    Clients = {"reader", "writer"}
    Uses <- MCUses
    MaxRequests = 3
    MaxStarts = 1
    MaxErrors = 1
INVARIANTS
    ApiTypeOK
    WalkMissesNothing
    ShortPageReachesTotal
    CreatedDesignStands
    CandidatesAreComplete
    ServerErrorsHaveACause
CHECK_DEADLOCK FALSE
