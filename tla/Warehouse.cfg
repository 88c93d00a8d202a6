\* The dbt job beside the services that write what it reads, with a failing
\* model or a killed job and a second run.
SPECIFICATION Spec
CONSTANTS
    Ids <- MCIds
    Fleets <- MCFleets
    SeedFleet = {"TR-001"}
    Messages <- MixedMessages
    Reads <- MCReads
    Newer <- MCNewer
    Horizon = 5
    TicksPerSecond = 2
    Threads = 2
    MaxStarts = 2
    MaxRows = 2
    MaxRuns = 2
    MaxFailures = 1
INVARIANTS
    WTypeOK
    RunReflectsBronze
    FactsHaveTimes
    DanglingFactsAreNew
    FailuresHaveACause
PROPERTIES
    GoldSpec
CHECK_DEADLOCK FALSE
