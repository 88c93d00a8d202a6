\* Three processes that migrate an empty database at once, and one that asks
\* for its version.
SPECIFICATION FairSpec
CONSTANTS
    Services <- MCServices
    Inspectors = {"dbmigrate version"}
    Restarted = {"ingestion"}
    Latest = 5
    MaxFaults = 1
INVARIANTS
    UpIsComplete
PROPERTIES
    SchemaOnlyAdvances
    RestartedGetThrough
CHECK_DEADLOCK FALSE
