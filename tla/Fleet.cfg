\* A fleet of one or two units, or of one number too many, generated over an
\* older one.
SPECIFICATION Spec
CONSTANTS
    Powers <- MCPowers
    Heights = {335}
    MaxId = 2
    MaxUnits = 3
    MaxGenerates = 1
    MaxWriteFaults = 1
    OldFleet <- MCOldFleet
INVARIANTS
    LoadableIsOneFleet
    WrittenLoads
    EnvelopesHold
CHECK_DEADLOCK FALSE
