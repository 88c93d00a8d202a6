\* Two runs of the ticks its settings give: five seconds to twenty hours.
SPECIFICATION Spec
CONSTANTS
    Fleet <- MCFleet
    Ids <- MCIds
    Limit = 0
    Settings <- MCSettings
    MaxSkew = 60
    RawLoads <- MCRawLoads
    Jitters = {0}
    AmbientAt <- MCAmbientAt
    OilFactor <- MCOilFactor
    WindingFactor <- MCWindingFactor
    MaxNow = 1
    MaxRuns = 2
    MaxRepeats = 1
INVARIANTS
    SimTypeOK
    FirstRunIsStored
    PublishedIsPrefix
    LabelAgreesUpToRounding
    OnlyTheseRulesRefuse
CHECK_DEADLOCK FALSE
