CONSTANTS
    Columns <- MCColumns
    Instance = "bayer"
    N = 2
    Rules <- MCRules
    Inputs <- MCInputs
    MaxEntries = 2
    MaxFaults = 1
SPECIFICATION Spec
INVARIANTS
    TypeOK
    AckedIsThrough
    EmittedIsHandled
    CopiesExcused
    EmittedIsWhole
PROPERTIES
    ShutsDown
    ReachesEnd
