CONSTANTS
    MaxEntries = 2
    Settings <- MCSettings
    Defaults <- MCDefaults
    Delays = {0, 1}
    Grains = {0, 1}
    MaxFails = 2
SPECIFICATION Spec
INVARIANTS
    TakenOverInTime
    StolenOnlyIfLate
    HeartbeatProtects
    PanicsOnlyAtOne
CHECK_DEADLOCK FALSE
