CONSTANTS
    a = a
    b = b
    ia = ia
    ib = ib
    iia = iia
    empty = empty
    Names = {a, b, ia}
    Prefixed <- MCPrefixed
    Unset = empty
    Scopes = {empty, "shared"}
    MaxBindings = 3
SPECIFICATION Spec
INVARIANTS
    TypeOK
    NoFalseAlarm
    CyclesFound
    StackIsPath
PROPERTY
    Terminates
CHECK_DEADLOCK FALSE
