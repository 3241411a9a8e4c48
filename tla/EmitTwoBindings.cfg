CONSTANTS
    a = a
    b = b
    ia = ia
    ib = ib
    iia = iia
    empty = empty
    Names = {a, b, ia}
    Prefixed <- MCPrefixed
    Unset = empty
    Scopes = {"shared", "global"}
    MaxBindings = 3
SPECIFICATION Spec
INVARIANT
    AcceptedIsAcyclic
CHECK_DEADLOCK FALSE
