CONSTANTS
    p1 = p1
    p2 = p2
    none = none
    Consumers <- Solo
    Names <- Solo
    NameOf <- OwnNames
    NoName = none
    MaxEntries = 4
    Count = 2
    Poisonous = {3}
    Malformed = {4}
    MaxFaults = 2
    MaxIdles = 0
SPECIFICATION Spec
INVARIANTS
    InOrder
    PoisonStays
PROPERTY
    PELFirst
