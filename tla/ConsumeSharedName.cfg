CONSTANTS
    p1 = p1
    p2 = p2
    none = none
    Consumers <- Pair
    Names <- Solo
    NameOf <- SharedName
    NoName = none
    MaxEntries = 1
    Count = 1
    Poisonous = {}
    Malformed = {}
    MaxFaults = 0
    MaxIdles = 0
SPECIFICATION Spec
PROPERTY
    OwnPageUnshared
