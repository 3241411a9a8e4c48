CONSTANTS
    p1 = p1
    p2 = p2
    none = none
    Consumers <- Pair
    Names <- Pair
    NameOf <- OwnNames
    NoName = none
    MaxEntries = 2
    Count = 1
    Poisonous = {}
    Malformed = {}
    MaxFaults = 1
    MaxIdles = 1
SPECIFICATION Spec
INVARIANT
    NothingAbandoned
