CONSTANTS
    p1 = p1
    p2 = p2
    none = none
    Consumers <- Pair
    Names <- Pair
    NameOf <- OwnNames
    NoName = none
    MaxEntries = 1
    Count = 1
    Poisonous = {}
    Malformed = {}
    MaxFaults = 2
    MaxIdles = 1
SYMMETRY PairSymmetry
SPECIFICATION Spec
INVARIANTS
    TypeOK
    NoLoss
PROPERTIES
    NoUnexcusedDuplicate
    ImplementsPromise
