CONSTANTS
    c1 = c1
    c2 = c2
    Callers = {c1, c2}
    Columns <- TwoColumns
    Binds <- ThreeBinds
    MaxEntries = 1
    TTL = 2
    Jitter = 1
    QueryTimeout = 1
    MaxTime = 5
    MaxWrites = 1
SYMMETRY Symmetry
SPECIFICATION Spec
INVARIANTS
    TypeOK
    CacheConsistent
    OnlySingleRows
    BoundedStaleness
    
