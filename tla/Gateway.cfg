CONSTANTS
    g1 = g1
    g2 = g2
    Callers <- Pair
    NoCaller = none
    Buffer = 6
    LoginTimeout = 1
    RequestTimeout = 3
    Lifetimes <- ShortAndLong
    MaxTime = 8
SPECIFICATION Spec
INVARIANTS
    TypeOK
    LoginNeeded
    TokenValidOnArrival
PROPERTY
    EveryCallReturns
