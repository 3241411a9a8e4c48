CONSTANTS
    LookupNames = {"u", "v"}
    Specs <- MCSpecs
    Bindings <- MCBindings
    MaxBindings = 2
SPECIFICATION Spec
INVARIANTS
    TypeOK
    ServesExactlySound
    GapsAfterLoad
    KilledByHandlerOnly
    ForwardedOrUnnamed
CHECK_DEADLOCK FALSE
