CONSTANTS
    Keys = {k1, k2}
    Limit = 2
    Window = 2
    MaxCount = 3
    Slots = {r1}
SPECIFICATION Spec
INVARIANTS
    EndpointTypeOK
    ServedAsConfigured
    NothingLeftOpen
    SlidingBound
    DeniedOnlyOverLimit
PROPERTIES
    WaitEnds
    RequestsEnd
