CONSTANTS
    Kinds = {"http", "stdio"}
    Timeout = 5
    RetryDelay = 1
    ProbeMin = 3
    CloseTime = 2
SPECIFICATION Spec
INVARIANTS
    EndsInTime
    ClientsClosed
    VerdictsEarned
PROPERTIES
    CheckEnds
