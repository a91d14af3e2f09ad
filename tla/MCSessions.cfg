CONSTANTS
    Ids = {s1, s2, s3, s4, s5}
    MaxSessions = 2
    Ttl = 3
SYMMETRY Symmetry
SPECIFICATION Spec
INVARIANTS
    CapRespected
    OpenIffKnown
PROPERTIES
    ImplementsStore
    AnswersTellLive
