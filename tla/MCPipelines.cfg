CONSTANTS
    g = g
    ci = ci
    pub = pub
    a = a
    b = b
    Groups = {g}
    PipelineNames = {ci, pub}
    Sources = {a, b}
    Listed <- MCListed
    Registrations <- MCRegistrations
    Calls = {c1, c2}
    Results = {"failed"}
    MaxBuild <- MCMaxBuild
    Faults = {"statement", "restart"}
SPECIFICATION Spec
INVARIANTS
    PipelinesTypeOK
    RegistrationWhole
    LateOnlyAfterFailure
PROPERTIES
    StaleOnlyIfInFlight
    EveryPipelineCallEnds
