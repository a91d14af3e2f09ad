CONSTANTS
    Names <- MCNames
    MaxInterval = 2
    Period = 2
    MaxConcurrency = 2
    Policies = {"undefined", "true", "false"}
SPECIFICATION Spec
INVARIANTS
    TypeOK
    EachDueOnce
    WorkersBusy
    CyclePolicy
PROPERTIES
    CycleEnds
    DueIsChecked
