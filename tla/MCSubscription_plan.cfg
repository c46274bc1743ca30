CONSTANTS
    Sessions = {s1}
    RequestIds = {q1, q2}
    NoRequest = NoRequest
    Never = Never
    TrialDays <- Trials
    Period = 2
    Grace = 1
    Operations <- AllOperations
    MaxTime = 6
SPECIFICATION Spec
CHECK_DEADLOCK FALSE
INVARIANTS
    TypeOK
    EveryTermEnds
    PaidStaysOn
    WaitingMeansBasic
PROPERTIES
    NoLossMidCycle
    ProTrialOnceAndWhole
