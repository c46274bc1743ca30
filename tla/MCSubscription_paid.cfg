CONSTANTS
    Sessions = {s1, s2}
    RequestIds = {q1}
    NoRequest = NoRequest
    Never = Never
    TrialDays <- Trials
    Period = 2
    Grace = 1
    Operations <- AllOperations
    MaxTime = 4
SPECIFICATION Spec
CHECK_DEADLOCK FALSE
INVARIANTS
    PaidStaysOn
