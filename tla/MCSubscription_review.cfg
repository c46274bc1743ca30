CONSTANTS
    Sessions = {s1, s2}
    RequestIds = {q1}
    NoRequest = NoRequest
    Never = Never
    TrialDays <- Trials
    Period = 1
    Grace = 1
    Operations <- ReviewOperations
    MaxTime = 1
SPECIFICATION Spec
CHECK_DEADLOCK FALSE
INVARIANTS
    ApprovalSpendsTrial
