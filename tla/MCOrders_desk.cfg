CONSTANTS
    r1 = r1
    r2 = r2
    r3 = r3
    r4 = r4
    p1 = p1
    p2 = p2
    k1 = k1
    k2 = k2
    NoKey = NoKey
    NoOrder = NoOrder
    Requests = {r1, r2}
    Places = {p1, p2}
    Keys = {k1, k2}
    PlaceOf <- PairPlace
    KeyOf <- PairKey
    Staff = {s1}
    Sweepers = {w1}
    StaleAfter = 1
    DayLength = 2
    MaxTime = 2
SPECIFICATION FairSpec
CHECK_DEADLOCK FALSE
INVARIANTS
    TypeOK
    NumbersHaveNoGap
PROPERTIES
    OnlyOverlappingAppendRevives
    SweepSparesYoungTickets
    EveryTransactionEnds
    ImplementsBook
