CONSTANTS
    r1 = r1
    r2 = r2
    r3 = r3
    r4 = r4
    p1 = p1
    p2 = p2
    k1 = k1
    k2 = k2
    NoKey = NoKey
    NoOrder = NoOrder
    Requests = {r1, r2, r3, r4}
    Places = {p1, p2}
    Keys = {k1, k2}
    PlaceOf <- RoundsPlace
    KeyOf <- RoundsKey
    Staff = {}
    Sweepers = {}
    StaleAfter = 1
    DayLength = 1
    MaxTime = 0
SPECIFICATION Spec
CHECK_DEADLOCK FALSE
PROPERTIES
    AcceptedKeyIsRecognised
