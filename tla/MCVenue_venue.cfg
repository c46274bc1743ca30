CONSTANTS
    Sessions = {j1, j2}
    Jobs = {j1, j2}
    LastModel = 2
    Sections = {"mains", "soups"}
    Defaults = {"mains"}
    Fallback = "mains"
    ScanFallback = "soups"
    Dishes = {"dal"}
    Blank = Blank
    MaxCategories = 3
    MaxItems = 3
    MaxRows = 2
    Sheets <- UploadedSheets
    Containers = {d1, d2}
    LastScript = 4
    Adds <- ScriptAdds
    Drops <- ScriptDrops
    Needs <- ScriptNeeds
    Clashes <- ScriptClashes
    Platform = {"storage"}
    MaxStarts = 4
    People = {p1, p2}
    Seats = {t1, t2}
    CallIds = {c1, c2}
    Served = {o1}
    TableLimit = 1
    MaxCodes = 3
    Nothing = Nothing
    Meals = {m1, m2}
    Prices <- MealPrices
    MaxPlates = 2
    MaxRounds = 3
    Offers <- LiveOffers
    Rounds = {n1, n2}
    Plates = {a, b}
    Phones = {f1}
    Limit = 2
    Window = 2
    MaxClock = 7
SPECIFICATION FairSpec
CHECK_DEADLOCK FALSE
INVARIANTS
    VenueTypeOK
    JobsTellTheTruth
    SchemaIsWhole
    RefusalHasACause
    LooksHold
    AttributedOnce
    BillAddsUp
    WindowHolds
PROPERTIES
    EveryJobEnds
    TableLimitHolds
    SuggestionsAreCredited
