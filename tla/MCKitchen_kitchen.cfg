CONSTANTS
    Sessions = {r1, r2}
    Sections = {"mains", "soups"}
    Defaults = {"mains"}
    Fallback = "mains"
    ScanFallback = "soups"
    Dishes = {"dal"}
    Blank = Blank
    MaxCategories = 3
    MaxItems = 2
    MaxRows = 2
    Sheets <- MenuSheets
SYMMETRY Alike
SPECIFICATION Spec
CHECK_DEADLOCK FALSE
INVARIANTS
    ImportIsIdempotent
    ImportedDishesShow
    CategoriesStayDistinct
