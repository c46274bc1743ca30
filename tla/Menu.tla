-------------------------------- MODULE Menu --------------------------------
(***************************************************************************)
(* The menu of one venue: app/services/menu.py over the categories,        *)
(* menu_items and menu_item_upsells tables, and the rows an imported sheet *)
(* or a scanned photo turns into (app/services/menu_import.py and          *)
(* app/services/menu_scan.py).                                             *)
(*                                                                         *)
(* A name stands for all spellings that creating and importing take for    *)
(* one: inner spaces collapsed, case-folded.  Seeding compares names       *)
(* stripped and lower-cased, so a category may go by the name of a default *)
(* in a spelling seeding does not know it by: doubled inner spaces, or a   *)
(* letter that only case-folding folds.  Such a category is odd.           *)
(*                                                                         *)
(* Neither categories nor dishes are unique in the database.  Rows are     *)
(* listed in the order they were inserted.  A request reads the menu,      *)
(* works on what it read, and commits the rows it changed; nothing is      *)
(* locked.                                                                 *)
(***************************************************************************)
EXTENDS Naturals, Sequences, FiniteSets, SequencesExt

CONSTANTS
    Sessions,       \* requests and background tasks
    Sections,       \* names of categories
    Defaults,       \* DEFAULT_CATEGORIES
    Fallback,       \* DEFAULT_CATEGORY: for a row without a category
    ScanFallback,   \* DEFAULT_SECTION: for an approved dish without one
    Dishes,         \* names of dishes
    Blank,          \* an empty cell; the name of a row not yet created
    MaxCategories,  \* bound on the categories ever created
    MaxItems,       \* bound on the dishes ever created
    MaxRows,        \* MAX_IMPORT_ROWS, MAX_ROWS
    Sheets          \* the files that are uploaded

Categories == 1..MaxCategories  \* rows of categories, in menu order
Items == 1..MaxItems            \* rows of menu_items, in menu order
None == 0

\* A cell without a price, or with a negative one, is "missing".
Cell == [name : Dishes \cup {Blank}, section : Sections \cup {Blank},
         price : {"missing", "free", "charged"}]

MenuOperation == {"seed", "create", "delete", "dish", "import", "upsells"}

\* Names are strings of bounded length.
ASSUME MenuAssumption ==
    /\ IsFiniteSet(Sessions) /\ IsFiniteSet(Sections) /\ IsFiniteSet(Dishes)
    /\ Defaults \subseteq Sections /\ {Fallback, ScanFallback} \subseteq Sections
    /\ Blank \notin Sections \cup Dishes
    /\ MaxCategories \in Nat /\ MaxItems \in Nat /\ MaxRows \in Nat
    /\ \A sheet \in Sheets : sheet.rows \in Seq(Cell)

Category == [name : Sections \cup {Blank}, odd : BOOLEAN, active : BOOLEAN]
Item == [category : Categories \cup {None}, name : Dishes \cup {Blank},
         available : BOOLEAN]
Tables == [categories : [Categories -> Category], items : [Items -> Item],
           upsells : SUBSET (Items \X Items)]

Row == [name : Dishes, section : Sections]

\* What a request will write, worked out from what it read: rows to insert and
\* columns to change, and nothing about the rows it leaves alone.  A new dish
\* goes to a category it read or, with none, to the one inserted for it.
Changes == [insert : SUBSET Sections,
            odd : BOOLEAN,  \* whether what it inserts is oddly spelled
            show : SUBSET Categories, hide : SUBSET Categories,
            offer : SUBSET Items, withdraw : SUBSET Items,
            dishes : SUBSET [row : Row, home : Categories \cup {None}],
            unpair : SUBSET (Items \X Items), pair : SUBSET (Items \X Items)]

MenuTxn == [op : MenuOperation \cup {"none"},
            changes : Changes,
            stale : BOOLEAN]  \* the categories have changed since it read them

VARIABLES
    menu,     \* the three tables
    menuTxn,  \* the open transaction of each session
    blurred   \* history: an edit that took the name of another category, or
              \* one that wrote after the categories it had read had changed

menuVars == <<menu, menuTxn, blurred>>

NoCategory == [name |-> Blank, odd |-> FALSE, active |-> FALSE]
NoItem == [category |-> None, name |-> Blank, available |-> FALSE]
NoMenu == [categories |-> [c \in Categories |-> NoCategory],
           items |-> [i \in Items |-> NoItem], upsells |-> {}]
NoChange == [insert |-> {}, odd |-> FALSE, show |-> {}, hide |-> {},
             offer |-> {}, withdraw |-> {}, dishes |-> {}, unpair |-> {}, pair |-> {}]
NoTxn == [op |-> "none", changes |-> NoChange, stale |-> FALSE]

MenuInit ==
    /\ menu = NoMenu
    /\ menuTxn = [s \in Sessions |-> NoTxn]
    /\ blurred = FALSE

-----------------------------------------------------------------------------
(* Sheets. *)

\* A cell of the price column; only a missing and a negative price drop a row
\* of a sheet, a free dish stays.
Priced(cell) == cell.price \in {"free", "charged"}

\* Mutant: an empty cell is taken for a name.
CellAsIs(section) == section

\* resolve_category_name
Resolved(section) == IF section = Blank THEN Fallback ELSE section

\* parse_xlsx and parse_csv: the first MaxRows usable rows.
Parsed(sheet) ==
    LET usable == {i \in DOMAIN sheet.rows :
                      sheet.rows[i].name # Blank /\ Priced(sheet.rows[i])}
        kept == {i \in usable : Cardinality({j \in usable : j <= i}) <= MaxRows}
    IN  {[name |-> sheet.rows[i].name, section |-> Resolved(sheet.rows[i].section)] :
            i \in kept}

\* MenuScanService.apply: what the owner approved, free dishes left out.
Approved(sheet) ==
    {[name |-> cell.name,
      section |-> IF cell.section = Blank THEN ScanFallback ELSE cell.section] :
        cell \in {c \in Range(sheet.rows) : c.name # Blank /\ c.price = "charged"}}

-----------------------------------------------------------------------------
(* The menu. *)

Listed(m) == {c \in Categories : m.categories[c].name # Blank}
Named(m, name) == {c \in Listed(m) : m.categories[c].name = name}
Spellings(name) == IF name \in Defaults THEN BOOLEAN ELSE {FALSE}
OnCard(m) == {i \in Items : m.items[i].name # Blank}
Highest(S) == IF S = {} THEN None ELSE CHOOSE x \in S : \A y \in S : y <= x
Lowest(S) == IF S = {} THEN None ELSE CHOOSE x \in S : \A y \in S : x <= y

\* get_menu: the dishes a guest sees under a heading.
Shown(m, name) ==
    {m.items[i].name : i \in {x \in OnCard(m) :
        /\ m.items[x].available
        /\ m.items[x].category \in Named(m, name)
        /\ m.categories[m.items[x].category].active}}

\* Mutant: the defaults are added to any menu.
AnyDefault(m) == Defaults

\* ensure_default_categories: a hidden category counts as present, an oddly
\* spelled one does not.
Missing(m) ==
    {name \in Defaults : \A c \in Named(m, name) : m.categories[c].odd}

\* import_dishes adds the defaults, then takes the last category of a name and
\* the first dish of one.
Target(m, row) ==
    IF row.section \in Missing(m) THEN None ELSE Highest(Named(m, row.section))

\* Mutant: a dish is looked for in the first category of that name.
MatchInFirst(m, row) ==
    Lowest({i \in OnCard(m) : /\ m.items[i].name = row.name
                              /\ m.items[i].category = Lowest(Named(m, row.section))})

Match(m, row) ==
    Lowest({i \in OnCard(m) : /\ m.items[i].name = row.name
                              /\ m.items[i].category \in {Target(m, row)} \ {None}})

\* Mutant: a hidden category stays hidden.
NoRevival(m, rows) == {}

Revived(m, rows) ==
    {c \in {Target(m, row) : row \in rows} \ {None} : ~m.categories[c].active}

\* import_dishes: rows without a dish become one, dishes taken off come back,
\* dishes on the menu are skipped.
Import(m, rows) ==
    LET fresh == {row \in rows : Match(m, row) = None}
        matched == {Match(m, row) : row \in rows \ fresh}
    IN  [NoChange EXCEPT
            !.insert = Missing(m) \cup
                {row.section : row \in {r \in rows : Target(m, r) = None}},
            !.show = Revived(m, rows),
            !.offer = {i \in matched : ~m.items[i].available},
            !.dishes = {[row |-> row, home |-> Target(m, row)] : row \in fresh}]

\* The count of dishes an import reports as created.
Created(changes) == Cardinality(changes.dishes) + Cardinality(changes.offer)

\* New rows are appended in menu order.
CategoriesAfter(m, changes) ==
    LET names == SetToSeq(changes.insert)
        last == Cardinality(Listed(m))
    IN  [c \in Categories |->
            IF c \in (last + 1)..(last + Len(names))
            THEN [name |-> names[c - last], odd |-> changes.odd, active |-> TRUE]
            ELSE [m.categories[c] EXCEPT
                     !.active = (@ \/ c \in changes.show) /\ c \notin changes.hide]]

\* A new dish is in the category it was given or in the one of its name.
Home(categories, dish) ==
    IF dish.home # None THEN dish.home
    ELSE Highest({c \in Categories : categories[c].name = dish.row.section})

ItemsAfter(m, changes) ==
    LET dishes == SetToSeq(changes.dishes)
        last == Cardinality(OnCard(m))
    IN  [i \in Items |->
            IF i \in (last + 1)..(last + Len(dishes))
            THEN [category |-> Home(CategoriesAfter(m, changes), dishes[i - last]),
                  name |-> dishes[i - last].row.name, available |-> TRUE]
            ELSE [m.items[i] EXCEPT
                     !.available = (@ \/ i \in changes.offer)
                                   /\ i \notin changes.withdraw]]

Applied(m, changes) ==
    [categories |-> CategoriesAfter(m, changes), items |-> ItemsAfter(m, changes),
     upsells |-> (m.upsells \ changes.unpair) \cup changes.pair]

\* uq_upsell_pair, after the pairs it read were deleted.
PairTaken(m, changes) == (m.upsells \ changes.unpair) \cap changes.pair # {}

\* Bound: a request begins when what the open ones insert still fits.
Fits(changes) ==
    /\ Cardinality(Listed(menu)) + Cardinality(changes.insert)
          + SumFunction([s \in Sessions |-> Cardinality(menuTxn[s].changes.insert)])
       <= MaxCategories
    /\ Cardinality(OnCard(menu)) + Cardinality(changes.dishes)
          + SumFunction([s \in Sessions |-> Cardinality(menuTxn[s].changes.dishes)])
       <= MaxItems

-----------------------------------------------------------------------------
(* Requests: read, then commit. *)

Read(s, op, changes) ==
    /\ menuTxn[s].op = "none"
    /\ Fits(changes)
    /\ menuTxn' = [menuTxn EXCEPT ![s] =
                      [op |-> op, changes |-> changes, stale |-> FALSE]]
    /\ UNCHANGED <<menu, blurred>>

\* get_menu on the dashboard adds the defaults that are missing.
Seed(s) ==
    /\ Missing(menu) # {}
    /\ Read(s, "seed", [NoChange EXCEPT !.insert = Missing(menu)])

NameFree(m, name) == \A c \in Named(m, name) : ~m.categories[c].active

\* create_category: the active names are compared, a hidden match comes back.
\* (A category created hidden is one that is hidden next.)
CreateCategory(s) ==
    /\ \E name \in Sections : \E odd \in Spellings(name) :
           /\ NameFree(menu, name)
           /\ Read(s, "create",
                   IF Named(menu, name) = {}
                   THEN [NoChange EXCEPT !.insert = {name}, !.odd = odd]
                   ELSE [NoChange EXCEPT !.show = {Highest(Named(menu, name))}])

\* delete_category hides the category and the dishes it finds in it.
DeleteCategory(s) ==
    /\ \E c \in Listed(menu) :
           Read(s, "delete",
                [NoChange EXCEPT
                    !.hide = IF menu.categories[c].active THEN {c} ELSE {},
                    !.withdraw = {i \in Items : menu.items[i].category = c
                                                /\ menu.items[i].available}])

\* create_item: the category is active when it is read; names may repeat.
CreateItem(s) ==
    /\ \E c \in Listed(menu), name \in Dishes :
           /\ menu.categories[c].active
           /\ Read(s, "dish",
                   [NoChange EXCEPT !.dishes =
                       {[row |-> [name |-> name,
                                  section |-> menu.categories[c].name],
                         home |-> c]}])

\* import_dishes, for an apply request or an import task.
ImportDishes(s, rows) == Read(s, "import", Import(menu, rows))

ApplyScan(s) ==
    /\ \E sheet \in Sheets :
           Approved(sheet) # {} /\ ImportDishes(s, Approved(sheet))

\* An import task, on its uploaded sheet.
ImportSheet(s) ==
    /\ \E sheet \in Sheets :
           Parsed(sheet) # {} /\ ImportDishes(s, Parsed(sheet))

\* set_upsells: other dishes of this menu; the old pairs are deleted first.
SetUpsells(s) ==
    /\ \E i \in OnCard(menu) : \E want \in SUBSET (OnCard(menu) \ {i}) :
           Read(s, "upsells",
                [NoChange EXCEPT !.unpair = {p \in menu.upsells : p[1] = i},
                                 !.pair = {i} \X want])

Inserts(changes) == changes.insert # {} \/ changes.show # {}

Commit(s) ==
    LET changes == menuTxn[s].changes
        renamed == menu'.categories # menu.categories
    IN  /\ menuTxn[s].op # "none"
        /\ ~PairTaken(menu, changes)
        /\ menu' = Applied(menu, changes)
        /\ menuTxn' = [t \in Sessions |->
              IF t = s THEN NoTxn
              ELSE [menuTxn[t] EXCEPT
                       !.stale = @ \/ (menuTxn[t].op # "none" /\ renamed)]]
        /\ blurred' = (blurred \/ (menuTxn[s].stale /\ Inserts(changes)))

\* A request that fails is rolled back: a pair came twice, or the database failed.
Abort(s) ==
    /\ menuTxn[s].op # "none"
    /\ menuTxn' = [menuTxn EXCEPT ![s] = NoTxn]
    /\ UNCHANGED <<menu, blurred>>

\* The process or the database goes down: no open transaction commits.
LoseTransactions ==
    /\ menuTxn' = [s \in Sessions |-> NoTxn]
    /\ UNCHANGED <<menu, blurred>>

\* update_category writes the fields it is given; a name is not compared.
EditCategory(s) ==
    /\ menuTxn[s].op = "none"
    /\ \E c \in Listed(menu), name \in Sections, active \in BOOLEAN :
       \E odd \in Spellings(name) :
           /\ menu' = [menu EXCEPT !.categories[c] =
                          [name |-> name, odd |-> odd, active |-> active]]
           /\ blurred' = (blurred \/ \E d \in Named(menu, name) \ {c} :
                                         menu.categories[d].odd = odd)
    /\ menuTxn' = [t \in Sessions |->
                      [menuTxn[t] EXCEPT !.stale = menuTxn[t].op # "none"]]

\* update_item writes the fields it is given: no name is compared, and the dish
\* may move to another category.
EditItem(s) ==
    /\ menuTxn[s].op = "none"
    /\ \E i \in OnCard(menu), name \in Dishes, available \in BOOLEAN :
           \E c \in Listed(menu) \cup {menu.items[i].category} :
               menu' = [menu EXCEPT !.items[i] =
                           [category |-> c, name |-> name, available |-> available]]
    /\ UNCHANGED <<menuTxn, blurred>>

\* delete_item hides the dish.
DeleteItem(s) ==
    /\ menuTxn[s].op = "none"
    /\ \E i \in OnCard(menu) :
           menu' = [menu EXCEPT !.items[i].available = FALSE]
    /\ UNCHANGED <<menuTxn, blurred>>

CardStep(s) ==
    \/ Seed(s)
    \/ CreateCategory(s)
    \/ DeleteCategory(s)
    \/ CreateItem(s)
    \/ ApplyScan(s)
    \/ Commit(s)
    \/ Abort(s)
    \/ EditCategory(s)
    \/ EditItem(s)
    \/ DeleteItem(s)

\* The suggestions do not touch the rest of the menu: they are checked on a menu
\* that only grows.
PairStep(s) ==
    \/ Seed(s)
    \/ CreateItem(s)
    \/ SetUpsells(s)
    \/ Commit(s)
    \/ Abort(s)

MenuStep ==
    \/ \E s \in Sessions : CardStep(s) \/ PairStep(s) \/ ImportSheet(s)
    \/ LoseTransactions

MenuSpec == MenuInit /\ [][MenuStep]_menuVars

-----------------------------------------------------------------------------
(* Properties. *)

MenuTypeOK ==
    /\ menu \in Tables
    /\ menuTxn \in [Sessions -> MenuTxn]
    /\ blurred \in BOOLEAN

Quiet == \A s \in Sessions : menuTxn[s].op = "none"

Uploads == {Parsed(sheet) : sheet \in Sheets} \cup {Approved(sheet) : sheet \in Sheets}

\* A sheet may be imported again, as an owner does whose job was lost: whatever
\* was edited, renamed or hidden before, the second time adds nothing and
\* changes nothing (import_dishes: a dish that is there is skipped).
ImportIsIdempotent ==
    Quiet => \A rows \in {r \in Uploads : Fits(Import(menu, r))} :
        LET once == Applied(menu, Import(menu, rows))
            again == Import(once, rows)
        IN  Created(again) = 0 /\ Applied(once, again) = once

\* Every row of an import is on the guests' menu once it commits, revived with
\* its category if either had been taken off (import_dishes).
ImportedDishesShow ==
    Quiet => \A rows \in {r \in Uploads : Fits(Import(menu, r))} : \A row \in rows :
        row.name \in Shown(Applied(menu, Import(menu, rows)), row.section)

\* Two shown categories share a name only as two spellings of a default, after a
\* rename onto a taken name, or between requests that met (create_category: "A
\* category with that name already exists."; ensure_default_categories compares
\* names in its own way).
CategoriesStayDistinct ==
    blurred \/ \A c, d \in Listed(menu) :
        /\ menu.categories[c].name = menu.categories[d].name
        /\ menu.categories[c].active /\ menu.categories[d].active
        => c = d \/ menu.categories[c].odd # menu.categories[d].odd
=============================================================================
