------------------------------ MODULE MCVenue -------------------------------
EXTENDS Restaurant

Line(name, section, cost) == [name |-> name, section |-> section, price |-> cost]

\* One dish, two dishes, and a sheet with nothing to import.
UploadedSheets ==
    {[rows |-> <<Line("dal", Blank, "charged")>>],
     [rows |-> <<Line("dal", "soups", "charged"), Line("dal", "mains", "free")>>],
     [rows |-> <<Line(Blank, "soups", "charged"), Line("dal", "mains", "missing")>>]}

\* A size may cost less than nothing.
MealPrices == {-4, 5, 13}

\* A percentage that rounds, one that gives nothing on a small bill, a flat offer
\* above most bills, a free plate, and a bundle with conditions.
LiveOffers ==
    {[kind |-> "percent", value |-> 15, minItems |-> 1, minSpend |-> 0],
     [kind |-> "percent", value |-> 1, minItems |-> 1, minSpend |-> 0],
     [kind |-> "flat", value |-> 30, minItems |-> 1, minSpend |-> 0],
     [kind |-> "bogo", value |-> 0, minItems |-> 1, minSpend |-> 0],
     [kind |-> "bundle", value |-> 9, minItems |-> 2, minSpend |-> 20]}

\* The initial schema; a script that can run twice, whose column the next one reads
\* and drops (is_super_admin); one that needs the platform's storage and adds a
\* constraint by name.
ScriptAdds == <<{"tenants"}, {"is_super_admin"}, {"platform_role"}, {"daily_number"}>>
ScriptDrops == <<{}, {}, {"is_super_admin"}, {}>>
ScriptNeeds == <<{}, {"tenants"}, {"is_super_admin"}, {"tenants", "storage"}>>
ScriptClashes == <<{"tenants"}, {}, {}, {"daily_number"}>>

\* The parts are checked side by side, and one of them moves in a behaviour.
VARIABLE shift

vars == <<restaurantVars, shift>>

Init ==
    /\ RestaurantInit
    /\ shift \in {"jobs", "start", "calls", "codes", "ratings", "bill", "events", "limit"}
    \* Parts that begin in several states do so when it is their turn.
    /\ shift # "start" => ran = {} /\ schema = {}
    /\ shift # "bill" => \A m, n \in Meals : price[m] = price[n] /\ price[m] = Min(Prices)
    /\ shift # "events" => pairing = {}

Next ==
    /\ UNCHANGED shift
    /\ \/ /\ shift = "jobs" /\ JobsStep
          /\ UNCHANGED <<migrationVars, floorVars, billVars, eventVars, limitVars>>
       \/ /\ shift = "start" /\ MigrationStep
          /\ UNCHANGED <<kitchenVars, floorVars, billVars, eventVars, limitVars>>
       \/ /\ \/ shift = "calls" /\ CallStep
             \/ shift = "codes" /\ CodeStep
             \/ shift = "ratings" /\ RateStep
          /\ UNCHANGED <<kitchenVars, migrationVars, billVars, eventVars, limitVars>>
       \/ /\ shift = "bill" /\ BillStep
          /\ UNCHANGED <<kitchenVars, migrationVars, floorVars, eventVars, limitVars>>
       \/ /\ shift = "events" /\ EventsStep
          /\ UNCHANGED <<kitchenVars, migrationVars, floorVars, billVars, limitVars>>
       \/ /\ shift = "limit" /\ LimitStep
          /\ UNCHANGED <<kitchenVars, migrationVars, floorVars, billVars, eventVars>>

FairSpec == Init /\ [][Next]_vars /\ TasksRun /\ EffectsRun
=============================================================================
