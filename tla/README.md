# Verification of the Aahaar backend

TLA+ models, TLC runs and TLAPS proofs for the FastAPI/PostgreSQL backend in
this repository. Paths below are relative to the repository root; `order.py`
without a directory is `app/services/order.py`, `subscription.py` is
`app/services/subscription.py`.

Run a check with `tlc -config MCOrders_desk.cfg MCOrders`, a proof with
`tlapm OrdersProofs.tla`.

## 1. Inventory

Every request gets a SQLAlchemy `AsyncSession` of its own (`core/database.py`,
`autoflush=False`, `expire_on_commit=False`) over PostgreSQL at READ COMMITTED.
Nothing a session writes is seen by another before its commit (some services
flush earlier, mostly for a generated id: what is flushed takes its row locks and
meets its unique indexes there, and stays invisible), so between a SELECT and the
commit every other session may run. Only the order code takes row locks to read.
Where a service checks and then inserts, what stands behind the check is a unique
index of `supabase/migrations` or nothing; the models have the indexes that exist
and only those.

| Component | State | Operations | What is hard | What makes it correct |
|---|---|---|---|---|
| Orders (`order.py`, `repositories/order.py`, `models/order.py`) | `orders`, `order_items`, `order_status_history` | place (create or append to the open ticket), accept, reject, status, advance, stale sweep on reads | guests hold the venue row, staff an order row, the sweep nothing; retries with `Idempotency-Key`; midnight | one open ticket per place, dense numbers, complete bills, legal lifecycle, a request takes effect once |
| Order events (`analytics.py`, `notification.py`, `push.py`) | analytics rows, push endpoints | background side effects after the commit | lost on restart, repeated per round, a bounded connection pool | attribution once, no event for what did not commit |
| Pricing (`offer_discount.py`, `order.py`, `offer.py`) | offers | discount, totals, line merge | rounding, caps, later rounds keep the first discount | 0 <= discount <= subtotal, merge keeps quantities |
| Subscription (`subscription.py`, `models/subscription.py`) | one `subscriptions` row per venue, `plan_requests` | read, change plan, payment method, cancel, resume, approve, reject, assign | no lock; every operation first advances the row to the present and then saves the columns that changed | terms end, paid venues stay on, one Pro trial, no Pro lost mid-cycle |
| Customer sessions (`customer.py`, `public_state.py`) | `customer_sessions` | create, check | expiry is tested before the venue lock | only live sessions order |
| Venues and offers (`restaurant.py`, `offer.py`) | `restaurants`, `offers` | edit, publish | - | single rows, unique slugs |
| Waiter calls (`waiter_call.py`) | `waiter_calls` | call, acknowledge | check-then-insert behind a unique index, check-then-write without one | one pending call per table, nobody fails without a rival |
| Reviews (`review.py`) | `reviews` | rate an order | a rated ticket may be reopened | one review per order |
| QR codes (`qr.py`) | `qr_codes` | create, review QR | quota counted without a lock; the review code has a unique index | table limit of the plan, one review code |
| Authentication (`auth.py`, `dependencies/auth.py`) | users, `session_id`, refresh tokens | register, sign in, identity-provider sign-in, refresh, sign out, staff accounts, profile | two refreshes of one token, sign-in against refresh, a lock while a request is under way | one device, a locked account is given no token |
| Waitlist and administration (`admin.py`, `platform_settings.py`) | flags of users and venues, `platform_settings` | approve, reject, lock, switch registration | check-then-insert; message before its note | the platform hears once of a name |
| Menu, import, scan (`menu.py`, `menu_import.py`, `menu_scan.py`) | catalogue; in-memory jobs | edit, import, scan | restart loses jobs, pruning a running job, retries against an outside model | an import repeated adds nothing, imported dishes are shown, categories keep distinct names, a job ends and reports what was committed |
| Rate limiter (`dependencies/rate_limit.py`) | deque per client | admit | strict window comparison | at most `limit` per window |
| Migrations (`scripts/apply_migrations.py`) | applied versions, the schema | wait, apply, stamp, serve | two transactions, two containers, a crash between, a platform without storage | the scripts that ran are the first ones and nothing of theirs is missing, a container serves only with all of them |
| Storage, outreach, identity provider, sockets, configuration, logging, schemas, seed | - | I/O or formatting | - | not modelled |

How they interact: placing an order reads the guest session, the serving state
(venue published, plan not suspended), the menu and the coupon *before* it
locks, and starts the order events *after* it commits. Quotas and feature gates
read the plan row without advancing it. Reviews and completion analytics read
the ticket's status. Dashboard reads sweep stale tickets and advance the plan:
reads write here, which is where most of the races come from.

## 2. Modules

| Module | What it is |
|---|---|
| `Orders` | the ticket table of one venue with guest, staff and sweep transactions |
| `TicketBook` | what the table promises, every request, tap and sweep one step |
| `MCOrders` + `MCOrders_*.cfg` | the instances TLC checks |
| `OrdersProofs` | theorems about the states of `Orders` |
| `OrderStepsProofs` | what its steps may do, and that it implements `TicketBook` |
| `Subscription` | the plan row and the plan requests of one venue |
| `MCSubscription` + `MCSubscription_*.cfg` | its instances |
| `SubscriptionProofs` | theorems about `Subscription` |
| `Access` | accounts, refresh tokens, the waitlist and the registration switch |
| `MCAccess` + `MCAccess_devices.cfg`, `AccessProofs` | its instance and its theorems |
| `Menu` | categories, dishes and suggestions of one venue, imports into them |
| `MCKitchen` + `MCKitchen_kitchen.cfg` | its instance |
| `MenuJobs` | background import and scan jobs, composed with `Menu` |
| `MenuProofs` | theorems about `Menu` and `MenuJobs` |
| `Migrations`, `MigrationsProofs` | starts of containers that migrate one database, and theorems |
| `Floor` | waiter calls, QR codes and ratings |
| `Bill` | the amounts of one ticket |
| `TicketEvents` | what follows the commit of a round |
| `RateLimit` | the window of one rule and client |
| `Restaurant` | `MenuJobs`, `Migrations` and the four parts before it, side by side |
| `MCVenue` + `MCVenue_venue.cfg` | its instance |
| `SumLemmas` | what a sum over a finite set is, for the proofs |
| `RestaurantProofs` | theorems about the four parts and about `Restaurant` |

### Orders

Locks, idempotency keys and ticket numbers are all per venue, so one venue is
modelled. A ticket is named by the request that created it; its items are the
set of requests whose lines it holds and `billed` the set its stored subtotal
was summed over, which is all the properties need of money.

A transaction is cut where another session can be seen in between:

| Code | Action |
|---|---|
| key lookup finds a ticket, order.py:150-157 | `GuestReplay` |
| any check refuses, 135-182 | `GuestRefuse` |
| checks pass, items priced, 135-182 | `GuestCheck` |
| `FOR UPDATE` on the venue, open ticket or next number, 184-203 | `GuestLock` |
| insert and commit, 204-224, 236-242 | `GuestCreate` |
| `_append_to_order` and commit, 401-447 | `GuestAppend` |
| `IntegrityError`, 225-234, 435-441 | `GuestConflict` |
| failure anywhere | `GuestAbort` |
| `FOR UPDATE` on the order, 661, 706 | `StaffLock` |
| `_transition`, `advance_to`, 646-737 | `StaffTransition`, `StaffAdvance` |
| refused or rolled back | `StaffRefuse` |
| `auto_close_stale` 478-481 / 483-493 | `SweepRead` / `SweepWrite`, `SweepAbort` |

Two details carry the results. An append is an UPDATE of the columns that
changed in memory, computed from the ticket as read under the *venue* lock: the
status is written only when the ticket was READY or SERVED then. And PostgreSQL's
`now()` is the transaction's start, so `created_at` and `updated_at` are the time
of the first statement, not of the commit.

Over-approximations: after a rollback the conflict path of the code re-reads an
expired object, so the reply may be the stored ticket or an error; the model
allows both. A coupon, a menu or a session refused is one nondeterministic
refusal, since none of them is read again under the lock. Assumption: a guest
session names one place; a session with a table and a room is keyed by its table.

### Subscription

Sessions load the row (`Begin`; a review first loads its request, `FindRequest`,
then the row, `LoadForApproval`), look for a pending request where the code
does (`LookForPending`), and commit with one action per operation. `Save` writes
only the columns that differ from the loaded copy, as the ORM does, over
whatever the row holds by then: `Merged`. `Advance` is `_advance`, step for step
(end of trial, then end of period, then end of grace, in one call). A
transaction may straddle one tick of the clock. The price follows the plan
in every operation and is left out, like the reasons and time stamps; the row
itself is created with the venue. `reconcile_all` is never called by the code
and would do what `GetState` does.

### Access

A request is cut at every await that reads another row: `CheckSignIn`,
`CheckSignUp`, `CheckToken`, ... read the account or the token, `LookSetting`,
`LookTokens`, `LookAccount` the second row, and `SignIn`, `SignUp`, `Rotate`,
`Switch`, ... flush and commit. Operations with one read and one write and
nothing carried over (`Logout`, `Approve`, `UpdateProfile`) are one step each: what
they write comes from the request alone, and `update_profile` reads the row again
after its commit, before it decides on a message. Saving
writes only columns that differ from the loaded row (`Switch`, `WriteSetting`).

A session id and a refresh token are drawn together, so a session id *is* the
token first minted with it; a rotation mints a token for the session id it
loaded. Expiry of a token needs no state: an expired token is one that is not
used again. Passwords, roles and names decide only whether a check passes, which
is a choice. The waitlist message is a step of its own (`Send`) between the commit
of the profile and the commit of the note (`Note`), and `Restart` may cut
anywhere.

`disturbed` is a history variable: the accounts two requests worked on at a time,
or whose message a restart cut from its note. The code promises one device, a
locked account without tokens and one message only for the others, because it
locks no row: `OneDevice`, `LockedNeverMints` and `WaitlistToldOnce` say that no
*sequence* of requests breaks the promise, and that a race on one account never
breaks it for another.

### Menu and MenuJobs

A name stands for all spellings that creating and importing take for one (inner
spaces collapsed, case-folded: menu.py:131-134, 300, 317). Seeding compares names
stripped and lower-cased (menu.py:105-108), so a category may go by the name of a
default in a spelling seeding does not know, such as one with doubled inner spaces:
such a row is `odd`, and `Missing` passes over it. Two odd spellings of one
default are not told apart. Neither categories nor dishes are
unique in the database. Rows are numbered and listed in the order they were inserted:
`sort_order`, which an owner may set and which decides which of two categories
of a name is the last, is left out. A
request reads the menu (`Seed`, `CreateCategory`, `DeleteCategory`, `CreateItem`,
`ImportDishes`, `SetUpsells` compute the `Changes` from what is read) and commits
them later over whatever the menu is by then (`Commit`; `Applied` puts together
`CategoriesAfter` and `ItemsAfter`, where a dish finds its `Home`); `Abort` is a
rollback, and `LoseTransactions` what is left of all of them after a restart. `EditCategory`, `EditItem` and `DeleteItem` write what they are given and
compare nothing, hence one step. `Import` is `import_dishes` as an operator: `Match` and `Target` are
its two dictionaries (the *last* category of a name, the *first* dish of a name in
it), `Revived` the categories it shows again. `Parsed` and `Approved` are what a
sheet and an approved scan turn into: the first keeps free dishes, the second
drops them, and they have different categories to fall back on. Names are strings of
bounded length (`name` is cut to 120 and 160 characters), hence finitely many.
`MenuSpec` is the menu under any requests and imported sheets. `blurred` records
a rename onto a taken spelling, or a commit after the categories had changed.
`CategoriesStayDistinct` therefore says: with neither, two shown categories of one
name are two spellings of a default.

`MenuJobs` extends `Menu`: the task of an import job *is* a session on the menu. Its
steps are those of `_run_import` and `_run_scan` between awaits: queued, found and
marked, importing or calling the model, leaving, reported. `Grow` lets a job pass
its TTL at any time, and `Pruned` removes old jobs at the next upload, running or
not. A model call may answer with dishes, garbage, a refusal, a timeout, a
missing model or a bad key; each goes on as the code does, to the next model, to
one more round with a smaller picture, or to the end. `RestartProcess` loses jobs,
tasks and open transactions. `KitchenSpec` lets the requests of other sessions
interleave with the jobs.

### Migrations

A container waits, lists the recorded versions, looks whether the first schema is
there, and then adopts or executes and stamps the missing files one by one; it may
stop at any point, and `docker-compose.yml` starts it again. A script is what it
`Adds` to the schema, `Drops`, `Needs` and `Clashes` with (creates without "if not
exists"): it runs wherever it has what it needs and nothing stands in its way
(`RunsOn`), so most run twice, and one that does after a later script has dropped
what it adds brings that back. `Platform` is what scripts need and none makes:
`storage.buckets`, which a Supabase database has and the PostgreSQL of
`docker-compose.yml` has not; the model starts on either. `ran` is the history of
the scripts that have run, `cut` records a stop between a script and its record,
`together` two containers migrating at once. The assumption on the files
(`MigrationAssumption`) says that each runs on what those before it leave and that
what one drops no later one adds. The rows a script changes are left out.

### Floor

Each operation is an errand between its look and its commit (`Ring`/`RingCommit`,
...). A unique index stands behind a pending call (`uq_waiter_calls_pending_table`,
`CallTaken`), a review code (`uq_qr_codes_review_per_restaurant`, `SignTaken`) and a
rating (`uq_reviews_order_id`): the commit that meets it does not happen, and
`ErrandFails`. No constraint stands behind the number of table codes and the answer
to a call. `venue` and `completed` are written by other services at any time.
`doubled` records the errands of one kind on one subject that were open twice at
once. `LooksHold` says two things: no device loses to an index, or answers what
was answered, without such a rival; and with any rivals a later look finds one row
at most, which `scalar_one_or_none` needs.

### Bill

Money is counted in its smallest unit. A meal is a dish with its size and
add-ons. The offers that may be live when a coupon is entered are a constant, so
what an owner does to offers is a choice of the guest's moment. `Merged` charges
more of a line at the line's first price; the coupon of a later round is not
looked at. Subtotals and counts are sums over the meals (`SumFunction`).
Prices are integers: a variant's `price_delta` has no lower bound
(schemas/menu.py:14), so a meal may have a negative price. What then keeps a bill
from going below nothing is `ck_orders_total_nonneg` alone (`Accepted`): the round
that would is rolled back.

### TicketEvents

The background task of each round reads the pairs on the ticket, then what was
credited, then commits, then reads the push endpoints, sends and prunes. Tracking
may fail and be swallowed, a restart loses every task, owners edit pairs, phones
subscribe, leave and die. `crossed` records two tasks that held one suggestion at
once, `excused` what the code gives up on.

### RateLimit

The limiter has no await, so a request is one step. The deque is the part of `log`
after the first `popped` entries, which keeps the history that the property is
about.

## 3. Runs

| Run | Instance | Shows |
|---|---|---|
| `desk` | 2 guests of one table, 1 staff, 1 sweep, clock 0..2, day of 2 ticks | atomicity (`ImplementsBook`), dense numbers over midnight, who may revive a ticket, what a sweep spares, every transaction ends; deadlock is not checked since a finished day stops |
| `place` | 4 requests (three rounds at one table, the third a retry of the first's key; another table without a key), 1 staff, no clock | one open ticket, numbers stay free, bills complete, staff follow the lifecycle |
| `terminal`, `touched`, `retry`, `rekeyed` | the smallest instance of each race | violations, section 5 |
| `plan` | 1 session, 2 requests, clock 0..6, trial 1 / Pro trial 2, period 2, grace 1 | all sequences of plan operations that do not overlap |
| `review` | 2 sessions, 1 request, clock 0..1, owner changes and administrator answers | the trial stays spent although saves are stale |
| `paid` | 2 sessions, all operations | violation, section 5 |
| `devices` | 1 account, 2 requests, 3 tokens, all operations | one device, no token for a locked account, one waitlist message; a restart at any point |
| `kitchen` | 2 sessions, 2 category names (one a default), 1 dish name, 3 categories, 2 dishes; sheets with repeated, empty, free and unpriced rows, cut at 2; a restart at any point | imports are idempotent and shown, categories stay distinct; three themes side by side |
| `venue` | 2 jobs on a menu; 2 containers, 4 scripts (one drops what another adds, one needs storage, one adds a constraint by name), 4 starts, on a platform with storage and without; 2 devices on 2 tables; 2 meals, prices -4, 5 and 13, 3 rounds, 5 offers; 2 rounds with suggestions; a window of 2 for 2 requests over 7 ticks | each smaller part, side by side |

Bounds. Two guests are enough for a lost update, a third round for one that
depends on what the second did to the ticket, a second table for what must not
interfere. One staff transaction and one sweep are enough because they only
interact with guests and with each other through one row; two staff taps on one
row exclude each other by the row lock, which the proofs cover for any number.
The clock of `desk` reaches the first tick at which a ticket is stale
(`StaleAfter` = 1) and crosses one midnight. The plan runs cover a trial, three
periods and a grace, with a Pro trial longer and a Basic trial shorter than a
period. `MaxTime`, the set of requests and the set of request ids are the only
bounds on otherwise unbounded data.

The account of `devices` stands for all: accounts share only the supply of tokens,
and the theorem on `OneDevice` covers any number. Three tokens are a sign-up, a
sign-in and a rotation in any order; two requests are what a race needs. Three
category rows for two names let a name occur twice and a third row come beside
it. In `venue` the parts share no state (but jobs and menu), so `shift` picks the
part that moves in a behaviour: exploring their product would show nothing else
(`PartsRunAlone` proves it). The sessions of `venue` are its jobs; a request beside
them makes the state space too large to explore, and `kitchen` has two sessions
that interleave freely. What holds of jobs beside requests is proved of
`KitchenSpec`.
`theme` does the same in `kitchen`, since otherwise its states multiply: what the
owner does to the dishes (with every operation but suggestions, categories plainly spelled), to
the spelling of the categories (with approved scans and without the operations on
single dishes), and to the suggestions, which no other operation reads. `MenuSpec`,
which the theorems are about, mixes all of them. `MaxCategories`, `MaxItems`, `MaxTokens`, `MaxStarts`, `MaxCodes`,
`MaxRounds`, `MaxPlates` and `MaxClock` bound what the code leaves unbounded; a
request that would pass one does not begin. The limits the code has (500 rows of a
sheet, a venue's tables, requests per minute) are 1 or 2 here, and each is
reached. Deadlock is not checked in these runs: when a bound is used up nothing
need be left to do.

Fairness in `venue` (`FairSpec` of `MCVenue`): `TasksRun`, since the event loop runs
every task that is ready, each call of the model has a timeout of 90 seconds and
a transaction ends one way or the other; and `EffectsRun`, the same for the tasks
that follow an order. Nothing obliges an upload, a round or a restart. Under it
`EveryJobEnds` shows that retries come to an end whatever the model answers, and
`SuggestionsAreCredited` that every round's task does its part.

Fairness in `desk` (`FairSpec` of `Orders`): a guest that waits for a lock gets it if
it is free again and again (PostgreSQL queues lock waiters, hence strong
fairness), a started staff transaction ends, a sweep that has read writes.
Nobody is obliged to send a request, tap or look. Failures remain possible but
are never obliged. `EveryTransactionEnds` says that a request past its checks is
answered and a sweep finishes, whatever the others hold.

Each property of a passing run has a mutant in `PROJECT.json`: an operator with
a plausible bug (no `FOR UPDATE`, a number that forgets the day, a whole-row
UPDATE) under which TLC finds the property violated.

## 4. Proofs

`OrdersProofs` (any requests, places, keys, staff, sweepers, any clock; the
assumptions are `RequestAssumption`, of which finiteness is used for the number
range, and `ClockAssumption`):

- `TypeCorrect`: `Spec => []TypeOK`, through `TypeInv`, which adds that held
  rows and append targets exist.
- `ReadsStayTrue`: `Spec => [](TypeInv /\ ReadsHold)`, the inductive invariant.
  None of the three safety properties is inductive alone: that an insert leaves
  one open ticket depends on the insert's holder having seen none and on nobody
  else holding the venue; that a bill is complete depends on the items read
  being the items stored. `ReadsHold` says just that: each lock has one holder,
  what the holder read still holds, and an unanswered request has no ticket.
- `OneTicket`, `BillCorrect`, `NumberFree`: the safety properties of run `place`
  from it.

`OrderStepsProofs` goes on from `ReadsHold` to steps:

- `TicketsAreABook`: `Spec => ImplementsBook`. `BookInv` adds that an unanswered
  request has put nothing on any ticket. A guest's commit, a staff commit and a
  sweep's write are each one step of the book on the ticket *as it is stored then*,
  although the code computed them from what it read earlier; everything else
  stutters.
- `LifecycleFollowed`, `OnlyAppendsRevive`: a staff step starts from the row
  whose lock it holds, so it takes a legal path; the only write that is computed from
  a status somebody else may have changed is the append's.
- `YoungTicketsSpared`: what the sweep has listed is old and stays so (`SweptAreOld`),
  since the clock runs on and nothing rewrites the time a ticket was created.
- `NumbersRunOn`: `Spec => []NumbersHaveNoGap`, since the number read under the venue
  lock is still the next one when the ticket is inserted and no row disappears.
- `KeysForgottenOnlyForAnother`: `Spec => OnlyAnotherKeyForgets`, the bounds of what runs
  `retry` and `rekeyed` show. A ticket holds the key of a round it took or took one
  with another key (`KeyKept`), so a retry passes for new only after that, or
  when it was looked up before the first request committed. The property is stated in
  this module and proved only.

`SubscriptionProofs` (any sessions, request ids, deadlines; `PlanAssumption`,
`OperationAssumption`):

- `TypeCorrect`: rows stay well typed although saves mix columns of two copies.
- `TrialSpent`: `Spec => []ApprovalSpendsTrial`. The invariant `TrialInv` says
  that a row with Pro has its trial marked, that Pro is never scheduled, and that
  no session holds a copy that claims a mark the table lacks. Every operation
  `Follows` its input (keeps both, forgets no mark), and `MergedFollows` carries
  that over a stale save.
- `TermsEnd`, `PaymentHolds`, `WaitersAreBasic`, `NothingLost`, `TrialOnceAndWhole`: the
  properties of run `plan`, for any requests and deadlines, *assuming* `Alone`:
  there is one session. They need it, as run `paid` shows. With one session a
  copy is the row (`StillHolds`), so it is enough that each operation takes a row
  that is sound at its time (`SoundAt`) to a sound one (`StepOutcome` lists
  what a step makes of the row). `AloneInv` adds that one request waits at most and
  that it waits on a Basic row.

`AccessProofs` (any accounts, requests, tokens and operations;
`AccessAssumption`):

- `AccessTypeCorrect`: `AccessSpec => []AccessTypeOK`.
- `OneDeviceHolds`: `AccessSpec => []OneDevice`. `OneDevice` is not inductive: that a
  sign-in leaves one token depends on the tokens it read being all there are when
  it writes, and that a rotation does on the session id it loaded. `AccessInv` adds
  that an undisturbed account has one request at work (`Alone`), that such a
  request's reads still hold (`WorkIsSound`), that a request revokes only tokens of
  its own account (`SeesItsOwn`, which keeps a disturbed account from disturbing
  another), and that tokens belong to accounts that exist (`TokensOwned`, so a
  sign-up finds none). `MintKeeps` is the argument for the three steps that mint,
  `EditKeeps` for those that do not.

- `LockedIsShutOut`: `AccessSpec => LockedNeverMints`. `LockInv` carries what a
  request saw of its account to the step that mints: a switch finds the account it
  loaded, and a sign-in or a checked rotation whose account no other request
  touched still finds it open. `LockStep` reduces a step to what it does to its own
  request.
- `ToldOnce`: `AccessSpec => []WaitlistToldOnce`. Between the message and the note
  stand two commits; `ToldInv` says that a message sent is noted or that the request
  which sent it is about to note it, and that a request about to send finds none.

`MigrationsProofs` (any containers, scripts and starts, whatever the scripts add,
drop, need and clash with as long as the files fit one another;
`MigrationAssumption`):

- `SchemaKept`: `MigrationSpec => []SchemaIsWhole`. `SchemaInv` holds under any overlap:
  what a container believes of the schema (`Sound`: the scripts it has put behind it
  ran, and it saw the first one only if it ran) survives the others, and a
  script that runs again takes out nothing that should be there (`RunAgain`). That
  there is nothing else either needs one container at a time: `AloneInv` says
  that such a container has left exactly what is not recorded and that at most its
  next script has run beyond the record, so a script is the last of those that ran
  whenever it runs, once or twice (`NextAlone`, `RunNext`).
- `RefusalExplained`: `MigrationSpec => []RefusalHasACause`. Without a cut and without
  company at most the script about to be recorded, or the first schema about to be
  adopted, has run unrecorded (`CauseInv`), so the next one finds what the files
  promise it, and only the platform can fail it (`OnlyThePlatform`).

`SumLemmas` says what the sums of `Bill` and `Menu` are: `SumFunction` over a finite set of
integers is an integer, and a natural number if the terms are. The library's
fold is a recursive function on sets picked by `CHOOSE`, and the induction theorems
cannot be cited, so `SumsExist` and `SumIsOne` take a smallest set for which the claim
would fail (`NoneFails`, `LeastSubset`, from the well-foundedness of the subset order),
which is the same induction stated for one property at a time.

`MenuProofs` (any sessions, names, sheets, rows and jobs; `MenuAssumption`,
`JobAssumption`):

- `CategoriesDistinct`: `MenuSpec => []CategoriesStayDistinct`. The property is not
  inductive: that a commit adds no second shown category of a name depends on what
  the request saw when it read. `MenuInv` adds that rows are numbered without a gap and
  dishes lie in listed categories (`InOrder`), that a new dish goes to a category that is
  listed or comes with it (`Housed`), that until something blurs the names not even a
  hidden category shares its name and spelling with another (`Distinct`: a property of
  shown ones alone would break when one is shown again), and that what a request
  inserts is new, for a seeded default up to odd spellings (`NewNames`), unless its read
  is stale. A commit makes the others stale exactly when it changed the categories.
  `CommitKeeps` is the step that writes; `EditCategoryKeeps` the rename that blurs.
- `ImportsShow`, `ImportsRepeat`: `MenuSpec => []ImportedDishesShow`,
  `MenuSpec => []ImportIsIdempotent`. Both follow from what one import leaves behind
  (`Settled`, by `ImportSettles`): for every row the *last* category of its name exists
  and is shown, and the *first* dish of its name in it exists and is available. That
  covers a name that occurs twice, hidden categories and dishes that were
  renamed into it; a second import of a settled sheet has nothing to change
  (`NothingToImport`), and applying no change leaves the tables as they are
  (`NothingApplied`).
- `MenuTypeCorrect`: `MenuSpec => []MenuTypeOK`.
- `JobsAreHonest`: `KitchenSpec => []JobsTellTheTruth`. `JobsInv` relates a task to its job
  and to what it committed at every point of its way: an import that has not yet
  committed is in no history, one on its way to report "done" is, one on its way
  to report "failed" is not, and a job with an outcome has no task left.
- `JobsTypeCorrect`: `KitchenSpec => []JobsTypeOK`.
- `KitchenKeepsMenu`: `KitchenSpec => MenuSpec`. An import task is a session on the menu, a
  restart is a loss of all transactions, everything else a job does is a stutter
  of the menu; the three theorems about the menu therefore hold beside jobs.

`RestaurantProofs` (any devices, tables, calls, codes, meals, prices, offers, rounds, phones,
limit, window and clock; the assumptions of the modules):

- `LooksHoldAlways`, `LimitHolds`: an errand that was never open twice is open
  on one device (`OneErrand`), so what that device looked at still holds when
  it commits (`RingHolds`, `AnswerHolds`, `SignHolds`, `CodeHolds`, `RateHolds`); and the
  unique indexes keep the calls of a table and the review codes to one whoever
  looked when.
- `BillsAddUp`: `BillSpec => []BillAddsUp`, for prices that may be negative. A coupon that
  applies takes off something between nothing and the subtotal (`DiscountIsCapped`),
  and a later round keeps lines charged at their price (`MergedIsCharged`); it may take the
  bill down, and that the discount stays within it is then what
  `ck_orders_total_nonneg` accepts.
- `CreditedOnce`: `EventsSpec => []AttributedOnce`. Until two tasks held one dish, what
  a task is about to credit has been credited by nobody (`CreditInv`).
- `NoWindowOverflows`: `LimitSpec => []WindowHolds`. Arrivals are in order, and what
  left the deque lies more than a window back; so when a request passes, the
  entry `Limit` before it has left the deque.
- `EventsTypeCorrect`, `FloorTypeCorrect`, `BillTypeCorrect`, `MigrationTypeCorrect`,
  `LimitTypeCorrect`: the types. Two need more than a look at each step: the number of credits of a
  dish is bounded by the rounds whose task has answered for it (`EventsInv`), and
  a rating's ticket is a served one.
- `PartsRunAlone`: `RestaurantSpec` implies the specification of every part. A step of
  one part is a stutter of the others, so what is proved of each holds of all,
  side by side.
- `VenueTypeCorrect`: `RestaurantSpec => []VenueTypeOK`, from the two above.

Every safety invariant and action property that a passing run checks is a
theorem. Only model-checked are the three liveness properties, `EveryTransactionEnds`,
`EveryJobEnds` and `SuggestionsAreCredited`: they rest on fairness, whose ENABLED is
out of the prover's reach. The properties of run `plan` are proved for one session
only, which they need.

## 5. What the code does not keep

- `terminal`: enums.py says "Terminal states cannot transition further."; an
  append that read SERVED before staff completed the ticket puts it back to
  PREPARING. It is the only way out of the terminal states
  (`OnlyOverlappingAppendRevives` passes). Between them there is another: the sweep's
  UPDATE does not test the status again, so it can turn a ticket that staff cancelled
  or rejected since its read into a completed one (order.py:485).
- `touched`: repositories/order.py says that `updated_at` keeps a table "still
  adding items out of the sweep"; the sweep's UPDATE does not test it again.
- `retry`, `rekeyed`: README.md says that creation supports `Idempotency-Key`;
  the key is looked up before the lock, and a ticket remembers only the key of
  its last round, so a retry can add its items twice. It happens in no other way
  (`KeysForgottenOnlyForAnother`).
- `paid`: subscription.py says "A saved method resolves a lapsed state
  immediately"; a dashboard read that loaded the row earlier saves the lapse over
  the payment, and the venue stays lapsed until it saves the method again.

The same stale saves also break, with two sessions, the other properties of run
`plan`: that run shows what holds when operations do not overlap.

The other properties say what the code keeps without a lock. What it does not
keep, and the history variables name, is:

- Two requests on one account: two refreshes of one token, or a refresh beside a
  sign-in, leave two live refresh tokens (`disturbed` in `Access`). A request under
  way when an administrator locks the account still mints; the token is refused
  while the account is locked.
- `update_staff` locks an account and revokes nothing, `set_user_active` revokes;
  `refresh` and `get_current_user` look at the switch, so both hold.
- Of two rings of one table at once, or of two first reads of the review code, the
  second insert meets a unique index. Nothing in `create_public` or
  `get_or_create_review_qr_for` expects it, so that request fails instead of
  returning the row that is there (waiter_call.py:48, qr.py:136). Two staff who
  acknowledge one call at once both succeed and both announce it. Two table codes made
  at once pass the table limit.
- Two imports at once add their dishes twice; renaming a category onto a taken
  name is not refused (`update_category`), unlike creating one.
- Renaming "Main Course" to "Main  Course", or any default to a spelling that only
  `create_category` takes for it, makes the next dashboard read seed a second
  "Main Course" beside it: the two comparisons of names differ (`odd` in `Menu`).
- A variant may lower the price of its dish below nothing. Such a line counts against
  the rest of the bill, and an order that comes out negative fails on
  `ck_orders_total_nonneg` with an unexpected error.
- A pruned job that still runs commits its dishes and its owner is told that the
  job is not found.
- A crash between a script and its stamp runs the script again. `20260819200000_platform_role.sql:16`
  and `20260821190000_order_daily_numbers.sql:17-19` cannot run twice: every later
  start fails (`refused` in `Migrations`) until somebody stamps by hand.
- A container that listed its pending scripts before another one finished runs some
  of them again: `20260819120000_plans_offers_analytics.sql:21-22` brings back `cost_price`, which
  `20260819160000_drop_cost_price.sql:4` dropped, and `20260816172000_waitlist_phone_super_admin.sql:4`
  brings back `is_super_admin`, which `20260819200000_platform_role.sql:28` dropped. The
  schema is then that of no prefix of the files (`together` in `SchemaIsWhole`).
- The database of `docker-compose.yml` is plain PostgreSQL and has no `storage.buckets`, which
  `20260820090000_venue_logo_bucket.sql:8` inserts into: there the first start fails on that
  script, and every restart does (`Platform` in `RefusalHasACause`).
- Two rounds of one ticket whose tasks overlap credit one suggestion twice; a
  restart, or an error that is swallowed, credits it never.

## 6. Plan

Done: the order desk, the plan row, access, the menu with its jobs, migrations,
the floor, bills, ticket events, the rate window. Next:

1. Proofs: what a stale sweep does when nobody writes between its read and its write.
2. `Floor` over the tickets of `Orders` and the plan of `Subscription` in place of
   its free switches.
3. Publishing of a venue and its readiness test.

## 7. Not modelled

- Guest sessions: one insert and an expiry test before the venue lock, which
  `Orders` takes as a refusal that may happen at any check.
- Venue edits, publishing, slugs and offers: single-row writes; slugs have a
  unique index. Where others depend on them (`venue` in `Floor`, `Offers` in `Bill`)
  they change freely.
- The completion event, realtime emits and the events guests log: rows and
  messages nothing checks.
- The connection pool: a request that waits for it or times out is a failed one.
- Reports (`analytics.py` summaries, `platform_analytics`): read-only SQL.
- Storage, outreach, the identity provider, sockets: thin clients; what they
  answer is a choice of the models that use them.
- Configuration, logging, errors, payload shapes, seed data: no state.
