------------------------------- MODULE Orders -------------------------------
(***************************************************************************)
(* The ticket table of one venue: app/services/order.py over               *)
(* app/repositories/order.py and app/models/order.py.                      *)
(*                                                                         *)
(* Guests place requests, staff move tickets, dashboard reads sweep stale  *)
(* ones.  Each is a PostgreSQL transaction at READ COMMITTED, cut here     *)
(* where another session can be seen in between: at the idempotency lookup *)
(* before any lock, at the SELECT ... FOR UPDATE, and at the commit.       *)
(* A guest holds the restaurant row from lock to commit; staff hold one    *)
(* order row; the sweep locks nothing until it writes.                     *)
(*                                                                         *)
(* A ticket is named by the request that created it.  Its items are the    *)
(* set of requests whose lines were added; `billed' is the set the stored  *)
(* subtotal was summed over.  Every lock, key and number is per venue, so  *)
(* one venue is modelled.                                                  *)
(***************************************************************************)
EXTENDS Integers, FiniteSets, Sequences, SequencesExt

CONSTANTS
    Requests,    \* POST /orders requests, retries included
    Places,      \* tables and rooms
    Keys,        \* Idempotency-Key values
    NoKey,       \* the header is absent
    NoOrder,     \* no ticket read or returned
    PlaceOf,     \* [Requests -> Places], the place of the guest session
    KeyOf,       \* [Requests -> Keys \cup {NoKey}]
    Staff,       \* concurrent staff requests on an order
    Sweepers,    \* concurrent dashboard or session reads that sweep
    StaleAfter,  \* STALE_ORDER_HOURS in clock ticks
    DayLength,   \* clock ticks in a venue day
    MaxTime      \* bound on the clock

ASSUME RequestAssumption ==
    /\ PlaceOf \in [Requests -> Places]
    /\ KeyOf \in [Requests -> Keys \cup {NoKey}]
    /\ NoKey \notin Keys
    /\ NoOrder \notin Requests
    /\ IsFiniteSet(Requests)

ASSUME ClockAssumption ==
    /\ StaleAfter \in Nat
    /\ DayLength \in Nat \ {0}
    /\ MaxTime \in Nat

VARIABLES
    orders,   \* the orders table
    history,  \* order_status_history, per ticket, in commit order
    guest,    \* the transaction of each guest request
    staff,    \* the transaction of each staff request
    sweep,    \* the transaction of each sweeping read
    now       \* the database and server clock

vars == <<orders, history, guest, staff, sweep, now>>

-----------------------------------------------------------------------------
(* Statuses and the staff-driven lifecycle. *)

Terminal == {"COMPLETED", "REJECTED", "CANCELLED"}
Active == {"PENDING", "ACCEPTED", "PREPARING", "READY", "SERVED"}
OrderStatus == Active \cup Terminal

StatusTransitions ==
    [PENDING   |-> {"ACCEPTED", "REJECTED", "CANCELLED"},
     ACCEPTED  |-> {"PREPARING", "CANCELLED"},
     PREPARING |-> {"READY", "CANCELLED"},
     READY     |-> {"SERVED", "CANCELLED"},
     SERVED    |-> {"COMPLETED"},
     COMPLETED |-> {},
     REJECTED  |-> {},
     CANCELLED |-> {}]

HappyPath ==
    <<"PENDING", "ACCEPTED", "PREPARING", "READY", "SERVED", "COMPLETED">>

\* HAPPY_PATH.index
PathIndex(s) == CHOOSE i \in DOMAIN HappyPath : HappyPath[i] = s

\* The statuses passed through from current to target; empty when target is
\* not ahead of current on the happy path.
PathBetween(current, target) ==
    IF {current, target} \subseteq Range(HappyPath)
    THEN [i \in 1 .. PathIndex(target) - PathIndex(current) |->
             HappyPath[PathIndex(current) + i]]
    ELSE <<>>

-----------------------------------------------------------------------------
(* Rows and transactions. *)

NoStatus == "NONE"      \* no row yet, or nothing read

Ticket == [status : OrderStatus \cup {NoStatus},
           key    : Keys \cup {NoKey},
           day    : Nat,
           number : Nat,
           lines  : SUBSET Requests,
           billed : SUBSET Requests,
           createdAt : Nat,
           updatedAt : Nat]

HistoryRow == [old : OrderStatus \cup {NoStatus}, new : OrderStatus,
               by : {"guest", "staff", "sweep"}]

GuestPhase == {"idle", "checked", "create", "append", "done"}

GuestTxn == [phase  : GuestPhase,
             begun  : Nat,                        \* now() of the transaction
             target : Requests \cup {NoOrder},    \* the open ticket read
             seen   : OrderStatus \cup {NoStatus},\* its status when read
             base   : SUBSET Requests,            \* its items when read
             day    : Nat,
             number : Nat,
             reply  : {"none", "created", "items", "existing", "error"}]

StaffTxn == [holding : BOOLEAN, order : Requests \cup {NoOrder}, begun : Nat,
             seen : OrderStatus \cup {NoStatus}]

SweepTxn == [writing : BOOLEAN, begun : Nat,
             stale : [Requests -> OrderStatus \cup {NoStatus}]]

NoTicket == [status |-> NoStatus, key |-> NoKey, day |-> 0, number |-> 0,
             lines |-> {}, billed |-> {}, createdAt |-> 0, updatedAt |-> 0]

Exists(o) == orders[o].status # NoStatus
IsOpen(o) == orders[o].status \in Active
Today == now \div DayLength

\* Mutant: the venue row is read without FOR UPDATE.
NoVenueLock == TRUE

\* The venue row is locked from GuestLock to the end of the transaction.
VenueLockFree == \A q \in Requests : guest[q].phase \notin {"create", "append"}

\* Mutant: the order row is read without FOR UPDATE.
NoRowLock(o) == TRUE

\* An order row is locked from StaffLock to the end of the transaction.
RowLockFree(o) == \A s \in Staff : ~(staff[s].holding /\ staff[s].order = o)

\* get_by_idempotency_key
HoldsKey(o, k) == k # NoKey /\ Exists(o) /\ orders[o].key = k

\* Mutant: max(order_number) forgets the service day.
NumberAcrossDays(n, d) ==
    /\ \A o \in Requests : Exists(o) => orders[o].number < n
    /\ n = 1 \/ \E o \in Requests : Exists(o) /\ orders[o].number + 1 = n

\* n is max(order_number) + 1 over the tickets of day d.
IsNextNumber(n, d) ==
    /\ \A o \in Requests : Exists(o) /\ orders[o].day = d => orders[o].number < n
    /\ \/ n = 1
       \/ \E o \in Requests :
             Exists(o) /\ orders[o].day = d /\ orders[o].number + 1 = n

\* Mutant: a served ticket no longer counts as open.
ServedIsClosed(o, p) ==
    /\ IsOpen(o) /\ PlaceOf[o] = p /\ orders[o].status # "SERVED"
    /\ \A q \in Requests :
          IsOpen(q) /\ PlaceOf[q] = p => orders[q].createdAt <= orders[o].createdAt

\* get_open_for_place: the latest open ticket of the place.
IsOpenForPlace(o, p) ==
    /\ IsOpen(o) /\ PlaceOf[o] = p
    /\ \A q \in Requests :
          IsOpen(q) /\ PlaceOf[q] = p => orders[q].createdAt <= orders[o].createdAt

\* Mutant: the sweep looks at updated_at alone.
StaleByUpdateOnly(o) == IsOpen(o) /\ orders[o].updatedAt + StaleAfter < now

\* list_stale_active
IsStale(o) ==
    /\ IsOpen(o)
    /\ orders[o].createdAt + StaleAfter < now
    /\ orders[o].updatedAt + StaleAfter < now

IdleGuest ==
    [phase |-> "idle", begun |-> 0, target |-> NoOrder, seen |-> NoStatus,
     base |-> {}, day |-> 0, number |-> 0, reply |-> "none"]

IdleStaff == [holding |-> FALSE, order |-> NoOrder, begun |-> 0,
              seen |-> NoStatus]

\* Mutant: the list of stale tickets is reset to an empty map.
ForgottenSweep == [writing |-> FALSE, begun |-> 0, stale |-> <<>>]

IdleSweep == [writing |-> FALSE, begun |-> 0,
              stale |-> [o \in Requests |-> NoStatus]]

Init ==
    /\ orders = [o \in Requests |-> NoTicket]
    /\ history = [o \in Requests |-> <<>>]
    /\ guest = [r \in Requests |-> IdleGuest]
    /\ staff = [s \in Staff |-> IdleStaff]
    /\ sweep = [w \in Sweepers |-> IdleSweep]
    /\ now = 0

-----------------------------------------------------------------------------
(* create_order, up to the venue lock. *)

Answer(r, reply, o) ==
    guest' = [guest EXCEPT ![r] = [IdleGuest EXCEPT !.phase = "done",
                                                       !.reply = reply,
                                                       !.target = o]]

\* The key already names a ticket: return it.
GuestReplay(r) ==
    /\ guest[r].phase = "idle"
    /\ \E o \in Requests : HoldsKey(o, KeyOf[r]) /\ Answer(r, "existing", o)
    /\ UNCHANGED <<orders, history, staff, sweep, now>>

\* Venue, serving state, session, menu or coupon turns the request down.  None
\* of these is read again under the lock.
GuestRefuse(r) ==
    /\ guest[r].phase = "idle"
    /\ Answer(r, "error", NoOrder)
    /\ UNCHANGED <<orders, history, staff, sweep, now>>

\* The key is unknown and the request is valid: items are built and priced.
GuestCheck(r) ==
    /\ guest[r].phase = "idle"
    /\ \A o \in Requests : ~HoldsKey(o, KeyOf[r])
    /\ guest' = [guest EXCEPT ![r] = [@ EXCEPT !.phase = "checked",
                                               !.begun = now]]
    /\ UNCHANGED <<orders, history, staff, sweep, now>>

\* SELECT restaurants ... FOR UPDATE, then the open ticket of the place or the
\* next ticket number of the day.  Both only change under this lock.
GuestLock(r) ==
    /\ guest[r].phase = "checked"
    /\ VenueLockFree
    /\ \/ \E o \in Requests :
             /\ IsOpenForPlace(o, PlaceOf[r])
             /\ guest' = [guest EXCEPT ![r] =
                          [@ EXCEPT !.phase = "append", !.target = o,
                                    !.seen = orders[o].status,
                                    !.base = orders[o].lines]]
       \/ /\ \A o \in Requests : ~IsOpenForPlace(o, PlaceOf[r])
          /\ \E n \in 1 .. Cardinality(Requests) :
                /\ IsNextNumber(n, Today)
                /\ guest' = [guest EXCEPT ![r] =
                             [@ EXCEPT !.phase = "create", !.day = Today,
                                       !.number = n]]
    /\ UNCHANGED <<orders, history, staff, sweep, now>>

-----------------------------------------------------------------------------
(* create_order and _append_to_order, the commit. *)

\* uq_orders_restaurant_idempotency and uq_orders_restaurant_day_number reject
\* the row r is about to write.
KeyTaken(r, mine) == \E o \in Requests \ {mine} : HoldsKey(o, KeyOf[r])
NumberTaken(r) ==
    \E o \in Requests : /\ Exists(o)
                        /\ orders[o].day = guest[r].day
                        /\ orders[o].number = guest[r].number

ViolatesUnique(r) ==
    \/ guest[r].phase = "create" /\ (KeyTaken(r, r) \/ NumberTaken(r))
    \/ guest[r].phase = "append" /\ KeyTaken(r, guest[r].target)

GuestCreate(r) ==
    /\ guest[r].phase = "create"
    /\ ~ViolatesUnique(r)
    /\ orders' = [orders EXCEPT ![r] =
                    [status |-> "PENDING", key |-> KeyOf[r],
                     day |-> guest[r].day, number |-> guest[r].number,
                     lines |-> {r}, billed |-> {r},
                     createdAt |-> guest[r].begun, updatedAt |-> guest[r].begun]]
    /\ history' = [history EXCEPT ![r] =
                    <<[old |-> NoStatus, new |-> "PENDING", by |-> "guest"]>>]
    /\ Answer(r, "created", r)
    /\ UNCHANGED <<staff, sweep, now>>

\* Mutant: adding items always sends the ticket back to the kitchen.
AlwaysReopens(r) == TRUE

\* The UPDATE writes only the columns the session changed: the status, decided
\* from the status read under the venue lock, only when the ticket was READY or
\* SERVED then; the subtotal, summed over the items read then; the key, if any.
Reopens(r) == guest[r].seen \in {"READY", "SERVED"}

Extended(r, ticket) ==
    [ticket EXCEPT !.lines  = @ \cup {r},
                   !.billed = guest[r].base \cup {r},
                   !.key    = IF KeyOf[r] = NoKey THEN @ ELSE KeyOf[r],
                   !.status = IF Reopens(r) THEN "PREPARING" ELSE @,
                   !.updatedAt = guest[r].begun]

GuestAppend(r) ==
    LET o == guest[r].target IN
    /\ guest[r].phase = "append"
    /\ RowLockFree(o)
    /\ ~ViolatesUnique(r)
    /\ orders' = [orders EXCEPT ![o] = Extended(r, @)]
    /\ history' = [history EXCEPT ![o] =
                    IF Reopens(r)
                    THEN Append(@, [old |-> guest[r].seen, new |-> "PREPARING",
                                    by |-> "guest"])
                    ELSE @]
    /\ Answer(r, "items", o)
    /\ UNCHANGED <<staff, sweep, now>>

\* IntegrityError: roll back, then answer with the ticket the key names if it
\* still names one, else ORDER_CONFLICT.
GuestConflict(r) ==
    /\ ViolatesUnique(r)
    /\ \/ \E o \in Requests : HoldsKey(o, KeyOf[r]) /\ Answer(r, "existing", o)
       \/ Answer(r, "error", NoOrder)
    /\ UNCHANGED <<orders, history, staff, sweep, now>>

\* The worker, the connection or a check constraint fails before the commit.
GuestAbort(r) ==
    /\ guest[r].phase \in {"checked", "create", "append"}
    /\ Answer(r, "error", NoOrder)
    /\ UNCHANGED <<orders, history, staff, sweep, now>>

-----------------------------------------------------------------------------
(* Staff: _transition (accept, reject, status) and advance_to. *)

\* SELECT orders ... FOR UPDATE, then load the ticket.
StaffLock(s) ==
    /\ ~staff[s].holding
    /\ \E o \in Requests :
          /\ Exists(o)
          /\ RowLockFree(o)
          /\ staff' = [staff EXCEPT ![s] = [holding |-> TRUE, order |-> o,
                                            begun |-> now,
                                            seen |-> orders[o].status]]
    /\ UNCHANGED <<orders, history, guest, sweep, now>>

Release(s) == staff' = [staff EXCEPT ![s] = IdleStaff]

\* Write one history row per hop of path and leave the ticket at its end.
StaffWrite(s, path) ==
    LET o == staff[s].order
        From(i) == IF i = 1 THEN staff[s].seen ELSE path[i - 1]
    IN
    /\ orders' = [orders EXCEPT ![o] =
                    [@ EXCEPT !.status = Last(path), !.updatedAt = staff[s].begun]]
    /\ history' = [history EXCEPT ![o] = @ \o
                    [i \in DOMAIN path |-> [old |-> From(i), new |-> path[i],
                                            by |-> "staff"]]]
    /\ Release(s)
    /\ UNCHANGED <<guest, sweep, now>>

StaffTransition(s) ==
    /\ staff[s].holding
    /\ staff[s].seen \notin Terminal
    /\ \E new \in StatusTransitions[staff[s].seen] : StaffWrite(s, <<new>>)

StaffAdvance(s) ==
    /\ staff[s].holding
    /\ staff[s].seen \notin Terminal
    /\ \E target \in OrderStatus :
          LET steps == PathBetween(staff[s].seen, target) IN
          /\ steps # <<>>
          /\ StaffWrite(s, steps)

\* Mutant: a refused tap leaves its transaction open.
RefuseWithoutRollback(s) == staff[s].holding /\ UNCHANGED vars

\* ORDER_TERMINAL, INVALID_TRANSITION, another tenant's ticket, or a lost
\* connection: the transaction rolls back.
StaffRefuse(s) ==
    /\ staff[s].holding
    /\ Release(s)
    /\ UNCHANGED <<orders, history, guest, sweep, now>>

-----------------------------------------------------------------------------
(* auto_close_stale, run by list_orders, stage_counts, get_open_for_session. *)

SweepRead(w) ==
    /\ ~sweep[w].writing
    /\ \E o \in Requests : IsStale(o)
    /\ sweep' = [sweep EXCEPT ![w] =
                    [writing |-> TRUE, begun |-> now,
                     stale |-> [o \in Requests |->
                        IF IsStale(o) THEN orders[o].status ELSE NoStatus]]]
    /\ UNCHANGED <<orders, history, guest, staff, now>>

Swept(w) == {o \in Requests : sweep[w].stale[o] # NoStatus}

SweepWrite(w) ==
    /\ sweep[w].writing
    /\ \A o \in Swept(w) : RowLockFree(o)
    /\ orders' = [o \in Requests |->
                    IF o \in Swept(w)
                    THEN [orders[o] EXCEPT !.status = "COMPLETED",
                                           !.updatedAt = sweep[w].begun]
                    ELSE orders[o]]
    /\ history' = [o \in Requests |->
                    IF o \in Swept(w)
                    THEN Append(history[o], [old |-> sweep[w].stale[o],
                                             new |-> "COMPLETED", by |-> "sweep"])
                    ELSE history[o]]
    /\ sweep' = [sweep EXCEPT ![w] = IdleSweep]
    /\ UNCHANGED <<guest, staff, now>>

SweepAbort(w) ==
    /\ sweep[w].writing
    /\ sweep' = [sweep EXCEPT ![w] = IdleSweep]
    /\ UNCHANGED <<orders, history, guest, staff, now>>

-----------------------------------------------------------------------------

Tick ==
    /\ now < MaxTime
    /\ now' = now + 1
    /\ UNCHANGED <<orders, history, guest, staff, sweep>>

GuestStep(r) ==
    \/ GuestReplay(r) \/ GuestRefuse(r) \/ GuestCheck(r) \/ GuestLock(r)
    \/ GuestCreate(r) \/ GuestAppend(r) \/ GuestConflict(r) \/ GuestAbort(r)

StaffStep(s) ==
    StaffLock(s) \/ StaffTransition(s) \/ StaffAdvance(s) \/ StaffRefuse(s)

SweepStep(w) == SweepRead(w) \/ SweepWrite(w) \/ SweepAbort(w)

Next ==
    \/ \E r \in Requests : GuestStep(r)
    \/ \E s \in Staff : StaffStep(s)
    \/ \E w \in Sweepers : SweepStep(w)
    \/ Tick

Spec == Init /\ [][Next]_vars

\* The event loop runs what it has started and PostgreSQL grants a row lock in
\* queue order, so a waiter that is let through again and again gets its turn.
\* Nobody is obliged to send a request, to tap a button or to open a page.
GuestProgress(r) ==
    GuestLock(r) \/ GuestCreate(r) \/ GuestAppend(r) \/ GuestConflict(r)
StaffProgress(s) == StaffTransition(s) \/ StaffAdvance(s) \/ StaffRefuse(s)

FairSpec ==
    /\ Spec
    /\ \A r \in Requests : SF_vars(GuestProgress(r))
    /\ \A s \in Staff : WF_vars(StaffProgress(s))
    /\ \A w \in Sweepers : SF_vars(SweepWrite(w))

-----------------------------------------------------------------------------
(* Properties. *)

\* Every variable has its type.
TypeOK ==
    /\ orders \in [Requests -> Ticket]
    /\ history \in [Requests -> Seq(HistoryRow)]
    /\ guest \in [Requests -> GuestTxn]
    /\ staff \in [Staff -> StaffTxn]
    /\ sweep \in [Sweepers -> SweepTxn]
    /\ now \in Nat

\* A table or room has at most one open ticket, although a late append may put
\* a ticket that was closed meanwhile back to PREPARING.
OneOpenTicketPerPlace ==
    \A o, q \in Requests :
        IsOpen(o) /\ IsOpen(q) /\ PlaceOf[o] = PlaceOf[q] => o = q

\* Between reading max(order_number) and inserting, nobody takes the number: a
\* guest is never sent ORDER_CONFLICT because of it.
NumberStaysFree ==
    \A r \in Requests : guest[r].phase = "create" => ~NumberTaken(r)

\* The kitchen numbers of a day are 1, 2, ... with no gap, aborted requests
\* and midnight included.
NumbersHaveNoGap ==
    \A o \in Requests : Exists(o) =>
        \A n \in 1 .. orders[o].number : \E q \in Requests :
            Exists(q) /\ orders[q].day = orders[o].day /\ orders[q].number = n

\* The stored subtotal is summed over exactly the items of the ticket, however
\* many guests add to it at once.
BillCoversItems ==
    \A o \in Requests : orders[o].billed = orders[o].lines

\* Why these hold: the inductive invariant the proofs use.  The venue lock has
\* one holder; what the holder read of its place, of the ticket's items and of
\* the day's numbers is still so; a row lock has one holder and the status it
\* read is still stored; a request has no ticket before its answer; a sweep only
\* holds tickets that exist.
HoldsVenue(r) == guest[r].phase \in {"create", "append"}

LocksExclude ==
    /\ \A q, r \in Requests : HoldsVenue(q) /\ HoldsVenue(r) => q = r
    /\ \A s, u \in Staff :
          staff[s].holding /\ staff[u].holding /\ staff[s].order = staff[u].order
            => s = u

UnansweredHasNoTicket ==
    \A r \in Requests : guest[r].phase # "done" => ~Exists(r)

CreateReadsHold ==
    \A r \in Requests : guest[r].phase = "create" =>
        \A o \in Requests :
            /\ IsOpen(o) => PlaceOf[o] # PlaceOf[r]
            /\ Exists(o) /\ orders[o].day = guest[r].day
                  => orders[o].number < guest[r].number

AppendReadsHold ==
    \A r \in Requests : guest[r].phase = "append" =>
        LET o == guest[r].target IN
        /\ o \in Requests
        /\ Exists(o)
        /\ PlaceOf[o] = PlaceOf[r]
        /\ orders[o].lines = guest[r].base
        /\ \A q \in Requests : IsOpen(q) /\ PlaceOf[q] = PlaceOf[r] => q = o

StaffReadsHold ==
    \A s \in Staff : staff[s].holding =>
        /\ staff[s].order \in Requests
        /\ Exists(staff[s].order)
        /\ staff[s].seen = orders[staff[s].order].status

SweptExist == \A w \in Sweepers : \A o \in Swept(w) : Exists(o)

ReadsHold ==
    /\ LocksExclude /\ CreateReadsHold /\ AppendReadsHold /\ StaffReadsHold
    /\ UnansweredHasNoTicket /\ SweptExist
    /\ OneOpenTicketPerPlace /\ BillCoversItems

\* Staff never act on a status another session has changed since: the rows a
\* staff transaction appends start from the stored status, follow the allowed
\* transitions hop by hop and end in the status it stores.
NewRows(o) == SubSeq(history'[o], Len(history[o]) + 1, Len(history'[o]))

StaffFollowLifecycle ==
    [][\A o \in Requests : LET rows == NewRows(o) IN
         (rows # <<>> /\ rows[1].by = "staff") =>
            /\ rows[1].old = orders[o].status
            /\ \A i \in DOMAIN rows : rows[i].new \in StatusTransitions[rows[i].old]
            /\ \A i \in 2 .. Len(rows) : rows[i].old = rows[i - 1].new
            /\ rows[Len(rows)].new = orders'[o].status]_vars

\* A closed ticket comes back only through a guest who read it while it was
\* READY or SERVED and still holds the venue lock; a request that locks after
\* the close never revives it.
OnlyOverlappingAppendRevives ==
    [][\A o \in Requests :
         (orders[o].status \in Terminal /\ orders'[o].status \notin Terminal) =>
            \E r \in Requests : guest[r].phase = "append" /\ guest[r].target = o
                                /\ guest[r].seen \in {"READY", "SERVED"}]_vars

\* The sweep closes no ticket created within the last StaleAfter.
SweepSparesYoungTickets ==
    [][\A o \in Requests : LET rows == NewRows(o) IN
         (rows # <<>> /\ rows[1].by = "sweep") =>
            orders[o].createdAt + StaleAfter < now]_vars

\* Every request that passed its checks is answered and every sweep that found
\* stale tickets finishes, though guests, staff and sweeps wait on each other's
\* locks.
EveryTransactionEnds ==
    /\ \A r \in Requests :
          guest[r].phase \in {"checked", "create", "append"} ~> guest[r].phase = "done"
    /\ \A w \in Sweepers : sweep[w].writing ~> ~sweep[w].writing

\* Seen from the venue, the interleaved transactions are atomic steps of the
\* ticket book: no request takes effect twice, halfway or at another table.
StaffMoves ==
    [s \in OrderStatus |->
        StatusTransitions[s] \cup {t \in OrderStatus : PathBetween(s, t) # <<>>}]

Book == INSTANCE TicketBook WITH
            Moves <- StaffMoves,
            book <- [o \in Requests |->
                        [status |-> orders[o].status, items |-> orders[o].lines]]

ImplementsBook == Book!BookSpec

(* What the documentation promises and the code does not keep. *)

\* enums.py: "Terminal states cannot transition further."
TerminalIsFinal ==
    [][\A o \in Requests :
         orders[o].status \in Terminal => orders'[o].status = orders[o].status]_vars

\* README: order creation "supports `Idempotency-Key`".  The items of two
\* requests with one key are never both added.
KeyAppliedOnce ==
    \A o, q \in Requests : \A a \in orders[o].lines, b \in orders[q].lines :
        KeyOf[a] = KeyOf[b] /\ KeyOf[a] # NoKey => a = b

\* The same promise for a guest who retries after the answer: a request is never
\* treated as new while a request with its key has already been accepted.
AcceptedKeyIsRecognised ==
    [][\A r, q \in Requests :
         (/\ guest[r].phase = "idle" /\ guest'[r].phase = "checked"
          /\ guest[q].reply \in {"created", "items"})
            => KeyOf[r] = NoKey \/ KeyOf[q] # KeyOf[r]]_vars

\* repositories/order.py: "``updated_at`` keeps a long table that is still
\* adding items out of the sweep."
SweepSparesTouchedTickets ==
    [][\A o \in Requests : LET rows == NewRows(o) IN
         (rows # <<>> /\ rows[1].by = "sweep") =>
            orders[o].updatedAt + StaleAfter < now]_vars
=============================================================================
