---------------------------- MODULE OrdersProofs ----------------------------
(***************************************************************************)
(* Theorems about Orders, for every set of requests, places, staff and     *)
(* sweeps and every clock.                                                 *)
(***************************************************************************)
EXTENDS Orders, TLAPS, SequenceTheorems, FiniteSetTheorems

-----------------------------------------------------------------------------
(* The happy path. *)

\* Every element of HappyPath has an index, and it is a status.
LEMMA PathIndexType ==
    ASSUME NEW s \in Range(HappyPath)
    PROVE  PathIndex(s) \in 1 .. 6
<1>1. PICK i \in DOMAIN HappyPath : HappyPath[i] = s
  BY DEF Range
<1>2. DOMAIN HappyPath = 1 .. 6
  BY DEF HappyPath
<1>. QED
  BY <1>1, <1>2 DEF PathIndex

\* path_between returns a sequence of statuses.
LEMMA PathBetweenType ==
    ASSUME NEW current, NEW target
    PROVE  PathBetween(current, target) \in Seq(OrderStatus)
<1>1. CASE {current, target} \subseteq Range(HappyPath)
  <2>1. PathIndex(current) \in 1 .. 6 /\ PathIndex(target) \in 1 .. 6
    BY <1>1, PathIndexType
  <2> DEFINE n == PathIndex(target) - PathIndex(current)
             m == IF n < 0 THEN 0 ELSE n
  <2>2. m \in Nat /\ 1 .. n = 1 .. m
    BY <2>1
  <2>3. \A i \in 1 .. n : HappyPath[PathIndex(current) + i] \in OrderStatus
    <3>1. \A j \in 1 .. 6 : HappyPath[j] \in OrderStatus
      BY DEF HappyPath, OrderStatus, Active, Terminal
    <3>. QED
      BY <2>1, <3>1
  <2>4. PathBetween(current, target) \in [1 .. m -> OrderStatus]
    BY <1>1, <2>2, <2>3 DEF PathBetween
  <2>. QED
    BY <2>2, <2>4
<1>2. CASE ~({current, target} \subseteq Range(HappyPath))
  BY <1>2 DEF PathBetween
<1>. QED
  BY <1>1, <1>2

\* A transition leads from a status to a status.
LEMMA TransitionType ==
    ASSUME NEW s \in OrderStatus
    PROVE  StatusTransitions[s] \subseteq OrderStatus
BY DEF StatusTransitions, OrderStatus, Active, Terminal

\* The venue day is a natural number.
LEMMA TodayType ==
    ASSUME now \in Nat
    PROVE  Today \in Nat
BY ClockAssumption DEF Today

-----------------------------------------------------------------------------
(* Rows keep their type when some of their columns are written. *)

\* What staff and the sweep write.
LEMMA MovedTicketType ==
    ASSUME NEW t \in Ticket, NEW status \in OrderStatus, NEW at \in Nat
    PROVE  [t EXCEPT !.status = status, !.updatedAt = at] \in Ticket
BY DEF Ticket

\* Moving a ticket changes its status and its date only.
LEMMA MovedTicketFields ==
    ASSUME NEW t \in Ticket, NEW status, NEW at
    PROVE  LET u == [t EXCEPT !.status = status, !.updatedAt = at] IN
           /\ u.status = status
           /\ u.lines = t.lines /\ u.billed = t.billed
           /\ u.day = t.day /\ u.number = t.number
BY DEF Ticket

\* "No row" is not a status.
LEMMA StatusIsReal == NoStatus \notin OrderStatus
BY DEF NoStatus, OrderStatus, Active, Terminal

\* What a guest transaction remembers at each of its steps.
LEMMA CheckedGuestType ==
    ASSUME NEW g \in GuestTxn, NEW at \in Nat
    PROVE  [g EXCEPT !.phase = "checked", !.begun = at] \in GuestTxn
BY DEF GuestTxn, GuestPhase

\* A guest who found the open ticket of the place.
LEMMA AppendingGuestType ==
    ASSUME NEW g \in GuestTxn, NEW o \in Requests,
           NEW status \in OrderStatus \cup {NoStatus}, NEW lines \in SUBSET Requests
    PROVE  [g EXCEPT !.phase = "append", !.target = o, !.seen = status,
                     !.base = lines] \in GuestTxn
BY DEF GuestTxn, GuestPhase

\* A guest who found none and has a number.
LEMMA CreatingGuestType ==
    ASSUME NEW g \in GuestTxn, NEW d \in Nat, NEW n \in Nat
    PROVE  [g EXCEPT !.phase = "create", !.day = d, !.number = n] \in GuestTxn
BY DEF GuestTxn, GuestPhase

\* What an append writes.
LEMMA ExtendedType ==
    ASSUME guest \in [Requests -> GuestTxn], NEW r \in Requests, NEW t \in Ticket
    PROVE  Extended(r, t) \in Ticket
<1> DEFINE lines == t.lines \cup {r}
           billed == guest[r].base \cup {r}
           key == IF KeyOf[r] = NoKey THEN t.key ELSE KeyOf[r]
           status == IF Reopens(r) THEN "PREPARING" ELSE t.status
           at == guest[r].begun
<1>1. lines \in SUBSET Requests /\ billed \in SUBSET Requests /\ at \in Nat
  BY DEF Ticket, GuestTxn
<1>2. key \in Keys \cup {NoKey}
  BY RequestAssumption DEF Ticket
<1>3. status \in OrderStatus \cup {NoStatus}
  <2>1. t.status \in OrderStatus \cup {NoStatus} /\ "PREPARING" \in OrderStatus
    BY DEF Ticket, OrderStatus, Active
  <2>. QED
    BY <2>1
<1>4. Extended(r, t) = [t EXCEPT !.lines = lines, !.billed = billed, !.key = key,
                                 !.status = status, !.updatedAt = at]
  BY DEF Extended
<1> HIDE DEF lines, billed, key, status, at
<1>5. [t EXCEPT !.lines = lines, !.billed = billed, !.key = key,
                !.status = status, !.updatedAt = at] \in Ticket
  BY <1>1, <1>2, <1>3 DEF Ticket
<1>. QED
  BY <1>4, <1>5

-----------------------------------------------------------------------------
(* Type correctness. *)

\* An answered request has a well-formed transaction record.
LEMMA AnswerType ==
    ASSUME TypeOK, NEW r \in Requests, NEW o \in Requests \cup {NoOrder},
           NEW reply \in {"none", "created", "items", "existing", "error"},
           Answer(r, reply, o)
    PROVE  guest' \in [Requests -> GuestTxn]
BY DEF TypeOK, Answer, IdleGuest, GuestTxn, GuestPhase, NoStatus

\* A staff transaction that ends is idle.
LEMMA ReleaseType ==
    ASSUME TypeOK, NEW s \in Staff, Release(s)
    PROVE  staff' \in [Staff -> StaffTxn]
BY DEF TypeOK, Release, IdleStaff, StaffTxn, NoStatus

\* Writing a non-empty path of statuses keeps the two tables well formed.
LEMMA StaffWriteType ==
    ASSUME TypeOK, NEW s \in Staff, NEW path \in Seq(OrderStatus), path # <<>>,
           staff[s].holding, staff[s].order \in Requests, StaffWrite(s, path)
    PROVE  TypeOK'
<1> DEFINE o == staff[s].order
           From(i) == IF i = 1 THEN staff[s].seen ELSE path[i - 1]
           rows == [i \in DOMAIN path |-> [old |-> From(i), new |-> path[i],
                                           by |-> "staff"]]
<1>1. /\ Len(path) \in Nat \ {0}
      /\ DOMAIN path = 1 .. Len(path)
      /\ \A i \in DOMAIN path : path[i] \in OrderStatus
      /\ Last(path) \in OrderStatus
  BY DEF Last
<1>2. rows \in Seq(HistoryRow)
  <2>1. \A i \in DOMAIN path : From(i) \in OrderStatus \cup {NoStatus}
    BY <1>1 DEF TypeOK, StaffTxn
  <2>2. \A i \in DOMAIN path : rows[i] \in HistoryRow
    BY <1>1, <2>1 DEF HistoryRow
  <2>3. rows \in [1 .. Len(path) -> HistoryRow]
    BY <1>1, <2>2
  <2>. QED
    BY <1>1, <2>3
<1>3. history[o] \o rows \in Seq(HistoryRow)
  BY <1>2 DEF TypeOK
<1>4. history' \in [Requests -> Seq(HistoryRow)]
  BY <1>3 DEF StaffWrite, TypeOK
<1>5. orders' \in [Requests -> Ticket]
  <2>1. staff[s].begun \in Nat /\ orders[o] \in Ticket
    BY DEF TypeOK, StaffTxn
  <2>2. [orders[o] EXCEPT !.status = Last(path),
                          !.updatedAt = staff[s].begun] \in Ticket
    BY <1>1, <2>1, MovedTicketType
  <2>. QED
    BY <2>2 DEF StaffWrite, TypeOK
<1>6. staff' \in [Staff -> StaffTxn]
  BY ReleaseType DEF StaffWrite
<1>. QED
  BY <1>4, <1>5, <1>6 DEF StaffWrite, TypeOK

\* A held row is the row of a ticket, and its status was read.
HeldRow ==
    \A s \in Staff : staff[s].holding =>
        staff[s].order \in Requests /\ staff[s].seen \in OrderStatus

\* An append has a ticket to add to.
AppendTarget ==
    \A r \in Requests : guest[r].phase = "append" => guest[r].target \in Requests

TypeInv == TypeOK /\ HeldRow /\ AppendTarget

\* The empty venue is well typed.
LEMMA InitTypeInv == Init => TypeInv
<1>1. <<>> \in Seq(HistoryRow)
  OBVIOUS
<1>. QED
  BY <1>1, RequestAssumption
     DEF Init, TypeInv, TypeOK, HeldRow, AppendTarget, Ticket, NoTicket,
         GuestTxn, GuestPhase, IdleGuest, StaffTxn, IdleStaff, SweepTxn,
         IdleSweep, NoStatus

\* A request that only ends keeps the types.
LEMMA AnswerTypeInv ==
    ASSUME TypeInv, NEW r \in Requests, NEW o \in Requests \cup {NoOrder},
           NEW reply \in {"none", "created", "items", "existing", "error"},
           Answer(r, reply, o), UNCHANGED <<orders, history, staff, sweep, now>>
    PROVE  TypeInv'
<1>1. guest' \in [Requests -> GuestTxn]
  BY AnswerType DEF TypeInv
<1>2. AppendTarget'
  BY DEF TypeInv, TypeOK, AppendTarget, Answer, IdleGuest
<1>. QED
  BY <1>1, <1>2 DEF TypeInv, TypeOK, HeldRow

\* Every step of a guest request keeps the types.
LEMMA GuestTypeInv ==
    ASSUME TypeInv, NEW r \in Requests, GuestStep(r)
    PROVE  TypeInv'
<1> USE RequestAssumption DEF TypeInv
<1>1. CASE GuestReplay(r)
  BY <1>1, AnswerTypeInv DEF GuestReplay
<1>2. CASE GuestRefuse(r)
  BY <1>2, AnswerTypeInv DEF GuestRefuse
<1>3. CASE GuestCheck(r)
  <2>1. [guest[r] EXCEPT !.phase = "checked", !.begun = now] \in GuestTxn
    BY CheckedGuestType DEF TypeOK
  <2>. QED
    BY <1>3, <2>1 DEF GuestCheck, TypeOK, HeldRow, AppendTarget
<1>4. CASE GuestLock(r)
  <2>1. Today \in Nat
    BY TodayType DEF TypeOK
  <2>2. 1 .. Cardinality(Requests) \subseteq Nat
    OBVIOUS
  <2>3. CASE \E o \in Requests :
             /\ IsOpenForPlace(o, PlaceOf[r])
             /\ guest' = [guest EXCEPT ![r] =
                          [@ EXCEPT !.phase = "append", !.target = o,
                                    !.seen = orders[o].status,
                                    !.base = orders[o].lines]]
    <3>1. PICK o \in Requests :
             guest' = [guest EXCEPT ![r] =
                          [@ EXCEPT !.phase = "append", !.target = o,
                                    !.seen = orders[o].status,
                                    !.base = orders[o].lines]]
      BY <2>3
    <3>2. [guest[r] EXCEPT !.phase = "append", !.target = o,
                           !.seen = orders[o].status,
                           !.base = orders[o].lines] \in GuestTxn
      BY AppendingGuestType DEF TypeOK, Ticket
    <3>3. guest' \in [Requests -> GuestTxn]
      BY <3>1, <3>2 DEF TypeOK
    <3>4. AppendTarget'
      BY <3>1 DEF TypeOK, AppendTarget, GuestTxn
    <3>. QED
      BY <1>4, <3>3, <3>4 DEF GuestLock, TypeOK, HeldRow
  <2>4. CASE \E n \in 1 .. Cardinality(Requests) :
                /\ IsNextNumber(n, Today)
                /\ guest' = [guest EXCEPT ![r] =
                          [@ EXCEPT !.phase = "create", !.day = Today,
                                    !.number = n]]
    <3>1. PICK n \in 1 .. Cardinality(Requests) :
             guest' = [guest EXCEPT ![r] =
                          [@ EXCEPT !.phase = "create", !.day = Today,
                                    !.number = n]]
      BY <2>4
    <3>2. [guest[r] EXCEPT !.phase = "create", !.day = Today,
                           !.number = n] \in GuestTxn
      BY <2>1, <2>2, CreatingGuestType DEF TypeOK
    <3>3. guest' \in [Requests -> GuestTxn]
      BY <3>1, <3>2 DEF TypeOK
    <3>4. AppendTarget'
      BY <3>1 DEF TypeOK, AppendTarget, GuestTxn
    <3>. QED
      BY <1>4, <3>3, <3>4 DEF GuestLock, TypeOK, HeldRow
  <2>. QED
    BY <1>4, <2>3, <2>4 DEF GuestLock
<1>5. CASE GuestCreate(r)
  <2>1. <<[old |-> NoStatus, new |-> "PENDING", by |-> "guest"]>> \in Seq(HistoryRow)
    BY DEF HistoryRow, OrderStatus, Active
  <2>2. guest' \in [Requests -> GuestTxn]
    BY <1>5, AnswerType DEF GuestCreate
  <2>3. orders' \in [Requests -> Ticket]
    BY <1>5 DEF GuestCreate, TypeOK, Ticket, GuestTxn, OrderStatus, Active
  <2>4. history' \in [Requests -> Seq(HistoryRow)]
    BY <1>5, <2>1 DEF GuestCreate, TypeOK
  <2>. QED
    BY <1>5, <2>2, <2>3, <2>4
       DEF GuestCreate, TypeOK, HeldRow, AppendTarget, Answer, IdleGuest
<1>6. CASE GuestAppend(r)
  <2> DEFINE o == guest[r].target
             row == [old |-> guest[r].seen, new |-> "PREPARING", by |-> "guest"]
  <2>1. o \in Requests
    BY <1>6 DEF GuestAppend, AppendTarget
  <2>2. row \in HistoryRow
    BY DEF HistoryRow, TypeOK, GuestTxn, OrderStatus, Active
  <2>3. Append(history[o], row) \in Seq(HistoryRow)
    BY <2>1, <2>2 DEF TypeOK
  <2>4. history' \in [Requests -> Seq(HistoryRow)]
    BY <1>6, <2>1, <2>3 DEF GuestAppend, TypeOK
  <2>5. orders' \in [Requests -> Ticket]
    <3>1. Extended(r, orders[o]) \in Ticket
      BY <2>1, ExtendedType DEF TypeOK
    <3>. QED
      BY <1>6, <2>1, <3>1 DEF GuestAppend, TypeOK
  <2>6. guest' \in [Requests -> GuestTxn]
    BY <1>6, <2>1, AnswerType DEF GuestAppend
  <2>. QED
    BY <1>6, <2>4, <2>5, <2>6
       DEF GuestAppend, TypeOK, HeldRow, AppendTarget, Answer, IdleGuest
<1>7. CASE GuestConflict(r)
  BY <1>7, AnswerTypeInv DEF GuestConflict
<1>8. CASE GuestAbort(r)
  BY <1>8, AnswerTypeInv DEF GuestAbort
<1>. QED
  BY <1>1, <1>2, <1>3, <1>4, <1>5, <1>6, <1>7, <1>8 DEF GuestStep

\* Every step of a staff tap keeps the types.
LEMMA StaffTypeInv ==
    ASSUME TypeInv, NEW s \in Staff, StaffStep(s)
    PROVE  TypeInv'
<1> USE DEF TypeInv
<1>1. CASE StaffLock(s)
  <2>1. PICK o \in Requests :
           /\ Exists(o)
           /\ staff' = [staff EXCEPT ![s] = [holding |-> TRUE, order |-> o,
                                             begun |-> now,
                                             seen |-> orders[o].status]]
    BY <1>1 DEF StaffLock
  <2>2. orders[o].status \in OrderStatus
    BY <2>1 DEF TypeOK, Ticket, Exists
  <2>3. staff' \in [Staff -> StaffTxn]
    BY <2>1, <2>2 DEF TypeOK, StaffTxn
  <2>4. HeldRow'
    BY <2>1, <2>2 DEF TypeOK, HeldRow
  <2>. QED
    BY <1>1, <2>3, <2>4 DEF StaffLock, TypeOK, AppendTarget
<1>2. CASE StaffTransition(s)
  <2>1. PICK new \in StatusTransitions[staff[s].seen] : StaffWrite(s, <<new>>)
    BY <1>2 DEF StaffTransition
  <2>2. staff[s].holding /\ staff[s].order \in Requests
    BY <1>2 DEF StaffTransition, HeldRow
  <2>3. new \in OrderStatus
    <3>1. staff[s].seen \in OrderStatus
      BY <2>2 DEF HeldRow
    <3>. QED
      BY <2>1, <3>1, TransitionType
  <2>4. TypeOK'
    <3>1. <<new>> \in Seq(OrderStatus) /\ <<new>> # <<>>
      BY <2>3
    <3>. QED
      BY <2>1, <2>2, <3>1, StaffWriteType
  <2>. QED
    BY <2>1, <2>4 DEF StaffWrite, Release, IdleStaff, HeldRow, AppendTarget, TypeOK
<1>3. CASE StaffAdvance(s)
  <2>1. PICK target \in OrderStatus :
           /\ PathBetween(staff[s].seen, target) # <<>>
           /\ StaffWrite(s, PathBetween(staff[s].seen, target))
    BY <1>3 DEF StaffAdvance
  <2>2. staff[s].holding /\ staff[s].order \in Requests
    BY <1>3 DEF StaffAdvance, HeldRow
  <2>3. TypeOK'
    BY <2>1, <2>2, PathBetweenType, StaffWriteType
  <2>. QED
    BY <2>1, <2>3 DEF StaffWrite, Release, IdleStaff, HeldRow, AppendTarget, TypeOK
<1>4. CASE StaffRefuse(s)
  BY <1>4, ReleaseType DEF StaffRefuse, Release, IdleStaff, TypeOK, HeldRow, AppendTarget
<1>. QED
  BY <1>1, <1>2, <1>3, <1>4 DEF StaffStep

\* Every step of a sweep keeps the types.
LEMMA SweepTypeInv ==
    ASSUME TypeInv, NEW w \in Sweepers, SweepStep(w)
    PROVE  TypeInv'
<1> USE DEF TypeInv
<1>1. CASE SweepRead(w)
  BY <1>1 DEF SweepRead, TypeOK, HeldRow, AppendTarget, SweepTxn, Ticket, NoStatus
<1>2. CASE SweepWrite(w)
  <2>1. orders' \in [Requests -> Ticket]
    <3>1. sweep[w].begun \in Nat /\ "COMPLETED" \in OrderStatus
      BY DEF TypeOK, SweepTxn, OrderStatus, Terminal
    <3>2. \A o \in Requests :
             [orders[o] EXCEPT !.status = "COMPLETED",
                               !.updatedAt = sweep[w].begun] \in Ticket
      BY <3>1, MovedTicketType DEF TypeOK
    <3>. QED
      BY <1>2, <3>2 DEF SweepWrite, TypeOK
  <2>2. \A o \in Requests : Append(history[o], [old |-> sweep[w].stale[o],
                              new |-> "COMPLETED", by |-> "sweep"]) \in Seq(HistoryRow)
    <3>1. \A o \in Requests : [old |-> sweep[w].stale[o], new |-> "COMPLETED",
                               by |-> "sweep"] \in HistoryRow
      BY DEF TypeOK, SweepTxn, HistoryRow, OrderStatus, Terminal
    <3>. QED
      BY <3>1 DEF TypeOK
  <2>3. history' \in [Requests -> Seq(HistoryRow)]
    BY <1>2, <2>2 DEF SweepWrite, TypeOK
  <2>4. sweep' \in [Sweepers -> SweepTxn]
    BY <1>2 DEF SweepWrite, TypeOK, SweepTxn, IdleSweep, NoStatus
  <2>. QED
    BY <1>2, <2>1, <2>3, <2>4 DEF SweepWrite, TypeOK, HeldRow, AppendTarget
<1>3. CASE SweepAbort(w)
  BY <1>3 DEF SweepAbort, TypeOK, HeldRow, AppendTarget, SweepTxn, IdleSweep, NoStatus
<1>. QED
  BY <1>1, <1>2, <1>3 DEF SweepStep

\* The types are inductive.
LEMMA NextTypeInv == TypeInv /\ [Next]_vars => TypeInv'
<1> SUFFICES ASSUME TypeInv, [Next]_vars
             PROVE  TypeInv'
  OBVIOUS
<1>1. CASE Tick
  BY <1>1 DEF Tick, TypeInv, TypeOK, HeldRow, AppendTarget
<1>2. CASE UNCHANGED vars
  BY <1>2 DEF vars, TypeInv, TypeOK, HeldRow, AppendTarget
<1>. QED
  BY <1>1, <1>2, GuestTypeInv, StaffTypeInv, SweepTypeInv DEF Next

\* Every variable has its type in every reachable state.
THEOREM TypeCorrect == Spec => []TypeOK
<1>1. Spec => []TypeInv
  BY InitTypeInv, NextTypeInv, PTL DEF Spec
<1>. QED
  BY <1>1, PTL DEF TypeInv

-----------------------------------------------------------------------------
(* What a transaction read stays so until it commits. *)

\* A step of staff or of a sweep opens no ticket, adds none and changes neither
\* items, subtotal nor number.
Quiet ==
    \A o \in Requests :
        /\ IsOpen(o)' => IsOpen(o)
        /\ Exists(o)' <=> Exists(o)
        /\ orders'[o].lines = orders[o].lines
        /\ orders'[o].billed = orders[o].billed
        /\ orders'[o].day = orders[o].day
        /\ orders'[o].number = orders[o].number

\* The parts of ReadsHold that speak of guests and tickets alone.
GuestReadsHold ==
    /\ \A q, r \in Requests : HoldsVenue(q) /\ HoldsVenue(r) => q = r
    /\ CreateReadsHold /\ AppendReadsHold /\ UnansweredHasNoTicket
    /\ OneOpenTicketPerPlace /\ BillCoversItems

StaffExclude ==
    \A s, u \in Staff :
        staff[s].holding /\ staff[u].holding /\ staff[s].order = staff[u].order
            => s = u

\* The invariant split by who can disturb it.
LEMMA ReadsHoldParts ==
    ReadsHold <=> GuestReadsHold /\ StaffExclude /\ StaffReadsHold /\ SweptExist
BY DEF ReadsHold, GuestReadsHold, StaffExclude, LocksExclude

\* A step that opens, fills and numbers no ticket keeps what guests have read.
LEMMA QuietKeepsGuestReads ==
    ASSUME GuestReadsHold, Quiet, UNCHANGED guest
    PROVE  GuestReadsHold'
<1>1. CreateReadsHold'
  BY DEF GuestReadsHold, Quiet, CreateReadsHold
<1>2. AppendReadsHold'
  BY DEF GuestReadsHold, Quiet, AppendReadsHold
<1>3. OneOpenTicketPerPlace'
  BY DEF GuestReadsHold, Quiet, OneOpenTicketPerPlace
<1>4. BillCoversItems'
  BY DEF GuestReadsHold, Quiet, BillCoversItems
<1>5. UnansweredHasNoTicket'
  BY DEF GuestReadsHold, Quiet, UnansweredHasNoTicket
<1>. QED
  BY <1>1, <1>2, <1>3, <1>4, <1>5 DEF GuestReadsHold, HoldsVenue

\* In the empty venue nobody has read anything.
LEMMA InitReadsHold == Init => ReadsHold
<1> SUFFICES ASSUME Init PROVE ReadsHold
  OBVIOUS
<1>1. /\ \A o \in Requests : ~IsOpen(o) /\ ~Exists(o)
      /\ \A o \in Requests : orders[o].billed = orders[o].lines
  BY DEF Init, NoTicket, IsOpen, Exists, Active, NoStatus
<1>2. \A r \in Requests : guest[r].phase = "idle"
  BY DEF Init, IdleGuest
<1>3. \A s \in Staff : ~staff[s].holding
  BY DEF Init, IdleStaff
<1>4. \A w \in Sweepers : Swept(w) = {}
  BY DEF Init, IdleSweep, Swept
<1>. QED
  BY <1>1, <1>2, <1>3, <1>4
     DEF ReadsHold, LocksExclude, CreateReadsHold, AppendReadsHold,
         StaffReadsHold, SweptExist, UnansweredHasNoTicket,
         OneOpenTicketPerPlace, BillCoversItems, HoldsVenue

\* A request that ends without writing releases its lock and disturbs nothing.
LEMMA AnswerKeepsReads ==
    ASSUME TypeInv, ReadsHold, NEW r \in Requests, NEW reply, NEW o,
           Answer(r, reply, o), UNCHANGED <<orders, staff, sweep>>
    PROVE  ReadsHold'
<1>1. \A q \in Requests : q # r => guest'[q] = guest[q]
  BY DEF Answer, TypeInv, TypeOK
<1>2. guest'[r].phase = "done"
  BY DEF Answer, TypeInv, TypeOK, IdleGuest
<1>3. GuestReadsHold'
  BY <1>1, <1>2
     DEF ReadsHold, LocksExclude, GuestReadsHold, HoldsVenue, CreateReadsHold,
         AppendReadsHold, OneOpenTicketPerPlace, BillCoversItems, IsOpen, Exists,
         UnansweredHasNoTicket
<1>4. StaffExclude' /\ StaffReadsHold' /\ SweptExist'
  BY DEF ReadsHold, LocksExclude, StaffExclude, StaffReadsHold, SweptExist,
         Exists, Swept
<1>. QED
  BY <1>3, <1>4, ReadsHoldParts
     DEF ReadsHold, GuestReadsHold, StaffExclude, LocksExclude

\* Taking the venue lock: what is read is so, and nobody else holds it.
LEMMA GuestLockKeepsReads ==
    ASSUME TypeInv, ReadsHold, NEW r \in Requests, GuestLock(r)
    PROVE  ReadsHold'
<1>1. \A q \in Requests : ~HoldsVenue(q)
  BY DEF GuestLock, VenueLockFree, HoldsVenue
<1>2. \A q \in Requests : q # r => guest'[q] = guest[q]
  BY DEF GuestLock, TypeInv, TypeOK
<1>3. UNCHANGED <<orders, staff, sweep>> /\ guest[r].phase = "checked"
  BY DEF GuestLock
<1>4. CASE \E o \in Requests :
             /\ IsOpenForPlace(o, PlaceOf[r])
             /\ guest' = [guest EXCEPT ![r] =
                          [@ EXCEPT !.phase = "append", !.target = o,
                                    !.seen = orders[o].status,
                                    !.base = orders[o].lines]]
  <2>1. PICK o \in Requests :
             /\ IsOpenForPlace(o, PlaceOf[r])
             /\ guest' = [guest EXCEPT ![r] =
                          [@ EXCEPT !.phase = "append", !.target = o,
                                    !.seen = orders[o].status,
                                    !.base = orders[o].lines]]
    BY <1>4
  <2>2. /\ guest'[r].phase = "append" /\ guest'[r].target = o
        /\ guest'[r].base = orders[o].lines
    BY <2>1 DEF TypeInv, TypeOK, GuestTxn
  <2>3. /\ Exists(o) /\ PlaceOf[o] = PlaceOf[r]
        /\ \A q \in Requests : IsOpen(q) /\ PlaceOf[q] = PlaceOf[r] => q = o
    BY <2>1 DEF IsOpenForPlace, IsOpen, Exists, Active, NoStatus, ReadsHold,
                OneOpenTicketPerPlace
  <2>4. AppendReadsHold'
    BY <1>1, <1>2, <1>3, <2>2, <2>3
       DEF AppendReadsHold, HoldsVenue, IsOpen, Exists
  <2>5. CreateReadsHold'
    BY <1>1, <1>2, <2>2 DEF CreateReadsHold, HoldsVenue
  <2>6. \A q, p \in Requests : HoldsVenue(q)' /\ HoldsVenue(p)' => q = p
    BY <1>1, <1>2 DEF HoldsVenue
  <2>. QED
    BY <1>2, <1>3, <2>4, <2>5, <2>6
       DEF ReadsHold, LocksExclude, StaffReadsHold, SweptExist, Swept,
           OneOpenTicketPerPlace, BillCoversItems, IsOpen, Exists,
           UnansweredHasNoTicket
<1>5. CASE /\ \A o \in Requests : ~IsOpenForPlace(o, PlaceOf[r])
           /\ \E n \in 1 .. Cardinality(Requests) :
                 /\ IsNextNumber(n, Today)
                 /\ guest' = [guest EXCEPT ![r] =
                          [@ EXCEPT !.phase = "create", !.day = Today,
                                    !.number = n]]
  <2>1. PICK n \in 1 .. Cardinality(Requests) :
                 /\ IsNextNumber(n, Today)
                 /\ guest' = [guest EXCEPT ![r] =
                          [@ EXCEPT !.phase = "create", !.day = Today,
                                    !.number = n]]
    BY <1>5
  <2>2. /\ guest'[r].phase = "create" /\ guest'[r].day = Today
        /\ guest'[r].number = n
    BY <2>1 DEF TypeInv, TypeOK, GuestTxn
  <2>3. \A o \in Requests : IsOpen(o) => PlaceOf[o] # PlaceOf[r]
    <3> SUFFICES ASSUME NEW o \in Requests, IsOpen(o), PlaceOf[o] = PlaceOf[r]
                 PROVE  FALSE
      OBVIOUS
    <3>1. \A q \in Requests : IsOpen(q) /\ PlaceOf[q] = PlaceOf[r] => q = o
      BY DEF ReadsHold, OneOpenTicketPerPlace
    <3>2. orders[o].createdAt <= orders[o].createdAt
      BY DEF TypeInv, TypeOK, Ticket
    <3>3. IsOpenForPlace(o, PlaceOf[r])
      BY <3>1, <3>2 DEF IsOpenForPlace
    <3>. QED
      BY <1>5, <3>3
  <2>4. \A o \in Requests :
           Exists(o) /\ orders[o].day = Today => orders[o].number < n
    BY <2>1 DEF IsNextNumber
  <2>5. CreateReadsHold'
    BY <1>1, <1>2, <1>3, <2>2, <2>3, <2>4
       DEF CreateReadsHold, HoldsVenue, IsOpen, Exists
  <2>6. AppendReadsHold'
    BY <1>1, <1>2, <2>2 DEF AppendReadsHold, HoldsVenue
  <2>7. \A q, p \in Requests : HoldsVenue(q)' /\ HoldsVenue(p)' => q = p
    BY <1>1, <1>2 DEF HoldsVenue
  <2>. QED
    BY <1>2, <1>3, <2>5, <2>6, <2>7
       DEF ReadsHold, LocksExclude, StaffReadsHold, SweptExist, Swept,
           OneOpenTicketPerPlace, BillCoversItems, IsOpen, Exists,
           UnansweredHasNoTicket
<1>. QED
  BY <1>4, <1>5 DEF GuestLock

\* Inserting a ticket: the place was free and its lock is held.
LEMMA GuestCreateKeepsReads ==
    ASSUME TypeInv, ReadsHold, NEW r \in Requests, GuestCreate(r)
    PROVE  ReadsHold'
<1>1. HoldsVenue(r) /\ ~Exists(r)
  BY DEF GuestCreate, HoldsVenue, ReadsHold, UnansweredHasNoTicket
<1>2. /\ \A q \in Requests : q # r => guest'[q] = guest[q] /\ orders'[q] = orders[q]
      /\ guest'[r].phase = "done"
      /\ UNCHANGED <<staff, sweep>>
  BY DEF GuestCreate, Answer, TypeInv, TypeOK, IdleGuest
<1>3. /\ orders'[r].status = "PENDING"
      /\ orders'[r].lines = {r} /\ orders'[r].billed = {r}
  BY DEF GuestCreate, TypeInv, TypeOK
<1>4. \A q \in Requests : ~HoldsVenue(q)'
  BY <1>1, <1>2 DEF HoldsVenue, ReadsHold, LocksExclude
<1>5. CreateReadsHold' /\ AppendReadsHold'
  BY <1>4 DEF CreateReadsHold, AppendReadsHold, HoldsVenue
<1>6. UnansweredHasNoTicket'
  BY <1>2 DEF ReadsHold, UnansweredHasNoTicket, Exists
<1>7. OneOpenTicketPerPlace'
  <2>1. \A o \in Requests : IsOpen(o) => PlaceOf[o] # PlaceOf[r]
    BY DEF GuestCreate, ReadsHold, CreateReadsHold
  <2>. QED
    BY <1>2, <2>1 DEF ReadsHold, OneOpenTicketPerPlace, IsOpen
<1>8. BillCoversItems'
  BY <1>2, <1>3 DEF ReadsHold, BillCoversItems
<1>9. LocksExclude' /\ StaffReadsHold'
  BY <1>1, <1>2, <1>4 DEF ReadsHold, LocksExclude, StaffReadsHold, Exists
<1>10. SweptExist'
  BY <1>2, <1>3 DEF ReadsHold, SweptExist, Swept, Exists, NoStatus
<1>. QED
  BY <1>5, <1>6, <1>7, <1>8, <1>9, <1>10 DEF ReadsHold

\* Appending: no other ticket of the place is open, and staff do not hold this one.
LEMMA GuestAppendKeepsReads ==
    ASSUME TypeInv, ReadsHold, NEW r \in Requests, GuestAppend(r)
    PROVE  ReadsHold'
<1> DEFINE o == guest[r].target
<1>1. /\ HoldsVenue(r) /\ o \in Requests /\ Exists(o) /\ PlaceOf[o] = PlaceOf[r]
      /\ orders[o].lines = guest[r].base
      /\ \A q \in Requests : IsOpen(q) /\ PlaceOf[q] = PlaceOf[r] => q = o
  BY DEF GuestAppend, HoldsVenue, ReadsHold, AppendReadsHold
<1>2. /\ \A q \in Requests : q # r => guest'[q] = guest[q]
      /\ \A q \in Requests : q # o => orders'[q] = orders[q]
      /\ guest'[r].phase = "done"
      /\ UNCHANGED <<staff, sweep>>
  BY <1>1 DEF GuestAppend, Answer, TypeInv, TypeOK, IdleGuest
<1>3. /\ orders'[o].status \in {orders[o].status, "PREPARING"}
      /\ orders'[o].lines = orders[o].lines \cup {r}
      /\ orders'[o].billed = guest[r].base \cup {r}
  <2>1. orders'[o] = Extended(r, orders[o])
    BY <1>1 DEF GuestAppend, TypeInv, TypeOK
  <2>2. orders[o] \in Ticket
    BY <1>1 DEF TypeInv, TypeOK
  <2>. QED
    BY <2>1, <2>2 DEF Ticket, Extended
<1>4. \A q \in Requests : Exists(q)' <=> Exists(q)
  BY <1>1, <1>2, <1>3 DEF Exists, NoStatus
<1>5. \A q \in Requests : ~HoldsVenue(q)'
  BY <1>1, <1>2 DEF HoldsVenue, ReadsHold, LocksExclude
<1>6. CreateReadsHold' /\ AppendReadsHold'
  BY <1>5 DEF CreateReadsHold, AppendReadsHold, HoldsVenue
<1>7. UnansweredHasNoTicket'
  BY <1>2, <1>4 DEF ReadsHold, UnansweredHasNoTicket
<1>8. OneOpenTicketPerPlace'
  BY <1>1, <1>2 DEF ReadsHold, OneOpenTicketPerPlace, IsOpen
<1>9. BillCoversItems'
  BY <1>1, <1>2, <1>3 DEF ReadsHold, BillCoversItems
<1>10. StaffReadsHold'
  <2>1. \A s \in Staff : staff[s].holding => staff[s].order # o
    BY DEF GuestAppend, RowLockFree
  <2>. QED
    BY <1>2, <1>4, <2>1 DEF ReadsHold, StaffReadsHold
<1>11. LocksExclude'
  BY <1>2, <1>5 DEF ReadsHold, LocksExclude
<1>12. SweptExist'
  BY <1>2, <1>4 DEF ReadsHold, SweptExist, Swept
<1>. QED
  BY <1>6, <1>7, <1>8, <1>9, <1>10, <1>11, <1>12 DEF ReadsHold

\* Every step of a guest request keeps the invariant.
LEMMA GuestKeepsReads ==
    ASSUME TypeInv, ReadsHold, NEW r \in Requests, GuestStep(r)
    PROVE  ReadsHold'
<1>1. CASE GuestReplay(r)
  BY <1>1, AnswerKeepsReads DEF GuestReplay
<1>2. CASE GuestRefuse(r)
  BY <1>2, AnswerKeepsReads DEF GuestRefuse
<1>3. CASE GuestCheck(r)
  <2>1. /\ \A q \in Requests : q # r => guest'[q] = guest[q]
        /\ guest[r].phase = "idle" /\ guest'[r].phase = "checked"
        /\ UNCHANGED <<orders, staff, sweep>>
    BY <1>3 DEF GuestCheck, TypeInv, TypeOK, GuestTxn
  <2>. QED
    BY <2>1
       DEF ReadsHold, LocksExclude, HoldsVenue, CreateReadsHold, AppendReadsHold,
           StaffReadsHold, UnansweredHasNoTicket, SweptExist, Swept,
           OneOpenTicketPerPlace, BillCoversItems, IsOpen, Exists
<1>4. CASE GuestConflict(r)
  BY <1>4, AnswerKeepsReads DEF GuestConflict
<1>5. CASE GuestAbort(r)
  BY <1>5, AnswerKeepsReads DEF GuestAbort
<1>. QED
  BY <1>1, <1>2, <1>3, <1>4, <1>5, GuestLockKeepsReads, GuestCreateKeepsReads,
     GuestAppendKeepsReads DEF GuestStep

\* A staff write moves an open ticket: nothing a guest relies on changes, and
\* other staff hold other rows.
LEMMA StaffWriteKeepsReads ==
    ASSUME TypeInv, ReadsHold, NEW s \in Staff, NEW path \in Seq(OrderStatus),
           path # <<>>, staff[s].holding, staff[s].seen \notin Terminal,
           StaffWrite(s, path)
    PROVE  ReadsHold'
<1>0. PICK o \in Requests : o = staff[s].order
  BY DEF TypeInv, HeldRow
<1>1. IsOpen(o)
  BY <1>0 DEF TypeInv, HeldRow, ReadsHold, StaffReadsHold, IsOpen, OrderStatus
<1>2. Last(path) \in OrderStatus
  BY DEF Last
<1>3. /\ \A q \in Requests : q # o => orders'[q] = orders[q]
      /\ \A u \in Staff : u # s => staff'[u] = staff[u]
      /\ ~staff'[s].holding
      /\ UNCHANGED <<guest, sweep>>
  BY <1>0 DEF StaffWrite, Release, IdleStaff, TypeInv, TypeOK
<1>4. orders'[o] = [orders[o] EXCEPT !.status = Last(path),
                                     !.updatedAt = staff[s].begun]
  BY <1>0 DEF StaffWrite, TypeInv, TypeOK
<1>5. /\ orders'[o].status = Last(path)
      /\ orders'[o].lines = orders[o].lines
      /\ orders'[o].billed = orders[o].billed
      /\ orders'[o].day = orders[o].day
      /\ orders'[o].number = orders[o].number
  BY <1>1, <1>4, MovedTicketFields DEF TypeInv, TypeOK
<1>6. Exists(o) /\ Exists(o)'
  <2>1. orders[o].status \in OrderStatus
    BY <1>1 DEF IsOpen, OrderStatus
  <2>. QED
    BY <1>2, <1>5, <2>1, StatusIsReal DEF Exists
<1>7. Quiet
  <2> SUFFICES ASSUME NEW q \in Requests
               PROVE  /\ IsOpen(q)' => IsOpen(q)
                      /\ Exists(q)' <=> Exists(q)
                      /\ orders'[q].lines = orders[q].lines
                      /\ orders'[q].billed = orders[q].billed
                      /\ orders'[q].day = orders[q].day
                      /\ orders'[q].number = orders[q].number
    BY DEF Quiet
  <2>1. CASE q = o
    BY <1>1, <1>5, <1>6, <2>1
  <2>2. CASE q # o
    BY <1>3, <2>2 DEF IsOpen, Exists
  <2>. QED
    BY <2>1, <2>2
<1>8. GuestReadsHold'
  BY <1>3, <1>7, QuietKeepsGuestReads, ReadsHoldParts
<1>9. StaffExclude'
  BY <1>3, ReadsHoldParts DEF StaffExclude
<1>10. StaffReadsHold'
  <2>1. \A u \in Staff : u # s /\ staff[u].holding => staff[u].order # o
    BY <1>0, ReadsHoldParts DEF StaffExclude
  <2>. QED
    BY <1>3, <1>7, <2>1 DEF ReadsHold, StaffReadsHold, Quiet
<1>11. SweptExist'
  BY <1>3, <1>7 DEF ReadsHold, SweptExist, Swept, Quiet
<1>. QED
  BY <1>8, <1>9, <1>10, <1>11, ReadsHoldParts
     DEF ReadsHold, LocksExclude, GuestReadsHold, StaffExclude

\* Every step of a staff tap keeps it: a ticket only moves while its lock is held.
LEMMA StaffKeepsReads ==
    ASSUME TypeInv, ReadsHold, NEW s \in Staff, StaffStep(s)
    PROVE  ReadsHold'
<1>1. CASE StaffLock(s)
  <2>1. PICK o \in Requests :
           /\ Exists(o)
           /\ RowLockFree(o)
           /\ staff' = [staff EXCEPT ![s] = [holding |-> TRUE, order |-> o,
                                             begun |-> now,
                                             seen |-> orders[o].status]]
    BY <1>1 DEF StaffLock
  <2>2. /\ \A u \in Staff : u # s => staff'[u] = staff[u]
        /\ staff'[s].holding /\ staff'[s].order = o
        /\ staff'[s].seen = orders[o].status
        /\ UNCHANGED <<orders, guest, sweep>>
    BY <1>1, <2>1 DEF StaffLock, TypeInv, TypeOK
  <2>3. StaffExclude'
    BY <2>1, <2>2, ReadsHoldParts DEF StaffExclude, RowLockFree
  <2>4. StaffReadsHold'
    BY <2>1, <2>2 DEF ReadsHold, StaffReadsHold, Exists
  <2>5. GuestReadsHold'
    <3>1. Quiet
      BY <2>2 DEF Quiet, IsOpen, Exists
    <3>. QED
      BY <2>2, <3>1, QuietKeepsGuestReads, ReadsHoldParts
  <2>6. SweptExist'
    BY <2>2 DEF ReadsHold, SweptExist, Swept, Exists
  <2>. QED
    BY <2>3, <2>4, <2>5, <2>6
       DEF ReadsHold, LocksExclude, GuestReadsHold, StaffExclude
<1>2. CASE StaffTransition(s)
  <2>1. PICK new \in StatusTransitions[staff[s].seen] : StaffWrite(s, <<new>>)
    BY <1>2 DEF StaffTransition
  <2>2. staff[s].seen \in OrderStatus
    BY <1>2 DEF StaffTransition, TypeInv, HeldRow
  <2>3. <<new>> \in Seq(OrderStatus) /\ <<new>> # <<>>
    BY <2>1, <2>2, TransitionType
  <2>. QED
    BY <1>2, <2>1, <2>3, StaffWriteKeepsReads DEF StaffTransition
<1>3. CASE StaffAdvance(s)
  BY <1>3, PathBetweenType, StaffWriteKeepsReads DEF StaffAdvance
<1>4. CASE StaffRefuse(s)
  <2>1. /\ \A u \in Staff : u # s => staff'[u] = staff[u]
        /\ ~staff'[s].holding
        /\ UNCHANGED <<orders, guest, sweep>>
    BY <1>4 DEF StaffRefuse, Release, IdleStaff, TypeInv, TypeOK
  <2>2. StaffExclude' /\ StaffReadsHold' /\ SweptExist'
    BY <2>1, ReadsHoldParts DEF StaffExclude, StaffReadsHold, SweptExist, Swept, Exists
  <2>3. GuestReadsHold'
    <3>1. Quiet
      BY <2>1 DEF Quiet, IsOpen, Exists
    <3>. QED
      BY <2>1, <3>1, QuietKeepsGuestReads, ReadsHoldParts
  <2>. QED
    BY <2>2, <2>3 DEF ReadsHold, LocksExclude, GuestReadsHold, StaffExclude
<1>. QED
  BY <1>1, <1>2, <1>3, <1>4 DEF StaffStep

\* A sweep closes tickets, and waits for the staff who hold one of them.
LEMMA SweepKeepsReads ==
    ASSUME TypeInv, ReadsHold, NEW w \in Sweepers, SweepStep(w)
    PROVE  ReadsHold'
<1>1. CASE SweepRead(w)
  <2>1. /\ \A v \in Sweepers : v # w => sweep'[v] = sweep[v]
        /\ \A o \in Requests : sweep'[w].stale[o] =
              IF IsStale(o) THEN orders[o].status ELSE NoStatus
        /\ UNCHANGED <<orders, guest, staff>>
    BY <1>1 DEF SweepRead, TypeInv, TypeOK
  <2>2. SweptExist'
    BY <2>1 DEF ReadsHold, SweptExist, Swept, Exists
  <2>. QED
    BY <2>1, <2>2
       DEF ReadsHold, LocksExclude, HoldsVenue, CreateReadsHold, AppendReadsHold,
           StaffReadsHold, UnansweredHasNoTicket, OneOpenTicketPerPlace,
           BillCoversItems, IsOpen, Exists
<1>2. CASE SweepWrite(w)
  <2>1. \A o \in Swept(w) : Exists(o)
    BY DEF ReadsHold, SweptExist
  <2>2. /\ \A o \in Requests : o \notin Swept(w) => orders'[o] = orders[o]
        /\ \A o \in Swept(w) :
              orders'[o] = [orders[o] EXCEPT !.status = "COMPLETED",
                                             !.updatedAt = sweep[w].begun]
        /\ \A v \in Sweepers : v # w => sweep'[v] = sweep[v]
        /\ sweep'[w] = IdleSweep
        /\ UNCHANGED <<guest, staff>>
    BY <1>2 DEF SweepWrite, Swept, TypeInv, TypeOK
  <2>3. \A o \in Swept(w) :
           /\ orders'[o].status = "COMPLETED"
           /\ orders'[o].lines = orders[o].lines
           /\ orders'[o].billed = orders[o].billed
           /\ orders'[o].day = orders[o].day
           /\ orders'[o].number = orders[o].number
    <3> SUFFICES ASSUME NEW o \in Swept(w)
                 PROVE  /\ orders'[o].status = "COMPLETED"
                        /\ orders'[o].lines = orders[o].lines
                        /\ orders'[o].billed = orders[o].billed
                        /\ orders'[o].day = orders[o].day
                        /\ orders'[o].number = orders[o].number
      OBVIOUS
    <3>1. orders[o] \in Ticket
      BY DEF Swept, TypeInv, TypeOK
    <3>2. orders'[o] = [orders[o] EXCEPT !.status = "COMPLETED",
                                         !.updatedAt = sweep[w].begun]
      BY <2>2
    <3>. QED
      BY <3>1, <3>2 DEF Ticket
  <2>4. Quiet
    BY <2>1, <2>2, <2>3 DEF Quiet, IsOpen, Exists, Active, NoStatus
  <2>5. GuestReadsHold'
    BY <2>2, <2>4, QuietKeepsGuestReads, ReadsHoldParts
  <2>6. StaffReadsHold'
    <3>1. \A s \in Staff : staff[s].holding => staff[s].order \notin Swept(w)
      BY <1>2 DEF SweepWrite, RowLockFree
    <3>. QED
      BY <2>2, <2>4, <3>1 DEF ReadsHold, StaffReadsHold, Quiet
  <2>7. SweptExist'
    <3>1. \A v \in Sweepers : v # w => Swept(v)' = Swept(v)
      BY <2>2 DEF Swept
    <3>2. Swept(w)' = {}
      <4>1. \A o \in Requests : IdleSweep.stale[o] = NoStatus
        BY DEF IdleSweep
      <4>. QED
        BY <2>2, <4>1 DEF Swept
    <3>3. \A v \in Sweepers : Swept(v) \subseteq Requests
      BY DEF Swept
    <3>. QED
      BY <2>4, <3>1, <3>2, <3>3 DEF ReadsHold, SweptExist, Quiet
  <2>8. StaffExclude'
    BY <2>2, ReadsHoldParts DEF StaffExclude
  <2>. QED
    BY <2>5, <2>6, <2>7, <2>8
       DEF ReadsHold, LocksExclude, GuestReadsHold, StaffExclude
<1>3. CASE SweepAbort(w)
  <2>1. /\ \A v \in Sweepers : v # w => sweep'[v] = sweep[v]
        /\ sweep'[w] = IdleSweep
        /\ UNCHANGED <<orders, guest, staff>>
    BY <1>3 DEF SweepAbort, TypeInv, TypeOK
  <2>2. SweptExist'
    BY <2>1 DEF ReadsHold, SweptExist, Swept, IdleSweep, Exists
  <2>. QED
    BY <2>1, <2>2
       DEF ReadsHold, LocksExclude, HoldsVenue, CreateReadsHold, AppendReadsHold,
           StaffReadsHold, UnansweredHasNoTicket, OneOpenTicketPerPlace,
           BillCoversItems, IsOpen, Exists
<1>. QED
  BY <1>1, <1>2, <1>3 DEF SweepStep

\* The invariant is inductive.
LEMMA NextReadsHold == TypeInv /\ ReadsHold /\ [Next]_vars => ReadsHold'
<1> SUFFICES ASSUME TypeInv, ReadsHold, [Next]_vars
             PROVE  ReadsHold'
  OBVIOUS
<1>1. CASE Tick \/ UNCHANGED vars
  <2>1. UNCHANGED <<orders, guest, staff, sweep>>
    BY <1>1 DEF Tick, vars
  <2>. QED
    BY <2>1
       DEF ReadsHold, LocksExclude, HoldsVenue, CreateReadsHold, AppendReadsHold,
           StaffReadsHold, UnansweredHasNoTicket, SweptExist, Swept,
           OneOpenTicketPerPlace, BillCoversItems, IsOpen, Exists
<1>. QED
  BY <1>1, GuestKeepsReads, StaffKeepsReads, SweepKeepsReads DEF Next

-----------------------------------------------------------------------------
(* The safety theorems. *)

\* In every reachable state, whoever holds a lock has read what is still so.
THEOREM ReadsStayTrue == Spec => [](TypeInv /\ ReadsHold)
<1>1. Init => TypeInv /\ ReadsHold
  BY InitTypeInv, InitReadsHold
<1>2. TypeInv /\ ReadsHold /\ [Next]_vars => (TypeInv /\ ReadsHold)'
  BY NextTypeInv, NextReadsHold
<1>. QED
  BY <1>1, <1>2, PTL DEF Spec

\* A table or room never has two open tickets, however many guests order at
\* once and whatever staff and sweeps do meanwhile.
THEOREM OneTicket == Spec => []OneOpenTicketPerPlace
<1>1. ReadsHold => OneOpenTicketPerPlace
  BY DEF ReadsHold
<1>. QED
  BY <1>1, ReadsStayTrue, PTL

\* No append is lost from the stored subtotal.
THEOREM BillCorrect == Spec => []BillCoversItems
<1>1. ReadsHold => BillCoversItems
  BY DEF ReadsHold
<1>. QED
  BY <1>1, ReadsStayTrue, PTL

\* The number a request read under the venue lock is still free when it inserts.
THEOREM NumberFree == Spec => []NumberStaysFree
<1>1. TypeInv /\ ReadsHold => NumberStaysFree
  <2> SUFFICES ASSUME TypeInv, ReadsHold, NEW r \in Requests,
                      guest[r].phase = "create", NumberTaken(r)
               PROVE  FALSE
    BY DEF NumberStaysFree
  <2>1. PICK o \in Requests : /\ Exists(o) /\ orders[o].day = guest[r].day
                              /\ orders[o].number = guest[r].number
    BY DEF NumberTaken
  <2>2. orders[o].number < guest[r].number
    BY <2>1 DEF ReadsHold, CreateReadsHold
  <2>3. guest[r].number \in Nat
    BY DEF TypeInv, TypeOK, GuestTxn
  <2>. QED
    BY <2>1, <2>2, <2>3
<1>. QED
  BY <1>1, ReadsStayTrue, PTL
=============================================================================
