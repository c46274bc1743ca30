-------------------------- MODULE OrderStepsProofs --------------------------
(***************************************************************************)
(* What a step of Orders may do, for every set of requests, places, staff  *)
(* and sweeps and every clock: it is a step of the ticket book, staff      *)
(* follow the lifecycle, only an append under way revives a ticket, the    *)
(* sweep spares young ones and the numbers of a day have no gap.           *)
(* ReadsHold of OrdersProofs is the base.                                  *)
(***************************************************************************)
EXTENDS OrdersProofs

-----------------------------------------------------------------------------
(* Orders implements TicketBook. *)

\* A request that is not answered has added nothing to any ticket.
UnansweredAddedNothing ==
    \A r, o \in Requests : guest[r].phase # "done" => r \notin orders[o].lines

BookInv == TypeInv /\ ReadsHold /\ UnansweredAddedNothing

\* The empty venue is an empty book.
LEMMA InitBookInv == Init => BookInv /\ Book!BookInit
<1>1. Init => UnansweredAddedNothing
  BY DEF Init, UnansweredAddedNothing, NoTicket
<1>2. Init => Book!BookInit
  BY DEF Init, Book!BookInit, NoTicket
<1>. QED
  BY <1>1, <1>2, InitTypeInv, InitReadsHold DEF BookInv

\* The place has no open ticket while a request that found none holds the venue.
LEMMA CreateIsBookStep ==
    ASSUME BookInv, NEW r \in Requests, GuestCreate(r)
    PROVE  Book!OpenTicket(r)
<1>1. guest[r].phase = "create"
  BY DEF GuestCreate
<1>2. orders[r].status = NoStatus
  BY <1>1 DEF BookInv, ReadsHold, UnansweredHasNoTicket, Exists
<1>3. \A o \in Requests : r \notin orders[o].lines
  BY <1>1 DEF BookInv, UnansweredAddedNothing
<1>4. \A o \in Requests : orders[o].status \in Active => PlaceOf[o] # PlaceOf[r]
  BY <1>1 DEF BookInv, ReadsHold, CreateReadsHold, IsOpen
<1>5. /\ orders'[r].status = "PENDING" /\ orders'[r].lines = {r}
      /\ \A o \in Requests \ {r} : orders'[o] = orders[o]
  BY DEF GuestCreate, BookInv, TypeInv, TypeOK
<1>. QED
  BY <1>2, <1>3, <1>4, <1>5 DEF Book!OpenTicket, Book!Used, Book!OpenAt

\* Items reach a ticket of the guest's own place, once.
LEMMA AppendIsBookStep ==
    ASSUME BookInv, NEW r \in Requests, NEW o \in Requests, o = guest[r].target,
           GuestAppend(r)
    PROVE  Book!AddItems(r, o)
<1>1. guest[r].phase = "append"
  BY DEF GuestAppend
<1>2. /\ o \in Requests /\ Exists(o) /\ PlaceOf[o] = PlaceOf[r]
      /\ \A q \in Requests : IsOpen(q) /\ PlaceOf[q] = PlaceOf[r] => q = o
  BY <1>1 DEF BookInv, ReadsHold, AppendReadsHold
<1>3. \A q \in Requests : r \notin orders[q].lines
  BY <1>1 DEF BookInv, UnansweredAddedNothing
<1>4. /\ orders'[o] = Extended(r, orders[o])
      /\ \A q \in Requests \ {o} : orders'[q] = orders[q]
  BY <1>2 DEF GuestAppend, BookInv, TypeInv, TypeOK
<1>5. /\ orders'[o].lines = orders[o].lines \cup {r}
      /\ orders'[o].status \in {orders[o].status, "PREPARING"}
  <2>1. orders[o] \in Ticket
    BY <1>2 DEF BookInv, TypeInv, TypeOK
  <2>. QED
    BY <1>4, <2>1 DEF Ticket, Extended
<1>6. [q \in Requests |-> [status |-> orders[q].status, items |-> orders[q].lines]]'
        = [[q \in Requests |-> [status |-> orders[q].status, items |-> orders[q].lines]]
             EXCEPT ![o].items = orders[o].lines \cup {r},
                    ![o].status = orders'[o].status]
  BY <1>4, <1>5
<1>7. ~Book!Used(r) /\ Book!OpenAt(PlaceOf[r]) \subseteq {o}
  BY <1>2, <1>3 DEF Book!Used, Book!OpenAt, IsOpen
<1>. QED
  BY <1>2, <1>5, <1>6, <1>7 DEF Book!AddItems, Exists

\* path_between ends at its target, which is a status.
LEMMA PathEnds ==
    ASSUME NEW current, NEW target, PathBetween(current, target) # <<>>
    PROVE  /\ {current, target} \subseteq Range(HappyPath)
           /\ target \in OrderStatus
           /\ Last(PathBetween(current, target)) = target
<1>1. {current, target} \subseteq Range(HappyPath)
  BY DEF PathBetween
<1>2. PICK j \in 1 .. 6 : HappyPath[j] = target
  BY <1>1 DEF Range, HappyPath
<1>3. DOMAIN HappyPath = 1 .. 6
  BY DEF HappyPath
<1>4. HappyPath[PathIndex(target)] = target
  BY <1>2, <1>3 DEF PathIndex
<1>5. PathIndex(current) \in 1 .. 6 /\ PathIndex(target) \in 1 .. 6
  BY <1>1, PathIndexType
<1> DEFINE n == PathIndex(target) - PathIndex(current)
<1>6. PathBetween(current, target)
         = [i \in 1 .. n |-> HappyPath[PathIndex(current) + i]]
  BY <1>1 DEF PathBetween
<1>7. n \in Nat \ {0}
  <2>1. CASE n <= 0
    <3>1. 1 .. n = {}
      BY <1>5, <2>1
    <3>. QED
      BY <1>6, <3>1
  <2>. QED
    BY <1>5, <2>1
<1>8. Len(PathBetween(current, target)) = n
  BY <1>6, <1>7
<1>9. PathBetween(current, target)[n] = HappyPath[PathIndex(current) + n]
  BY <1>6, <1>7
<1>10. Last(PathBetween(current, target)) = target
  BY <1>4, <1>5, <1>8, <1>9 DEF Last
<1>11. target \in OrderStatus
  BY <1>2 DEF HappyPath, OrderStatus, Active, Terminal
<1>. QED
  BY <1>1, <1>10, <1>11

\* A staff write moves one open ticket where the lifecycle lets staff move it.
LEMMA StaffWriteIsBookStep ==
    ASSUME BookInv, NEW s \in Staff, NEW path \in Seq(OrderStatus), path # <<>>,
           staff[s].holding, staff[s].seen \notin Terminal,
           Last(path) \in StaffMoves[staff[s].seen], StaffWrite(s, path)
    PROVE  \E o \in Requests : Book!MoveTicket(o)
<1>1. PICK o \in Requests : o = staff[s].order
  BY DEF BookInv, TypeInv, HeldRow
<1>2. orders[o].status = staff[s].seen /\ orders[o].status \in Active
  BY <1>1 DEF BookInv, TypeInv, HeldRow, ReadsHold, StaffReadsHold, OrderStatus
<1>3. /\ orders'[o] = [orders[o] EXCEPT !.status = Last(path),
                                         !.updatedAt = staff[s].begun]
      /\ \A q \in Requests \ {o} : orders'[q] = orders[q]
  BY <1>1 DEF StaffWrite, BookInv, TypeInv, TypeOK
<1>4. orders'[o].status = Last(path) /\ orders'[o].lines = orders[o].lines
  BY <1>3, MovedTicketFields DEF BookInv, TypeInv, TypeOK
<1>5. Book!MoveTicket(o)
  <2>1. [q \in Requests |-> [status |-> orders[q].status, items |-> orders[q].lines]]'
          = [[q \in Requests |-> [status |-> orders[q].status,
                                 items |-> orders[q].lines]]
               EXCEPT ![o].status = Last(path)]
    BY <1>3, <1>4
  <2>. QED
    BY <1>2, <2>1 DEF Book!MoveTicket
<1>. QED
  BY <1>5

\* A sweep closes the tickets it has read, all of them real.
LEMMA SweepIsBookStep ==
    ASSUME BookInv, NEW w \in Sweepers, SweepWrite(w)
    PROVE  \E S \in SUBSET Requests : Book!CloseTickets(S)
<1>1. PICK S \in SUBSET Requests : S = Swept(w)
  BY DEF Swept
<1>2. \A o \in S : orders[o].status # NoStatus
  BY <1>1 DEF BookInv, ReadsHold, SweptExist, Exists
<1>3. \A o \in Requests :
         /\ o \in S => orders'[o].status = "COMPLETED"
         /\ o \notin S => orders'[o].status = orders[o].status
         /\ orders'[o].lines = orders[o].lines
  <2> SUFFICES ASSUME NEW o \in Requests
               PROVE  /\ o \in S => orders'[o].status = "COMPLETED"
                      /\ o \notin S => orders'[o].status = orders[o].status
                      /\ orders'[o].lines = orders[o].lines
    OBVIOUS
  <2>1. orders'[o] = IF o \in S
                     THEN [orders[o] EXCEPT !.status = "COMPLETED",
                                            !.updatedAt = sweep[w].begun]
                     ELSE orders[o]
    BY <1>1 DEF SweepWrite
  <2>2. orders[o] \in Ticket
    BY DEF BookInv, TypeInv, TypeOK
  <2>. QED
    BY <2>1, <2>2, MovedTicketFields
<1>4. Book!CloseTickets(S)
  BY <1>2, <1>3 DEF Book!CloseTickets
<1>. QED
  BY <1>4

\* Every step of the code is a step of the book or leaves it alone.
LEMMA NextIsBookStep ==
    BookInv /\ [Next]_vars
      => [Book!BookNext]_[o \in Requests |->
             [status |-> orders[o].status, items |-> orders[o].lines]]
<1> SUFFICES ASSUME BookInv, [Next]_vars
             PROVE  \/ Book!BookNext
                    \/ orders' = orders
  OBVIOUS
<1>1. ASSUME NEW r \in Requests, GuestStep(r)
      PROVE  Book!BookNext \/ orders' = orders
  <2>1. CASE GuestCreate(r)
    BY <2>1, CreateIsBookStep DEF Book!BookNext
  <2>2. CASE GuestAppend(r)
    <3>1. PICK o \in Requests : o = guest[r].target
      BY <2>2 DEF GuestAppend, BookInv, TypeInv, AppendTarget
    <3>. QED
      BY <2>2, <3>1, AppendIsBookStep DEF Book!BookNext
  <2>3. CASE \/ GuestReplay(r) \/ GuestRefuse(r) \/ GuestCheck(r) \/ GuestLock(r)
             \/ GuestConflict(r) \/ GuestAbort(r)
    BY <2>3 DEF GuestReplay, GuestRefuse, GuestCheck, GuestLock, GuestConflict,
                GuestAbort
  <2>. QED
    BY <1>1, <2>1, <2>2, <2>3 DEF GuestStep
<1>2. ASSUME NEW s \in Staff, StaffStep(s)
      PROVE  Book!BookNext \/ orders' = orders
  <2>1. CASE StaffTransition(s)
    <3>1. PICK new \in StatusTransitions[staff[s].seen] : StaffWrite(s, <<new>>)
      BY <2>1 DEF StaffTransition
    <3>2. staff[s].seen \in OrderStatus
      BY <2>1 DEF StaffTransition, BookInv, TypeInv, HeldRow
    <3>3. <<new>> \in Seq(OrderStatus) /\ <<new>> # <<>> /\ Last(<<new>>) = new
      BY <3>1, <3>2, TransitionType DEF Last
    <3>4. Last(<<new>>) \in StaffMoves[staff[s].seen]
      BY <3>1, <3>2, <3>3 DEF StaffMoves
    <3>. QED
      BY <2>1, <3>1, <3>3, <3>4, StaffWriteIsBookStep
         DEF StaffTransition, Book!BookNext
  <2>2. CASE StaffAdvance(s)
    <3>1. PICK target \in OrderStatus :
             /\ PathBetween(staff[s].seen, target) # <<>>
             /\ StaffWrite(s, PathBetween(staff[s].seen, target))
      BY <2>2 DEF StaffAdvance
    <3>2. staff[s].seen \in OrderStatus
      BY <2>2 DEF StaffAdvance, BookInv, TypeInv, HeldRow
    <3>3. Last(PathBetween(staff[s].seen, target)) \in StaffMoves[staff[s].seen]
      BY <3>1, <3>2, PathEnds DEF StaffMoves
    <3>4. PathBetween(staff[s].seen, target) \in Seq(OrderStatus)
      BY PathBetweenType
    <3>. QED
      BY <2>2, <3>1, <3>3, <3>4, StaffWriteIsBookStep DEF StaffAdvance, Book!BookNext
  <2>3. CASE StaffLock(s) \/ StaffRefuse(s)
    BY <2>3 DEF StaffLock, StaffRefuse
  <2>. QED
    BY <1>2, <2>1, <2>2, <2>3 DEF StaffStep
<1>3. ASSUME NEW w \in Sweepers, SweepStep(w)
      PROVE  Book!BookNext \/ orders' = orders
  <2>1. CASE SweepWrite(w)
    BY <2>1, SweepIsBookStep DEF Book!BookNext
  <2>2. CASE SweepRead(w) \/ SweepAbort(w)
    BY <2>2 DEF SweepRead, SweepAbort
  <2>. QED
    BY <1>3, <2>1, <2>2 DEF SweepStep
<1>4. CASE Tick \/ UNCHANGED vars
  BY <1>4 DEF Tick, vars
<1>. QED
  BY <1>1, <1>2, <1>3, <1>4 DEF Next

\* Items are added only together with the answer of the request they are from.
LEMMA NextAddedNothing ==
    BookInv /\ [Next]_vars => UnansweredAddedNothing'
<1> SUFFICES ASSUME BookInv, [Next]_vars
             PROVE  UnansweredAddedNothing'
  OBVIOUS
<1>1. ASSUME NEW r \in Requests, GuestStep(r)
      PROVE  UnansweredAddedNothing'
  <2>1. CASE GuestCreate(r)
    <3>1. guest'[r].phase = "done" /\ \A q \in Requests \ {r} : guest'[q] = guest[q]
      BY <2>1 DEF GuestCreate, Answer, IdleGuest, BookInv, TypeInv, TypeOK
    <3>2. orders'[r].lines = {r} /\ \A o \in Requests \ {r} : orders'[o] = orders[o]
      BY <2>1 DEF GuestCreate, BookInv, TypeInv, TypeOK
    <3>. QED
      BY <3>1, <3>2 DEF BookInv, UnansweredAddedNothing
  <2>2. CASE GuestAppend(r)
    <3>1. PICK o \in Requests : o = guest[r].target
      BY <2>2 DEF GuestAppend, BookInv, TypeInv, AppendTarget
    <3>2. guest'[r].phase = "done" /\ \A q \in Requests \ {r} : guest'[q] = guest[q]
      BY <2>2 DEF GuestAppend, Answer, IdleGuest, BookInv, TypeInv, TypeOK
    <3>3. /\ orders'[o] = Extended(r, orders[o])
          /\ \A q \in Requests \ {o} : orders'[q] = orders[q]
      BY <2>2, <3>1 DEF GuestAppend, BookInv, TypeInv, TypeOK
    <3>4. orders'[o].lines = orders[o].lines \cup {r}
      <4>1. orders[o] \in Ticket
        BY DEF BookInv, TypeInv, TypeOK
      <4>. QED
        BY <3>3, <4>1 DEF Ticket, Extended
    <3>. QED
      BY <3>2, <3>3, <3>4 DEF BookInv, UnansweredAddedNothing
  <2>3. CASE GuestCheck(r) \/ GuestLock(r)
    <3>1. /\ orders' = orders /\ guest[r].phase # "done"
          /\ \A q \in Requests \ {r} : guest'[q] = guest[q]
      BY <2>3 DEF GuestCheck, GuestLock, BookInv, TypeInv, TypeOK
    <3>. QED
      BY <3>1 DEF BookInv, UnansweredAddedNothing
  <2>4. CASE \/ GuestReplay(r) \/ GuestRefuse(r) \/ GuestConflict(r)
             \/ GuestAbort(r)
    <3>1. /\ orders' = orders /\ guest'[r].phase = "done"
          /\ \A q \in Requests \ {r} : guest'[q] = guest[q]
      BY <2>4 DEF GuestReplay, GuestRefuse, GuestConflict, GuestAbort, Answer,
                  IdleGuest, BookInv, TypeInv, TypeOK
    <3>. QED
      BY <3>1 DEF BookInv, UnansweredAddedNothing
  <2>. QED
    BY <1>1, <2>1, <2>2, <2>3, <2>4 DEF GuestStep
<1>2. ASSUME NEW s \in Staff, NEW path \in Seq(OrderStatus), path # <<>>,
             staff[s].holding, StaffWrite(s, path)
      PROVE  UnansweredAddedNothing'
  <2>1. PICK o \in Requests : o = staff[s].order
    BY <1>2 DEF BookInv, TypeInv, HeldRow
  <2>2. /\ orders'[o].lines = orders[o].lines
        /\ \A q \in Requests \ {o} : orders'[q] = orders[q]
        /\ guest' = guest
    BY <1>2, <2>1, MovedTicketFields DEF StaffWrite, BookInv, TypeInv, TypeOK
  <2>. QED
    BY <2>2 DEF BookInv, UnansweredAddedNothing
<1>3. ASSUME NEW s \in Staff, StaffStep(s)
      PROVE  UnansweredAddedNothing'
  <2>1. CASE StaffTransition(s)
    <3>1. PICK new \in StatusTransitions[staff[s].seen] : StaffWrite(s, <<new>>)
      BY <2>1 DEF StaffTransition
    <3>2. staff[s].seen \in OrderStatus
      BY <2>1 DEF StaffTransition, BookInv, TypeInv, HeldRow
    <3>3. <<new>> \in Seq(OrderStatus) /\ <<new>> # <<>>
      BY <3>1, <3>2, TransitionType
    <3>. QED
      BY <1>2, <2>1, <3>1, <3>3 DEF StaffTransition
  <2>2. CASE StaffAdvance(s)
    BY <1>2, <2>2, PathBetweenType DEF StaffAdvance
  <2>3. CASE StaffLock(s) \/ StaffRefuse(s)
    BY <2>3 DEF StaffLock, StaffRefuse, BookInv, UnansweredAddedNothing
  <2>. QED
    BY <1>3, <2>1, <2>2, <2>3 DEF StaffStep
<1>4. ASSUME NEW w \in Sweepers, SweepStep(w)
      PROVE  UnansweredAddedNothing'
  <2>1. CASE SweepWrite(w)
    <3>1. \A o \in Requests :
             orders'[o] = IF o \in Swept(w)
                          THEN [orders[o] EXCEPT !.status = "COMPLETED",
                                                 !.updatedAt = sweep[w].begun]
                          ELSE orders[o]
      BY <2>1 DEF SweepWrite
    <3>2. ASSUME NEW o \in Requests PROVE orders'[o].lines = orders[o].lines
      <4>1. orders[o] \in Ticket
        BY DEF BookInv, TypeInv, TypeOK
      <4>. QED
        BY <3>1, <4>1 DEF Ticket
    <3>. QED
      BY <2>1, <3>2 DEF SweepWrite, BookInv, UnansweredAddedNothing
  <2>2. CASE SweepRead(w) \/ SweepAbort(w)
    BY <2>2 DEF SweepRead, SweepAbort, BookInv, UnansweredAddedNothing
  <2>. QED
    BY <1>4, <2>1, <2>2 DEF SweepStep
<1>5. CASE Tick \/ UNCHANGED vars
  BY <1>5 DEF Tick, vars, BookInv, UnansweredAddedNothing
<1>. QED
  BY <1>1, <1>3, <1>4, <1>5 DEF Next

\* In every reachable state only answered requests are in tickets.
LEMMA BookInvHolds == Spec => []BookInv
<1>1. Init => UnansweredAddedNothing
  BY InitBookInv DEF BookInv
<1>2. BookInv /\ [Next]_vars => UnansweredAddedNothing'
  BY NextAddedNothing
<1>3. TypeInv /\ ReadsHold /\ UnansweredAddedNothing <=> BookInv
  BY DEF BookInv
<1>. QED
  BY <1>1, <1>2, <1>3, ReadsStayTrue, PTL DEF Spec

\* The interleaved transactions of order.py are atomic steps of the ticket book:
\* a request takes effect once, whole and at its own table.
THEOREM TicketsAreABook == Spec => ImplementsBook
<1>1. Init => Book!BookInit
  BY InitBookInv
<1>. QED
  BY <1>1, BookInvHolds, NextIsBookStep, PTL DEF Spec, ImplementsBook, Book!BookSpec

-----------------------------------------------------------------------------
(* The history rows of a step. *)

\* What is appended to a history is what NewRows shows.
LEMMA AppendedRows ==
    ASSUME NEW h \in Seq(HistoryRow), NEW t \in Seq(HistoryRow)
    PROVE  SubSeq(h \o t, Len(h) + 1, Len(h \o t)) = t
<1>1. Len(h \o t) = Len(h) + Len(t) /\ Len(h) \in Nat /\ Len(t) \in Nat
  BY ConcatProperties
<1>2. CASE t = <<>>
  <2>1. Len(h \o t) < Len(h) + 1
    BY <1>1, <1>2
  <2>. QED
    BY <1>1, <1>2, <2>1, SubSeqEmpty
<1>3. CASE t # <<>>
  <2>1. Len(t) \in Nat \ {0}
    BY <1>1, <1>3
  <2> DEFINE m == Len(h) + 1
             n == Len(h) + Len(t)
  <2>2. m \in Len(h) + 1 .. Len(h) + Len(t) /\ n \in Len(h) + 1 .. Len(h) + Len(t)
    BY <1>1, <2>1
  <2>3. m - Len(h) = 1 /\ n - Len(h) = Len(t)
    BY <1>1
  <2> HIDE DEF m, n
  <2>4. SubSeq(h \o t, m, n) = SubSeq(t, m - Len(h), n - Len(h))
    BY <2>2, SubSeqOfConcat2
  <2>5. SubSeq(t, 1, Len(t)) = t
    BY SubSeqFull
  <2>. QED
    BY <1>1, <2>3, <2>4, <2>5 DEF m, n
<1>. QED
  BY <1>2, <1>3

\* A ticket whose history is left alone has no new rows.
LEMMA NoNewRows ==
    ASSUME BookInv, NEW o \in Requests, history'[o] = history[o]
    PROVE  NewRows(o) = <<>>
<1>1. Len(history[o]) \in Nat
  BY DEF BookInv, TypeInv, TypeOK
<1>. QED
  BY <1>1, SubSeqEmpty DEF NewRows

\* A ticket whose history gets rows.
LEMMA RowsAdded ==
    ASSUME BookInv, NEW o \in Requests, NEW t \in Seq(HistoryRow),
           history'[o] = history[o] \o t
    PROVE  NewRows(o) = t
<1>1. history[o] \in Seq(HistoryRow)
  BY DEF BookInv, TypeInv, TypeOK
<1>. QED
  BY <1>1, AppendedRows DEF NewRows

\* A single row.
LEMMA RowAdded ==
    ASSUME BookInv, NEW o \in Requests, NEW row \in HistoryRow,
           history'[o] = Append(history[o], row)
    PROVE  NewRows(o) = <<row>> /\ NewRows(o)[1] = row
<1>0. <<row>> \in Seq(HistoryRow)
  OBVIOUS
<1>1. PICK t \in Seq(HistoryRow) : t = <<row>>
  BY <1>0, Zenon
<1>2. history'[o] = history[o] \o t
  BY <1>1, AppendIsConcat DEF BookInv, TypeInv, TypeOK
<1>3. NewRows(o) = t
  BY <1>2, RowsAdded
<1>. QED
  BY <1>1, <1>3

\* Guests write rows of their own.
LEMMA GuestRows ==
    ASSUME BookInv, NEW r \in Requests, NEW o \in Requests, GuestStep(r)
    PROVE  NewRows(o) = <<>> \/ NewRows(o)[1].by = "guest"
<1>1. CASE GuestCreate(r)
  <2>1. CASE o # r
    <3>1. history'[o] = history[o]
      BY <1>1, <2>1 DEF GuestCreate, BookInv, TypeInv, TypeOK
    <3>. QED
      BY <3>1, NoNewRows
  <2>2. CASE o = r
    <3> DEFINE row == [old |-> NoStatus, new |-> "PENDING", by |-> "guest"]
    <3>1. history'[o] = <<row>> /\ Len(history[o]) \in Nat
      BY <1>1, <2>2 DEF GuestCreate, BookInv, TypeInv, TypeOK
    <3>2. NewRows(o) = SubSeq(<<row>>, Len(history[o]) + 1, 1)
      BY <3>1 DEF NewRows
    <3>3. CASE Len(history[o]) = 0
      <4>1. <<row>> \in Seq(HistoryRow) /\ Len(<<row>>) = 1
        BY DEF HistoryRow, OrderStatus, Active
      <4>2. SubSeq(<<row>>, 1, 1) = <<row>>
        BY <4>1, SubSeqFull
      <4>. QED
        BY <3>2, <3>3, <4>2
    <3>4. CASE Len(history[o]) # 0
      BY <3>1, <3>2, <3>4, SubSeqEmpty
    <3>. QED
      BY <3>3, <3>4
  <2>. QED
    BY <2>1, <2>2
<1>2. CASE GuestAppend(r)
  <2>1. CASE o = guest[r].target /\ Reopens(r)
    <3>1. PICK row \in HistoryRow :
             row = [old |-> guest[r].seen, new |-> "PREPARING", by |-> "guest"]
      BY DEF HistoryRow, BookInv, TypeInv, TypeOK, GuestTxn, OrderStatus, Active
    <3>2. history'[o] = Append(history[o], row)
      BY <1>2, <2>1, <3>1 DEF GuestAppend, BookInv, TypeInv, TypeOK
    <3>. QED
      BY <3>1, <3>2, RowAdded
  <2>2. CASE ~(o = guest[r].target /\ Reopens(r))
    <3>1. history'[o] = history[o]
      BY <1>2, <2>2 DEF GuestAppend, BookInv, TypeInv, TypeOK
    <3>. QED
      BY <3>1, NoNewRows
  <2>. QED
    BY <2>1, <2>2
<1>3. CASE \/ GuestReplay(r) \/ GuestRefuse(r) \/ GuestCheck(r) \/ GuestLock(r)
           \/ GuestConflict(r) \/ GuestAbort(r)
  <2>1. history' = history
    BY <1>3 DEF GuestReplay, GuestRefuse, GuestCheck, GuestLock, GuestConflict,
                GuestAbort
  <2>. QED
    BY <2>1, NoNewRows
<1>. QED
  BY <1>1, <1>2, <1>3 DEF GuestStep

\* A sweep writes one row for each ticket it has read.
LEMMA SweepRows ==
    ASSUME BookInv, NEW w \in Sweepers, NEW o \in Requests, SweepStep(w)
    PROVE  \/ NewRows(o) = <<>>
           \/ NewRows(o)[1].by = "sweep" /\ sweep[w].writing /\ o \in Swept(w)
<1>1. CASE SweepWrite(w) /\ o \in Swept(w)
  <2>1. PICK row \in HistoryRow :
           row = [old |-> sweep[w].stale[o], new |-> "COMPLETED", by |-> "sweep"]
    <3>1. sweep[w].stale[o] \in OrderStatus \cup {NoStatus}
      BY DEF BookInv, TypeInv, TypeOK, SweepTxn
    <3>2. "COMPLETED" \in OrderStatus
      BY DEF OrderStatus, Terminal
    <3>. QED
      BY <3>1, <3>2 DEF HistoryRow
  <2>2. history'[o] = Append(history[o], row)
    BY <1>1, <2>1 DEF SweepWrite
  <2>3. sweep[w].writing
    BY <1>1 DEF SweepWrite
  <2>. QED
    BY <1>1, <2>1, <2>2, <2>3, RowAdded
<1>2. CASE (SweepWrite(w) /\ o \notin Swept(w)) \/ SweepRead(w) \/ SweepAbort(w)
  <2>1. history'[o] = history[o]
    BY <1>2 DEF SweepWrite, SweepRead, SweepAbort
  <2>. QED
    BY <2>1, NoNewRows
<1>. QED
  BY <1>1, <1>2 DEF SweepStep

-----------------------------------------------------------------------------
(* Staff follow the lifecycle. *)

\* A path a staff write may take from a status: hop by hop along transitions.
Legal(path, from) ==
    /\ path \in Seq(OrderStatus) /\ path # <<>>
    /\ path[1] \in StatusTransitions[from]
    /\ \A i \in 2 .. Len(path) : path[i] \in StatusTransitions[path[i - 1]]

\* The happy path is made of allowed transitions.
LEMMA HappyPathHops ==
    \A i \in 1 .. 5 : HappyPath[i + 1] \in StatusTransitions[HappyPath[i]]
<1>1. /\ HappyPath[1] = "PENDING" /\ HappyPath[2] = "ACCEPTED"
      /\ HappyPath[3] = "PREPARING" /\ HappyPath[4] = "READY"
      /\ HappyPath[5] = "SERVED" /\ HappyPath[6] = "COMPLETED"
  BY DEF HappyPath
<1>2. /\ "ACCEPTED" \in StatusTransitions["PENDING"]
      /\ "PREPARING" \in StatusTransitions["ACCEPTED"]
      /\ "READY" \in StatusTransitions["PREPARING"]
      /\ "SERVED" \in StatusTransitions["READY"]
      /\ "COMPLETED" \in StatusTransitions["SERVED"]
  BY DEF StatusTransitions
<1> SUFFICES ASSUME NEW i \in 1 .. 5
             PROVE  HappyPath[i + 1] \in StatusTransitions[HappyPath[i]]
  OBVIOUS
<1>3. i = 1 \/ i = 2 \/ i = 3 \/ i = 4 \/ i = 5
  OBVIOUS
<1>. QED
  BY <1>1, <1>2, <1>3

\* advance_to passes through every status between, in order.
LEMMA PathIsLegal ==
    ASSUME NEW current, NEW target, PathBetween(current, target) # <<>>
    PROVE  Legal(PathBetween(current, target), current)
<1>1. {current, target} \subseteq Range(HappyPath)
  BY PathEnds
<1>2. DOMAIN HappyPath = 1 .. 6 /\ \E j \in 1 .. 6 : HappyPath[j] = current
  BY <1>1 DEF HappyPath, Range
<1>3. HappyPath[PathIndex(current)] = current
  BY <1>2 DEF PathIndex
<1>4. PathIndex(current) \in 1 .. 6 /\ PathIndex(target) \in 1 .. 6
  BY <1>1, PathIndexType
<1> DEFINE k == PathIndex(current)
           n == PathIndex(target) - k
           path == PathBetween(current, target)
<1>5. path = [i \in 1 .. n |-> HappyPath[k + i]]
  BY <1>1 DEF PathBetween
<1>6. n \in Nat \ {0}
  <2>1. CASE n <= 0
    <3>1. 1 .. n = {}
      BY <1>4, <2>1
    <3>. QED
      BY <1>5, <3>1
  <2>. QED
    BY <1>4, <2>1
<1>7. Len(path) = n
  BY <1>5, <1>6
<1>8. k \in 1 .. 6 /\ n \in Nat /\ k + n <= 6 /\ HappyPath[k] = current
  BY <1>3, <1>4, <1>6
<1> HIDE DEF k, n, path
<1>9. path[1] \in StatusTransitions[current]
  <2>1. path[1] = HappyPath[k + 1] /\ k \in 1 .. 5
    BY <1>5, <1>6, <1>8
  <2>. QED
    BY <1>8, <2>1, HappyPathHops
<1>10. ASSUME NEW i \in 2 .. Len(path)
       PROVE  path[i] \in StatusTransitions[path[i - 1]]
  <2>1. path[i] = HappyPath[k + i] /\ path[i - 1] = HappyPath[k + i - 1]
    BY <1>5, <1>7, <1>8
  <2>2. k + i - 1 \in 1 .. 5 /\ k + i = (k + i - 1) + 1
    BY <1>7, <1>8
  <2>. QED
    BY <2>1, <2>2, HappyPathHops
<1>11. path \in Seq(OrderStatus) /\ path # <<>>
  BY PathBetweenType DEF path
<1>. QED
  BY <1>9, <1>10, <1>11 DEF Legal, path

\* What StaffFollowLifecycle says of one ticket.
FollowsLifecycle(o) ==
    LET rows == NewRows(o) IN
    (rows # <<>> /\ rows[1].by = "staff") =>
        /\ rows[1].old = orders[o].status
        /\ \A i \in DOMAIN rows : rows[i].new \in StatusTransitions[rows[i].old]
        /\ \A i \in 2 .. Len(rows) : rows[i].old = rows[i - 1].new
        /\ rows[Len(rows)].new = orders'[o].status

\* The rows of a staff write are staff's, start at the stored status and lead to
\* the new one.
LEMMA StaffRows ==
    ASSUME BookInv, NEW s \in Staff, NEW path, Legal(path, staff[s].seen),
           staff[s].holding, StaffWrite(s, path), NEW o \in Requests
    PROVE  /\ FollowsLifecycle(o)
           /\ NewRows(o) = <<>> \/ NewRows(o)[1].by = "staff"
<1>1. CASE o # staff[s].order
  <2>1. history'[o] = history[o]
    BY <1>1 DEF StaffWrite, BookInv, TypeInv, TypeOK
  <2>. QED
    BY <2>1, NoNewRows DEF FollowsLifecycle
<1>2. CASE o = staff[s].order
  <2> DEFINE From(i) == IF i = 1 THEN staff[s].seen ELSE path[i - 1]
  <2>1. /\ Len(path) \in Nat \ {0} /\ DOMAIN path = 1 .. Len(path)
        /\ \A i \in DOMAIN path : path[i] \in OrderStatus
        /\ Last(path) = path[Len(path)]
    BY DEF Legal, Last
  <2>2. staff[s].seen \in OrderStatus /\ staff[s].seen = orders[o].status
    BY <1>2 DEF BookInv, TypeInv, HeldRow, ReadsHold, StaffReadsHold
  <2>3. \A i \in DOMAIN path : From(i) \in OrderStatus
    BY <2>1, <2>2
  <2>4. PICK rows \in Seq(HistoryRow) :
           rows = [i \in DOMAIN path |-> [old |-> From(i), new |-> path[i],
                                           by |-> "staff"]]
    <3>1. \A i \in DOMAIN path : [old |-> From(i), new |-> path[i],
                                   by |-> "staff"] \in HistoryRow
      BY <2>1, <2>3 DEF HistoryRow
    <3>2. [i \in DOMAIN path |-> [old |-> From(i), new |-> path[i], by |-> "staff"]]
             \in [1 .. Len(path) -> HistoryRow]
      BY <2>1, <3>1
    <3> DEFINE f == [i \in DOMAIN path |-> [old |-> From(i), new |-> path[i],
                                            by |-> "staff"]]
    <3> HIDE DEF f
    <3>3. f \in Seq(HistoryRow)
      BY <2>1, <3>2 DEF f
    <3>4. \E rows \in Seq(HistoryRow) : rows = f
      BY <3>3, Zenon
    <3>. QED
      BY <3>4 DEF f
  <2>5. history'[o] = history[o] \o rows
    BY <1>2, <2>4 DEF StaffWrite, BookInv, TypeInv, TypeOK
  <2>6. NewRows(o) = rows
    BY <2>5, RowsAdded
  <2>7. orders'[o].status = path[Len(path)]
    BY <1>2, <2>1, MovedTicketFields DEF StaffWrite, BookInv, TypeInv, TypeOK
  <2>8. Len(rows) = Len(path) /\ DOMAIN rows = DOMAIN path
    BY <2>1, <2>4
  <2>9. \A i \in 1 .. Len(path) :
          /\ rows[i].old = From(i) /\ rows[i].new = path[i] /\ rows[i].by = "staff"
    BY <2>1, <2>4
  <2>10. \A i \in 1 .. Len(path) : path[i] \in StatusTransitions[From(i)]
    BY <2>1 DEF Legal
  <2> HIDE DEF From
  <2>11. From(1) = staff[s].seen /\ \A i \in 2 .. Len(path) : From(i) = path[i - 1]
    BY DEF From
  <2>12. rows[1].old = orders[o].status
    BY <2>1, <2>2, <2>9, <2>11
  <2>13. \A i \in DOMAIN rows : rows[i].new \in StatusTransitions[rows[i].old]
    BY <2>1, <2>8, <2>9, <2>10
  <2>14. \A i \in 2 .. Len(rows) : rows[i].old = rows[i - 1].new
    BY <2>1, <2>8, <2>9, <2>11
  <2>15. rows[Len(rows)].new = orders'[o].status
    BY <2>1, <2>7, <2>8, <2>9
  <2>. QED
    BY <2>1, <2>6, <2>9, <2>12, <2>13, <2>14, <2>15 DEF FollowsLifecycle
<1>. QED
  BY <1>1, <1>2

\* Every step follows the lifecycle.
LEMMA NextFollowsLifecycle ==
    BookInv /\ [Next]_vars => [\A o \in Requests : FollowsLifecycle(o)]_vars
<1> SUFFICES ASSUME BookInv, Next, NEW o \in Requests
             PROVE  FollowsLifecycle(o)
  OBVIOUS
<1>1. ASSUME NEW r \in Requests, GuestStep(r) PROVE FollowsLifecycle(o)
  BY <1>1, GuestRows DEF FollowsLifecycle
<1>2. ASSUME NEW w \in Sweepers, SweepStep(w) PROVE FollowsLifecycle(o)
  BY <1>2, SweepRows DEF FollowsLifecycle
<1>3. ASSUME NEW s \in Staff, StaffStep(s) PROVE FollowsLifecycle(o)
  <2>1. CASE StaffTransition(s)
    <3>1. PICK new \in StatusTransitions[staff[s].seen] : StaffWrite(s, <<new>>)
      BY <2>1 DEF StaffTransition
    <3>2. staff[s].seen \in OrderStatus
      BY <2>1 DEF StaffTransition, BookInv, TypeInv, HeldRow
    <3>3. Legal(<<new>>, staff[s].seen)
      BY <3>1, <3>2, TransitionType DEF Legal
    <3>. QED
      BY <2>1, <3>1, <3>3, StaffRows DEF StaffTransition
  <2>2. CASE StaffAdvance(s)
    BY <2>2, PathIsLegal, StaffRows DEF StaffAdvance
  <2>3. CASE StaffLock(s) \/ StaffRefuse(s)
    <3>1. history'[o] = history[o]
      BY <2>3 DEF StaffLock, StaffRefuse
    <3>. QED
      BY <3>1, NoNewRows DEF FollowsLifecycle
  <2>. QED
    BY <1>3, <2>1, <2>2, <2>3 DEF StaffStep
<1>4. CASE Tick
  BY <1>4, NoNewRows DEF Tick, FollowsLifecycle
<1>. QED
  BY <1>1, <1>2, <1>3, <1>4 DEF Next

\* Staff never act on a status another session has changed since they read it,
\* and never skip a status: _transition and advance_to under the row lock.
THEOREM LifecycleFollowed == Spec => StaffFollowLifecycle
BY BookInvHolds, NextFollowsLifecycle, PTL
   DEF Spec, StaffFollowLifecycle, FollowsLifecycle

-----------------------------------------------------------------------------
(* What revives a ticket. *)

\* What OnlyOverlappingAppendRevives says of one ticket.
RevivedByAppend(o) ==
    (orders[o].status \in Terminal /\ orders'[o].status \notin Terminal) =>
        \E r \in Requests : guest[r].phase = "append" /\ guest[r].target = o
                            /\ guest[r].seen \in {"READY", "SERVED"}

\* Staff write over the status they read, which was open; a sweep closes.
LEMMA NextRevives ==
    BookInv /\ [Next]_vars => [\A o \in Requests : RevivedByAppend(o)]_vars
<1> SUFFICES ASSUME BookInv, Next, NEW o \in Requests
             PROVE  RevivedByAppend(o)
  OBVIOUS
<1>1. ASSUME NEW r \in Requests, GuestStep(r) PROVE RevivedByAppend(o)
  <2>1. CASE GuestCreate(r)
    <3>1. orders[r].status \notin Terminal
      BY <2>1 DEF GuestCreate, BookInv, ReadsHold, UnansweredHasNoTicket, Exists,
                  Terminal, NoStatus
    <3>2. o # r => orders'[o] = orders[o]
      BY <2>1 DEF GuestCreate, BookInv, TypeInv, TypeOK
    <3>. QED
      BY <3>1, <3>2 DEF RevivedByAppend
  <2>2. CASE GuestAppend(r)
    <3>1. CASE o # guest[r].target
      BY <2>2, <3>1 DEF GuestAppend, BookInv, TypeInv, TypeOK, RevivedByAppend
    <3>2. CASE o = guest[r].target /\ Reopens(r)
      BY <2>2, <3>2 DEF GuestAppend, Reopens, RevivedByAppend
    <3>3. CASE o = guest[r].target /\ ~Reopens(r)
      <4>1. orders'[o] = Extended(r, orders[o]) /\ orders[o] \in Ticket
        BY <2>2, <3>3 DEF GuestAppend, BookInv, TypeInv, TypeOK
      <4>2. orders'[o].status = orders[o].status
        BY <3>3, <4>1 DEF Ticket, Extended
      <4>. QED
        BY <4>2 DEF RevivedByAppend
    <3>. QED
      BY <3>1, <3>2, <3>3
  <2>3. CASE \/ GuestReplay(r) \/ GuestRefuse(r) \/ GuestCheck(r) \/ GuestLock(r)
             \/ GuestConflict(r) \/ GuestAbort(r)
    BY <2>3 DEF GuestReplay, GuestRefuse, GuestCheck, GuestLock, GuestConflict,
                GuestAbort, RevivedByAppend
  <2>. QED
    BY <1>1, <2>1, <2>2, <2>3 DEF GuestStep
<1>2. ASSUME NEW s \in Staff, NEW path, staff[s].holding,
             staff[s].seen \notin Terminal, StaffWrite(s, path)
      PROVE  RevivedByAppend(o)
  BY <1>2 DEF StaffWrite, BookInv, TypeInv, TypeOK, HeldRow, ReadsHold,
              StaffReadsHold, RevivedByAppend
<1>3. ASSUME NEW s \in Staff, StaffStep(s) PROVE RevivedByAppend(o)
  <2>1. CASE StaffTransition(s)
    BY <1>2, <2>1 DEF StaffTransition
  <2>2. CASE StaffAdvance(s)
    BY <1>2, <2>2 DEF StaffAdvance
  <2>3. CASE StaffLock(s) \/ StaffRefuse(s)
    BY <2>3 DEF StaffLock, StaffRefuse, RevivedByAppend
  <2>. QED
    BY <1>3, <2>1, <2>2, <2>3 DEF StaffStep
<1>4. ASSUME NEW w \in Sweepers, SweepStep(w) PROVE RevivedByAppend(o)
  <2>1. CASE SweepWrite(w) /\ o \in Swept(w)
    <3>1. orders'[o] = [orders[o] EXCEPT !.status = "COMPLETED",
                                         !.updatedAt = sweep[w].begun]
      BY <2>1 DEF SweepWrite
    <3>2. orders'[o].status = "COMPLETED"
      BY <3>1 DEF BookInv, TypeInv, TypeOK, Ticket
    <3>. QED
      BY <3>2 DEF RevivedByAppend, Terminal
  <2>2. CASE (SweepWrite(w) /\ o \notin Swept(w)) \/ SweepRead(w) \/ SweepAbort(w)
    BY <2>2 DEF SweepWrite, SweepRead, SweepAbort, RevivedByAppend
  <2>. QED
    BY <1>4, <2>1, <2>2 DEF SweepStep
<1>5. CASE Tick
  BY <1>5 DEF Tick, RevivedByAppend
<1>. QED
  BY <1>1, <1>3, <1>4, <1>5 DEF Next

\* A closed ticket comes back only through an append that read it READY or SERVED
\* before it was closed and still holds the venue row.
THEOREM OnlyAppendsRevive == Spec => OnlyOverlappingAppendRevives
BY BookInvHolds, NextRevives, PTL
   DEF Spec, OnlyOverlappingAppendRevives, RevivedByAppend

-----------------------------------------------------------------------------
(* What no step changes. *)

\* A ticket keeps its date, its day and its number, and comes only from the commit
\* of its own request.
Endures(o) ==
    /\ Exists(o) => /\ Exists(o)'
                    /\ orders'[o].createdAt = orders[o].createdAt
                    /\ orders'[o].day = orders[o].day
                    /\ orders'[o].number = orders[o].number
    /\ ~Exists(o) /\ Exists(o)' => GuestCreate(o)

\* Every ticket endures every step.
LEMMA RowsEndure ==
    ASSUME BookInv, [Next]_vars
    PROVE  \A o \in Requests : Endures(o)
<1> SUFFICES ASSUME NEW o \in Requests PROVE Endures(o)
  OBVIOUS
<1>1. orders[o] \in Ticket
  BY DEF BookInv, TypeInv, TypeOK
<1>2. ASSUME orders'[o] = orders[o] PROVE Endures(o)
  BY <1>2 DEF Endures, Exists
<1>3. ASSUME NEW r \in Requests, GuestStep(r) PROVE Endures(o)
  <2>1. CASE GuestCreate(r) /\ o = r
    BY <2>1 DEF GuestCreate, BookInv, ReadsHold, UnansweredHasNoTicket, Endures
  <2>2. CASE GuestCreate(r) /\ o # r
    BY <1>2, <2>2 DEF GuestCreate, BookInv, TypeInv, TypeOK
  <2>3. CASE GuestAppend(r) /\ o = guest[r].target
    <3>1. orders'[o] = Extended(r, orders[o]) /\ Exists(o)
      BY <2>3 DEF GuestAppend, BookInv, TypeInv, TypeOK, ReadsHold, AppendReadsHold
    <3>2. /\ orders'[o].createdAt = orders[o].createdAt
          /\ orders'[o].day = orders[o].day
          /\ orders'[o].number = orders[o].number
          /\ orders'[o].status \in {orders[o].status, "PREPARING"}
      BY <1>1, <3>1 DEF Ticket, Extended
    <3>. QED
      BY <3>1, <3>2 DEF Endures, Exists, NoStatus
  <2>4. CASE GuestAppend(r) /\ o # guest[r].target
    BY <1>2, <2>4 DEF GuestAppend, BookInv, TypeInv, TypeOK
  <2>5. CASE \/ GuestReplay(r) \/ GuestRefuse(r) \/ GuestCheck(r) \/ GuestLock(r)
             \/ GuestConflict(r) \/ GuestAbort(r)
    BY <1>2, <2>5 DEF GuestReplay, GuestRefuse, GuestCheck, GuestLock,
                      GuestConflict, GuestAbort
  <2>. QED
    BY <1>3, <2>1, <2>2, <2>3, <2>4, <2>5 DEF GuestStep
<1>4. ASSUME Exists(o), NEW status \in OrderStatus, NEW at,
             orders'[o] = [orders[o] EXCEPT !.status = status, !.updatedAt = at]
      PROVE  Endures(o)
  <2>1. /\ orders'[o].createdAt = orders[o].createdAt
        /\ orders'[o].day = orders[o].day
        /\ orders'[o].number = orders[o].number
        /\ orders'[o].status = status
    BY <1>1, <1>4 DEF Ticket
  <2>. QED
    BY <1>4, <2>1, StatusIsReal DEF Endures, Exists
<1>5. ASSUME NEW s \in Staff, NEW path, Legal(path, staff[s].seen),
             staff[s].holding, StaffWrite(s, path)
      PROVE  Endures(o)
  <2>1. CASE o # staff[s].order
    BY <1>2, <1>5, <2>1 DEF StaffWrite, BookInv, TypeInv, TypeOK
  <2>2. CASE o = staff[s].order
    <3>1. Exists(o) /\ Last(path) \in OrderStatus
      BY <1>5, <2>2 DEF BookInv, ReadsHold, StaffReadsHold, Legal, Last
    <3>2. orders'[o] = [orders[o] EXCEPT !.status = Last(path),
                                         !.updatedAt = staff[s].begun]
      BY <1>5, <2>2 DEF StaffWrite, BookInv, TypeInv, TypeOK
    <3>. QED
      BY <1>4, <3>1, <3>2
  <2>. QED
    BY <2>1, <2>2
<1>6. ASSUME NEW s \in Staff, StaffStep(s) PROVE Endures(o)
  <2>1. CASE StaffTransition(s)
    <3>1. PICK new \in StatusTransitions[staff[s].seen] : StaffWrite(s, <<new>>)
      BY <2>1 DEF StaffTransition
    <3>2. staff[s].seen \in OrderStatus
      BY <2>1 DEF StaffTransition, BookInv, TypeInv, HeldRow
    <3>3. Legal(<<new>>, staff[s].seen)
      BY <3>1, <3>2, TransitionType DEF Legal
    <3>. QED
      BY <1>5, <2>1, <3>1, <3>3 DEF StaffTransition
  <2>2. CASE StaffAdvance(s)
    BY <1>5, <2>2, PathIsLegal DEF StaffAdvance
  <2>3. CASE StaffLock(s) \/ StaffRefuse(s)
    BY <1>2, <2>3 DEF StaffLock, StaffRefuse
  <2>. QED
    BY <1>6, <2>1, <2>2, <2>3 DEF StaffStep
<1>7. ASSUME NEW w \in Sweepers, SweepStep(w) PROVE Endures(o)
  <2>1. CASE SweepWrite(w) /\ o \in Swept(w)
    <3>1. Exists(o) /\ "COMPLETED" \in OrderStatus
      BY <2>1 DEF BookInv, ReadsHold, SweptExist, OrderStatus, Terminal
    <3>2. orders'[o] = [orders[o] EXCEPT !.status = "COMPLETED",
                                         !.updatedAt = sweep[w].begun]
      BY <2>1 DEF SweepWrite
    <3>. QED
      BY <1>4, <3>1, <3>2
  <2>2. CASE (SweepWrite(w) /\ o \notin Swept(w)) \/ SweepRead(w) \/ SweepAbort(w)
    BY <1>2, <2>2 DEF SweepWrite, SweepRead, SweepAbort
  <2>. QED
    BY <1>7, <2>1, <2>2 DEF SweepStep
<1>8. CASE Tick \/ UNCHANGED vars
  BY <1>2, <1>8 DEF Tick, vars
<1>. QED
  BY <1>3, <1>6, <1>7, <1>8 DEF Next

-----------------------------------------------------------------------------
(* What a sweep closes. *)

\* A ticket a sweep holds was created more than StaleAfter ago.
SweptAreOld ==
    \A w \in Sweepers : \A o \in Swept(w) : orders[o].createdAt + StaleAfter < now

\* A step that leaves the sweeps alone, or ends one, and creates nothing a sweep
\* holds.
LEMMA OldStayOld ==
    ASSUME BookInv, SweptAreOld,
           \A o \in Requests : Exists(o) =>
               orders'[o].createdAt = orders[o].createdAt,
           now' \in Nat, now' >= now,
           \A w \in Sweepers : Swept(w)' \subseteq Swept(w)
    PROVE  SweptAreOld'
<1> SUFFICES ASSUME NEW w \in Sweepers, NEW o \in Swept(w)'
             PROVE  orders'[o].createdAt + StaleAfter < now'
  BY DEF SweptAreOld
<1>1. o \in Swept(w) /\ o \in Requests /\ Exists(o)
  BY DEF Swept, BookInv, ReadsHold, SweptExist
<1>2. orders[o].createdAt \in Nat /\ now \in Nat /\ StaleAfter \in Nat
  BY <1>1, ClockAssumption DEF BookInv, TypeInv, TypeOK, Ticket
<1>3. orders[o].createdAt + StaleAfter < now
  BY <1>1 DEF SweptAreOld
<1>4. orders'[o].createdAt = orders[o].createdAt
  BY <1>1
<1>. QED
  BY <1>2, <1>3, <1>4

\* The age of what a sweep holds is kept by every step.
LEMMA NextSweptAreOld ==
    BookInv /\ SweptAreOld /\ [Next]_vars => SweptAreOld'
<1> SUFFICES ASSUME BookInv, SweptAreOld, [Next]_vars
             PROVE  SweptAreOld'
  OBVIOUS
<1>1. now \in Nat /\ now >= now
  BY DEF BookInv, TypeInv, TypeOK
<1>2. \A o \in Requests : Exists(o) => orders'[o].createdAt = orders[o].createdAt
  BY RowsEndure DEF Endures
<1>3. ASSUME now' = now, sweep' = sweep PROVE SweptAreOld'
  <2>1. \A w \in Sweepers : Swept(w)' = Swept(w)
    BY <1>3 DEF Swept
  <2>. QED
    BY <1>1, <1>2, <1>3, <2>1, OldStayOld
<1>4. ASSUME NEW r \in Requests, GuestStep(r) PROVE SweptAreOld'
  BY <1>3, <1>4
     DEF GuestStep, GuestReplay, GuestRefuse, GuestCheck, GuestLock, GuestCreate,
         GuestAppend, GuestConflict, GuestAbort
<1>5. ASSUME NEW s \in Staff, StaffStep(s) PROVE SweptAreOld'
  BY <1>3, <1>5
     DEF StaffStep, StaffLock, StaffTransition, StaffAdvance, StaffRefuse, StaffWrite
<1>6. ASSUME NEW w \in Sweepers, SweepStep(w) PROVE SweptAreOld'
  <2>1. CASE SweepRead(w)
    <3>1. orders' = orders /\ now' = now
      BY <2>1 DEF SweepRead
    <3>2. \A v \in Sweepers \ {w} : Swept(v)' = Swept(v)
      BY <2>1 DEF SweepRead, Swept, BookInv, TypeInv, TypeOK
    <3>3. \A o \in Swept(w)' : IsStale(o)
      BY <2>1 DEF SweepRead, Swept, BookInv, TypeInv, TypeOK
    <3>. QED
      BY <3>1, <3>2, <3>3 DEF SweptAreOld, IsStale
  <2>2. CASE SweepWrite(w) \/ SweepAbort(w)
    <3>1. now' = now /\ sweep' = [sweep EXCEPT ![w] = IdleSweep]
      BY <2>2 DEF SweepWrite, SweepAbort
    <3>2. \A v \in Sweepers : Swept(v)' \subseteq Swept(v)
      BY <3>1 DEF Swept, IdleSweep, BookInv, TypeInv, TypeOK
    <3>. QED
      BY <1>1, <1>2, <3>1, <3>2, OldStayOld
  <2>. QED
    BY <1>6, <2>1, <2>2 DEF SweepStep
<1>7. CASE Tick \/ UNCHANGED vars
  <2>1. sweep' = sweep /\ now' \in Nat /\ now' >= now
    BY <1>1, <1>7 DEF Tick, vars
  <2>2. \A w \in Sweepers : Swept(w)' = Swept(w)
    BY <2>1 DEF Swept
  <2>. QED
    BY <1>2, <2>1, <2>2, OldStayOld
<1>. QED
  BY <1>4, <1>5, <1>6, <1>7 DEF Next

\* What SweepSparesYoungTickets says of one ticket.
SparedWhileYoung(o) ==
    LET rows == NewRows(o) IN
    (rows # <<>> /\ rows[1].by = "sweep") => orders[o].createdAt + StaleAfter < now

\* Only sweeps write rows of a sweep, and only for the tickets they hold.
LEMMA NextSpares ==
    BookInv /\ SweptAreOld /\ [Next]_vars
      => [\A o \in Requests : SparedWhileYoung(o)]_vars
<1> SUFFICES ASSUME BookInv, SweptAreOld, Next, NEW o \in Requests
             PROVE  SparedWhileYoung(o)
  OBVIOUS
<1>1. ASSUME NEW r \in Requests, GuestStep(r) PROVE SparedWhileYoung(o)
  BY <1>1, GuestRows DEF SparedWhileYoung
<1>2. ASSUME NEW w \in Sweepers, SweepStep(w) PROVE SparedWhileYoung(o)
  BY <1>2, SweepRows DEF SparedWhileYoung, SweptAreOld
<1>3. ASSUME NEW s \in Staff, StaffStep(s) PROVE SparedWhileYoung(o)
  <2>1. ASSUME NEW path, Legal(path, staff[s].seen), staff[s].holding,
               StaffWrite(s, path)
        PROVE  NewRows(o) = <<>> \/ NewRows(o)[1].by = "staff"
    BY <2>1, StaffRows
  <2>2. CASE StaffTransition(s)
    <3>1. PICK new \in StatusTransitions[staff[s].seen] : StaffWrite(s, <<new>>)
      BY <2>2 DEF StaffTransition
    <3>2. staff[s].seen \in OrderStatus
      BY <2>2 DEF StaffTransition, BookInv, TypeInv, HeldRow
    <3>3. Legal(<<new>>, staff[s].seen)
      BY <3>1, <3>2, TransitionType DEF Legal
    <3>. QED
      BY <2>1, <2>2, <3>1, <3>3 DEF StaffTransition, SparedWhileYoung
  <2>3. CASE StaffAdvance(s)
    BY <2>1, <2>3, PathIsLegal DEF StaffAdvance, SparedWhileYoung
  <2>4. CASE StaffLock(s) \/ StaffRefuse(s)
    <3>1. history'[o] = history[o]
      BY <2>4 DEF StaffLock, StaffRefuse
    <3>. QED
      BY <3>1, NoNewRows DEF SparedWhileYoung
  <2>. QED
    BY <1>3, <2>2, <2>3, <2>4 DEF StaffStep
<1>4. CASE Tick
  BY <1>4, NoNewRows DEF Tick, SparedWhileYoung
<1>. QED
  BY <1>1, <1>2, <1>3, <1>4 DEF Next

\* auto_close_stale closes no ticket created within the last STALE_ORDER_HOURS,
\* however long it waits for the row locks between its read and its write.
THEOREM YoungTicketsSpared == Spec => SweepSparesYoungTickets
<1>1. Init => SweptAreOld
  BY DEF Init, SweptAreOld, Swept, IdleSweep
<1>. QED
  BY <1>1, BookInvHolds, NextSweptAreOld, NextSpares, PTL
     DEF Spec, SweepSparesYoungTickets, SparedWhileYoung

-----------------------------------------------------------------------------
(* The kitchen numbers of a day have no gap. *)

\* The number of a request that is about to insert follows one in use, or is 1.
NumberFollows ==
    \A r \in Requests : guest[r].phase = "create" =>
        \/ guest[r].number = 1
        \/ \E o \in Requests : /\ Exists(o) /\ orders[o].day = guest[r].day
                               /\ orders[o].number + 1 = guest[r].number

NumberInv == NumberFollows /\ NumbersHaveNoGap

\* What was found in use is still in use when the request inserts.
LEMMA NextNumberFollows ==
    ASSUME BookInv, NumberInv, [Next]_vars
    PROVE  NumberFollows'
<1> SUFFICES ASSUME NEW r \in Requests, guest'[r].phase = "create"
             PROVE  \/ guest'[r].number = 1
                    \/ \E o \in Requests :
                          /\ Exists(o)' /\ orders'[o].day = guest'[r].day
                          /\ orders'[o].number + 1 = guest'[r].number
  BY DEF NumberFollows
<1>1. CASE guest'[r] = guest[r]
  <2>1. \A o \in Requests : Endures(o)
    BY RowsEndure
  <2>. QED
    BY <1>1, <2>1 DEF NumberInv, NumberFollows, Endures
<1>2. CASE guest'[r] # guest[r]
  <2>1. GuestLock(r)
    <3>1. PICK q \in Requests : GuestStep(q)
      BY <1>2 DEF Next, vars, Tick, StaffStep, StaffLock, StaffTransition,
                  StaffAdvance, StaffRefuse, StaffWrite, SweepStep, SweepRead,
                  SweepWrite, SweepAbort
    <3>2. GuestCheck(q) => guest'[q].phase = "checked"
      BY DEF GuestCheck, BookInv, TypeInv, TypeOK, GuestTxn
    <3>3. \/ GuestReplay(q) \/ GuestRefuse(q) \/ GuestCreate(q) \/ GuestAppend(q)
          \/ GuestConflict(q) \/ GuestAbort(q)
          => guest'[q].phase = "done"
      <4>1. ASSUME NEW reply, NEW o, Answer(q, reply, o)
            PROVE  guest'[q].phase = "done"
        BY <4>1 DEF Answer, IdleGuest, BookInv, TypeInv, TypeOK
      <4>2. GuestAppend(q) => guest'[q].phase = "done"
        BY DEF GuestAppend, Answer, IdleGuest, BookInv, TypeInv, TypeOK
      <4>. QED
        BY <4>1, <4>2 DEF GuestReplay, GuestRefuse, GuestCreate, GuestConflict,
                          GuestAbort
    <3>4. q = r
      BY <1>2, <3>1 DEF GuestStep, GuestReplay, GuestRefuse, GuestCheck, GuestLock,
             GuestCreate, GuestAppend, GuestConflict, GuestAbort, Answer, BookInv,
             TypeInv, TypeOK
    <3>. QED
      BY <3>1, <3>2, <3>3, <3>4 DEF GuestStep
  <2>2. PICK n \in 1 .. Cardinality(Requests) :
           /\ IsNextNumber(n, Today)
           /\ guest' = [guest EXCEPT ![r] =
                          [@ EXCEPT !.phase = "create", !.day = Today,
                                    !.number = n]]
    <3>1. ASSUME NEW o \in Requests,
                 guest' = [guest EXCEPT ![r] =
                             [@ EXCEPT !.phase = "append", !.target = o,
                                       !.seen = orders[o].status,
                                       !.base = orders[o].lines]]
          PROVE  FALSE
      <4>1. guest[r] \in GuestTxn
        BY DEF BookInv, TypeInv, TypeOK
      <4>2. guest'[r].phase = "append"
        BY <3>1, <4>1 DEF BookInv, TypeInv, TypeOK, GuestTxn
      <4>. QED
        BY <4>2
    <3>. QED
      BY <2>1, <3>1 DEF GuestLock
  <2>3. guest'[r].number = n /\ guest'[r].day = Today /\ orders' = orders
    <3>1. guest[r] \in GuestTxn
      BY DEF BookInv, TypeInv, TypeOK
    <3>2. guest'[r] = [guest[r] EXCEPT !.phase = "create", !.day = Today,
                                       !.number = n]
      BY <2>2 DEF BookInv, TypeInv, TypeOK
    <3>3. guest'[r].number = n /\ guest'[r].day = Today
      BY <3>1, <3>2 DEF GuestTxn
    <3>. QED
      BY <2>1, <3>3 DEF GuestLock
  <2>. QED
    BY <2>2, <2>3 DEF IsNextNumber, Exists
<1>. QED
  BY <1>1, <1>2

\* A new number follows one below which there is no gap.
LEMMA NextNoGap ==
    ASSUME BookInv, NumberInv, [Next]_vars
    PROVE  NumbersHaveNoGap'
<1> SUFFICES ASSUME NEW o \in Requests, Exists(o)', NEW n \in 1 .. orders'[o].number
             PROVE  \E q \in Requests : /\ Exists(q)' /\ orders'[q].day = orders'[o].day
                                        /\ orders'[q].number = n
  BY DEF NumbersHaveNoGap
<1>1. \A q \in Requests : Endures(q)
  BY RowsEndure
<1>2. ASSUME NEW p \in Requests, Exists(p), NEW m \in 1 .. orders[p].number
      PROVE  \E q \in Requests : /\ Exists(q)' /\ orders'[q].day = orders[p].day
                                 /\ orders'[q].number = m
  BY <1>1, <1>2 DEF NumberInv, NumbersHaveNoGap, Endures
<1>3. CASE Exists(o)
  BY <1>1, <1>2, <1>3 DEF Endures
<1>4. CASE ~Exists(o)
  <2>1. GuestCreate(o)
    BY <1>1, <1>4 DEF Endures
  <2>2. /\ orders'[o].number = guest[o].number /\ orders'[o].day = guest[o].day
        /\ guest[o].phase = "create" /\ guest[o].number \in Nat
    BY <2>1 DEF GuestCreate, BookInv, TypeInv, TypeOK, GuestTxn
  <2>3. CASE n = guest[o].number
    BY <2>2, <2>3
  <2>4. CASE n # guest[o].number
    <3>1. PICK p \in Requests : /\ Exists(p) /\ orders[p].day = guest[o].day
                               /\ orders[p].number + 1 = guest[o].number
      BY <2>2, <2>4 DEF NumberInv, NumberFollows
    <3>2. orders[p].number \in Nat
      BY DEF BookInv, TypeInv, TypeOK, Ticket
    <3>3. n \in 1 .. orders[p].number
      BY <2>2, <2>4, <3>1, <3>2
    <3>. QED
      BY <1>2, <2>2, <3>1, <3>3
  <2>. QED
    BY <2>3, <2>4
<1>. QED
  BY <1>3, <1>4

\* get_next_order_number under the venue lock hands out 1, 2, ... of each day,
\* requests that fail and a midnight between read and insert included.
THEOREM NumbersRunOn == Spec => []NumbersHaveNoGap
<1>1. Init => NumberInv
  BY DEF Init, NumberInv, NumberFollows, NumbersHaveNoGap, Exists, NoTicket,
         IdleGuest
<1>2. BookInv /\ NumberInv /\ [Next]_vars => NumberInv'
  BY NextNumberFollows, NextNoGap DEF NumberInv
<1>3. NumberInv => NumbersHaveNoGap
  BY DEF NumberInv
<1>. QED
  BY <1>1, <1>2, <1>3, BookInvHolds, PTL DEF Spec
-----------------------------------------------------------------------------
(* What a ticket remembers of the keys of its rounds. *)

\* A ticket that took a keyed round holds its key, or took one with another key.
KeyKept(o) ==
    \A a \in orders[o].lines :
        /\ Exists(o)
        /\ \/ KeyOf[a] \in {NoKey, orders[o].key}
           \/ \E b \in orders[o].lines : KeyOf[b] \notin {NoKey, KeyOf[a]}

KeysKept == \A o \in Requests : KeyKept(o)

\* A request passes for new although a ticket has taken its key only if a round
\* with another key joined that ticket.
ForgottenOnlyForAnother(r) ==
    guest[r].phase = "idle" /\ guest'[r].phase = "checked" =>
        \A o \in Requests : \A a \in orders[o].lines :
            KeyOf[r] # NoKey /\ KeyOf[a] = KeyOf[r] =>
                \E b \in orders[o].lines : KeyOf[b] \notin {NoKey, KeyOf[r]}

OnlyAnotherKeyForgets ==
    [][\A r \in Requests : ForgottenOnlyForAnother(r)]_vars

\* A step that writes neither key nor lines keeps what a ticket remembers.
LEMMA KeyRests ==
    ASSUME NEW o \in Requests, KeyKept(o), Exists(o) => Exists(o)',
           orders'[o].key = orders[o].key, orders'[o].lines = orders[o].lines
    PROVE  KeyKept(o)'
BY DEF KeyKept

\* An append stores the key of its round, if it has one.
LEMMA AppendKeepsKeys ==
    ASSUME BookInv, KeysKept, NEW r \in Requests, GuestAppend(r),
           NEW o \in Requests, o = guest[r].target
    PROVE  KeyKept(o)'
<1>1. Exists(o)
  BY DEF GuestAppend, BookInv, ReadsHold, AppendReadsHold, TypeInv, AppendTarget
<1>2. orders[o] \in Ticket /\ orders'[o] = Extended(r, orders[o])
  BY <1>1 DEF GuestAppend, BookInv, TypeInv, TypeOK
<1>3. /\ orders'[o].lines = orders[o].lines \cup {r}
      /\ orders'[o].key = IF KeyOf[r] = NoKey THEN orders[o].key ELSE KeyOf[r]
      /\ orders'[o].status \in {orders[o].status, "PREPARING"}
  BY <1>2 DEF Extended, Ticket
<1>4. Exists(o)'
  BY <1>1, <1>3 DEF Exists, NoStatus
<1>5. ASSUME NEW a \in orders'[o].lines
      PROVE  \/ KeyOf[a] \in {NoKey, orders'[o].key}
             \/ \E b \in orders'[o].lines : KeyOf[b] \notin {NoKey, KeyOf[a]}
  <2>1. CASE a = r
    BY <1>3, <2>1
  <2>2. CASE a \in orders[o].lines
    BY <1>1, <1>3, <2>2 DEF KeysKept, KeyKept
  <2>. QED
    BY <1>3, <1>5, <2>1, <2>2
<1>. QED
  BY <1>4, <1>5 DEF KeyKept

\* Only guests write keys and lines.
LEMMA NextKeepsKeys ==
    ASSUME BookInv, KeysKept, [Next]_vars
    PROVE  KeysKept'
<1> SUFFICES ASSUME NEW o \in Requests PROVE KeyKept(o)'
  BY DEF KeysKept
<1>1. orders[o] \in Ticket /\ KeyKept(o) /\ (Exists(o) => Exists(o)')
  BY RowsEndure DEF BookInv, TypeInv, TypeOK, KeysKept, Endures
<1>2. ASSUME orders'[o] = orders[o] PROVE KeyKept(o)'
  BY <1>1, <1>2, KeyRests
<1>3. ASSUME NEW status, NEW at,
             orders'[o] = [orders[o] EXCEPT !.status = status, !.updatedAt = at]
      PROVE  KeyKept(o)'
  <2>1. orders'[o].key = orders[o].key /\ orders'[o].lines = orders[o].lines
    BY <1>1, <1>3 DEF Ticket
  <2>. QED
    BY <1>1, <2>1, KeyRests
<1>4. ASSUME NEW r \in Requests, GuestStep(r) PROVE KeyKept(o)'
  <2>1. CASE GuestCreate(r)
    <3>1. CASE o = r
      <4>1. orders'[o].lines = {r} /\ orders'[o].key = KeyOf[r]
            /\ orders'[o].status = "PENDING"
        BY <2>1, <3>1 DEF GuestCreate, BookInv, TypeInv, TypeOK
      <4>. QED
        BY <4>1 DEF KeyKept, Exists, NoStatus
    <3>2. CASE o # r
      BY <1>2, <2>1, <3>2 DEF GuestCreate, BookInv, TypeInv, TypeOK
    <3>. QED
      BY <3>1, <3>2
  <2>2. CASE GuestAppend(r)
    <3>1. CASE o = guest[r].target
      BY <2>2, <3>1, AppendKeepsKeys
    <3>2. CASE o # guest[r].target
      BY <1>2, <2>2, <3>2 DEF GuestAppend, BookInv, TypeInv, TypeOK
    <3>. QED
      BY <3>1, <3>2
  <2>3. CASE \/ GuestReplay(r) \/ GuestRefuse(r) \/ GuestCheck(r) \/ GuestLock(r)
             \/ GuestConflict(r) \/ GuestAbort(r)
    BY <1>2, <2>3 DEF GuestReplay, GuestRefuse, GuestCheck, GuestLock,
                      GuestConflict, GuestAbort
  <2>. QED
    BY <1>4, <2>1, <2>2, <2>3 DEF GuestStep
<1>5. ASSUME NEW s \in Staff, StaffStep(s) PROVE KeyKept(o)'
  <2>1. ASSUME NEW path, StaffWrite(s, path) PROVE KeyKept(o)'
    <3>1. CASE o = staff[s].order
      BY <1>3, <2>1, <3>1 DEF StaffWrite, BookInv, TypeInv, TypeOK
    <3>2. CASE o # staff[s].order
      BY <1>2, <2>1, <3>2 DEF StaffWrite, BookInv, TypeInv, TypeOK
    <3>. QED
      BY <3>1, <3>2
  <2>2. CASE StaffTransition(s) \/ StaffAdvance(s)
    BY <2>1, <2>2 DEF StaffTransition, StaffAdvance
  <2>3. CASE StaffLock(s) \/ StaffRefuse(s)
    BY <1>2, <2>3 DEF StaffLock, StaffRefuse
  <2>. QED
    BY <1>5, <2>2, <2>3 DEF StaffStep
<1>6. ASSUME NEW w \in Sweepers, SweepStep(w) PROVE KeyKept(o)'
  <2>1. CASE SweepWrite(w)
    BY <1>2, <1>3, <2>1 DEF SweepWrite
  <2>2. CASE SweepRead(w) \/ SweepAbort(w)
    BY <1>2, <2>2 DEF SweepRead, SweepAbort
  <2>. QED
    BY <1>6, <2>1, <2>2 DEF SweepStep
<1>7. CASE Tick \/ UNCHANGED vars
  BY <1>2, <1>7 DEF Tick, vars
<1>. QED
  BY <1>4, <1>5, <1>6, <1>7 DEF Next

\* Only the key lookup lets a request pass.
LEMMA NextForgets ==
    ASSUME BookInv, KeysKept, [Next]_vars
    PROVE  \A r \in Requests : ForgottenOnlyForAnother(r)
<1> SUFFICES ASSUME NEW r \in Requests, guest[r].phase = "idle",
                    guest'[r].phase = "checked", KeyOf[r] # NoKey,
                    NEW o \in Requests, NEW a \in orders[o].lines, KeyOf[a] = KeyOf[r]
             PROVE  \E b \in orders[o].lines : KeyOf[b] \notin {NoKey, KeyOf[r]}
  BY DEF ForgottenOnlyForAnother
<1>1. GuestCheck(r)
  <2>1. guest'[r] # guest[r]
    OBVIOUS
  <2>2. PICK q \in Requests : GuestStep(q)
    BY <2>1 DEF Next, vars, StaffStep, StaffLock, StaffTransition, StaffAdvance,
       StaffRefuse, StaffWrite, SweepStep, SweepRead, SweepWrite, SweepAbort, Tick
  <2>3. guest \in [Requests -> GuestTxn]
    BY DEF BookInv, TypeInv, TypeOK
  <2>4. q = r
    <3>1. CASE GuestCheck(q) \/ GuestLock(q)
      BY <2>1, <2>3, <3>1 DEF GuestCheck, GuestLock
    <3>2. CASE \/ GuestReplay(q) \/ GuestRefuse(q) \/ GuestCreate(q) \/ GuestAppend(q)
               \/ GuestConflict(q) \/ GuestAbort(q)
      BY <2>1, <2>3, <3>2 DEF GuestReplay, GuestRefuse, GuestCreate, GuestAppend,
                              GuestConflict, GuestAbort, Answer
    <3>. QED
      BY <2>2, <3>1, <3>2 DEF GuestStep
  <2>5. ~(GuestReplay(r) \/ GuestRefuse(r))
    <3>1. ASSUME NEW reply, NEW t, Answer(r, reply, t) PROVE guest'[r].phase = "done"
      BY <2>3, <3>1 DEF Answer, IdleGuest
    <3>. QED
      BY <3>1 DEF GuestReplay, GuestRefuse
  <2>6. ~(\/ GuestLock(r) \/ GuestCreate(r) \/ GuestAppend(r) \/ GuestConflict(r)
          \/ GuestAbort(r))
    BY DEF GuestLock, GuestCreate, GuestAppend, GuestConflict, GuestAbort, ViolatesUnique
  <2>. QED
    BY <2>2, <2>4, <2>5, <2>6 DEF GuestStep
<1>2. ~HoldsKey(o, KeyOf[r]) /\ KeyKept(o)
  BY <1>1 DEF GuestCheck, KeysKept
<1>. QED
  BY <1>2 DEF HoldsKey, KeyKept

\* get_by_idempotency_key before the locks: a key that a ticket has taken is looked
\* up in vain only after a round with another key overwrote it.  Two rounds with
\* one key are therefore on the tickets only after that, or when the second was
\* looked up before the first committed.
THEOREM KeysForgottenOnlyForAnother == Spec => OnlyAnotherKeyForgets
<1>1. Init => KeysKept
  BY DEF Init, KeysKept, KeyKept, NoTicket
<1>. QED
  BY <1>1, BookInvHolds, NextKeepsKeys, NextForgets, PTL
     DEF Spec, OnlyAnotherKeyForgets
=============================================================================
