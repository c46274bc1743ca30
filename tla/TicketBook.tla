----------------------------- MODULE TicketBook -----------------------------
(***************************************************************************)
(* What the ticket table promises a venue, with every request, tap and     *)
(* sweep a single step: a request takes effect at most once, on a ticket   *)
(* of its own place, and a place never has two open tickets.  The promise  *)
(* allows a late step: items may reach, and a sweep may close, a ticket    *)
(* that was closed a moment before.                                        *)
(***************************************************************************)
CONSTANTS Requests, PlaceOf, Active, Terminal, NoStatus,
          Moves        \* [Active \cup Terminal -> SUBSET (Active \cup Terminal)]

VARIABLE book          \* [Requests -> [status, items]]

Used(r) == \E o \in Requests : r \in book[o].items

OpenAt(p) == {o \in Requests : book[o].status \in Active /\ PlaceOf[o] = p}

BookInit == book = [o \in Requests |-> [status |-> NoStatus, items |-> {}]]

OpenTicket(r) ==
    /\ book[r].status = NoStatus
    /\ ~Used(r)
    /\ OpenAt(PlaceOf[r]) = {}
    /\ book' = [book EXCEPT ![r] = [status |-> "PENDING", items |-> {r}]]

AddItems(r, o) ==
    /\ book[o].status # NoStatus
    /\ PlaceOf[o] = PlaceOf[r]
    /\ ~Used(r)
    /\ OpenAt(PlaceOf[r]) \subseteq {o}
    /\ \E status \in {book[o].status, "PREPARING"} :
          book' = [book EXCEPT ![o].items = @ \cup {r}, ![o].status = status]

MoveTicket(o) ==
    /\ book[o].status \in Active
    /\ \E status \in Moves[book[o].status] :
          book' = [book EXCEPT ![o].status = status]

CloseTickets(S) ==
    /\ \A o \in S : book[o].status # NoStatus
    /\ book' = [o \in Requests |->
                  IF o \in S THEN [book[o] EXCEPT !.status = "COMPLETED"]
                             ELSE book[o]]

BookNext ==
    \/ \E r \in Requests : OpenTicket(r)
    \/ \E r, o \in Requests : AddItems(r, o)
    \/ \E o \in Requests : MoveTicket(o)
    \/ \E S \in SUBSET Requests : CloseTickets(S)

BookSpec == BookInit /\ [][BookNext]_book
=============================================================================
