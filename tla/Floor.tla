-------------------------------- MODULE Floor -------------------------------
(***************************************************************************)
(* The tables of one venue: waiter calls (app/services/waiter_call.py),    *)
(* QR codes (app/services/qr.py) and ratings (app/services/review.py).     *)
(* Each looks for what is there, then inserts: an errand is open between   *)
(* the look and the commit.  Behind a pending call, a review code and a    *)
(* rating stands a unique index; behind a table code and the answer to a   *)
(* call there is none.                                                     *)
(***************************************************************************)
EXTENDS Naturals, FiniteSets

CONSTANTS
    People,      \* guests' and staff's devices
    Seats,       \* tables
    CallIds,     \* waiter_calls rows
    Served,      \* tickets that may be rated
    TableLimit,  \* table_limit of the Basic plan
    MaxCodes,    \* bound on the table codes
    Nothing

ASSUME FloorAssumption == TableLimit \in Nat /\ MaxCodes \in Nat

Call == [table : Seats \cup {Nothing}, status : {"none", "pending", "acked"}]
Venue == [active : BOOLEAN,  \* restaurants.is_active
          ringing : BOOLEAN, \* restaurants.waiter_call_enabled
          pro : BOOLEAN]     \* the plan lifts the table limit
ErrandOp == {"ring", "answer", "code", "sign", "rate"}
Subject == Seats \cup CallIds \cup Served \cup {Nothing}
Errand == [op : ErrandOp \cup {"none"}, on : Subject,
           limited : BOOLEAN]  \* the table quota was looked at

VARIABLES
    venue,
    calls,
    codes,      \* the number of table codes
    signs,      \* the number of review codes
    completed,  \* tickets that are COMPLETED now
    rated,      \* tickets with a review
    errand,     \* the open request of each device
    doubled     \* history: errands that were open twice at once

floorVars == <<venue, calls, codes, signs, completed, rated, errand, doubled>>

NoErrand == [op |-> "none", on |-> Nothing, limited |-> FALSE]

FloorInit ==
    /\ venue = [active |-> TRUE, ringing |-> TRUE, pro |-> FALSE]
    /\ calls = [c \in CallIds |-> [table |-> Nothing, status |-> "none"]]
    /\ codes = 0 /\ signs = 0
    /\ completed = {} /\ rated = {}
    /\ errand = [p \in People |-> NoErrand]
    /\ doubled = {}

Pending(t) == {c \in CallIds : calls[c].table = t /\ calls[c].status = "pending"}

Opens(p, op, on, limited) ==
    /\ errand[p].op = "none"
    /\ errand' = [errand EXCEPT ![p] = [op |-> op, on |-> on, limited |-> limited]]
    /\ doubled' = IF \E q \in People : errand[q].op = op /\ errand[q].on = on
                  THEN doubled \cup {<<op, on>>} ELSE doubled
    /\ UNCHANGED <<venue, calls, codes, signs, completed, rated>>

Closes(p, op) ==
    /\ errand[p].op = op
    /\ errand' = [errand EXCEPT ![p] = NoErrand]
    /\ UNCHANGED doubled

\* Mutant: every ring is a call.
MayAlways(t) == TRUE

MayRing(t) == Pending(t) = {}

\* create_public; a table with a pending call gets it back.
Ring(p) ==
    /\ venue.ringing
    /\ \E t \in Seats : MayRing(t) /\ Opens(p, "ring", t, FALSE)

\* uq_waiter_calls_pending_table, which nothing in create_public expects: the
\* request fails.
CallTaken(t) == Pending(t) # {}

RingCommit(p) ==
    /\ Closes(p, "ring")
    /\ ~CallTaken(errand[p].on)
    /\ \E c \in CallIds :
           /\ calls[c].status = "none"
           /\ calls' = [calls EXCEPT
                  ![c] = [table |-> errand[p].on, status |-> "pending"]]
    /\ UNCHANGED <<venue, codes, signs, completed, rated>>

\* acknowledge.
Acknowledge(p) ==
    \E c \in CallIds : calls[c].status = "pending" /\ Opens(p, "answer", c, FALSE)

AcknowledgeCommit(p) ==
    /\ Closes(p, "answer")
    /\ calls' = [calls EXCEPT ![errand[p].on].status = "acked"]
    /\ UNCHANGED <<venue, codes, signs, completed, rated>>

\* Mutant: the limit itself is still allowed.
OneTooMany == codes <= TableLimit

BelowLimit == codes < TableLimit

\* _assert_table_quota; a super admin elevates a venue for one request.
NewCode(p) ==
    /\ codes < MaxCodes
    /\ \E elevated \in BOOLEAN :
           LET limited == ~(venue.pro \/ elevated)
           IN  /\ limited => BelowLimit
               /\ Opens(p, "code", Nothing, limited)

NewCodeCommit(p) ==
    /\ Closes(p, "code")
    /\ codes' = codes + 1
    /\ UNCHANGED <<venue, calls, signs, completed, rated>>

\* get_or_create_review_qr_for, when there is none.
ReviewSign(p) == signs = 0 /\ Opens(p, "sign", Nothing, FALSE)

\* uq_qr_codes_review_per_restaurant, which get_or_create_review_qr_for does not
\* expect either.
SignTaken == signs # 0

ReviewSignCommit(p) ==
    /\ Closes(p, "sign")
    /\ ~SignTaken
    /\ signs' = signs + 1
    /\ UNCHANGED <<venue, calls, codes, completed, rated>>

\* ReviewService.create_public, for a ticket.
Rate(p) ==
    /\ venue.active
    /\ \E o \in completed \ rated : Opens(p, "rate", o, FALSE)

\* uq_reviews_order_id refuses the second.
RateCommit(p) ==
    /\ Closes(p, "rate")
    /\ errand[p].on \notin rated
    /\ rated' = rated \cup {errand[p].on}
    /\ UNCHANGED <<venue, calls, codes, signs, completed>>

\* A conflict, or the database fails.
ErrandFails(p) ==
    /\ \E op \in ErrandOp : Closes(p, op)
    /\ UNCHANGED <<venue, calls, codes, signs, completed, rated>>

\* What the order, plan and venue services write meanwhile.
Switch(field) ==
    /\ venue' = [venue EXCEPT ![field] = ~@]
    /\ UNCHANGED <<calls, codes, signs, completed, rated, errand, doubled>>

Complete(o) ==
    /\ completed' = completed \cup {o}
    /\ UNCHANGED <<venue, calls, codes, signs, rated, errand, doubled>>

CallStep ==
    \/ \E p \in People : \/ Ring(p) \/ RingCommit(p)
                         \/ Acknowledge(p) \/ AcknowledgeCommit(p)
                         \/ ErrandFails(p)
    \/ Switch("ringing")

CodeStep ==
    \/ \E p \in People : \/ NewCode(p) \/ NewCodeCommit(p)
                         \/ ReviewSign(p) \/ ReviewSignCommit(p)
                         \/ ErrandFails(p)
    \/ Switch("pro")

RateStep ==
    \/ \E p \in People : Rate(p) \/ RateCommit(p) \/ ErrandFails(p)
    \/ \E o \in Served : Complete(o)
    \/ Switch("active")

FloorStep == CallStep \/ CodeStep \/ RateStep

FloorSpec == FloorInit /\ [][FloorStep]_floorVars

-----------------------------------------------------------------------------
(* Properties. *)

FloorTypeOK ==
    /\ venue \in Venue
    /\ calls \in [CallIds -> Call]
    /\ codes \in Nat /\ signs \in Nat
    /\ completed \subseteq Served /\ rated \subseteq Served
    /\ errand \in [People -> Errand]
    /\ doubled \subseteq ErrandOp \X Subject

\* What the device found when it looked is still so.
Current(p) ==
    LET on == errand[p].on
    IN  CASE errand[p].op = "ring" -> Pending(on) = {}
          [] errand[p].op = "answer" -> calls[on].status = "pending"
          [] errand[p].op = "sign" -> signs = 0
          [] errand[p].op = "rate" -> on \notin rated
          [] OTHER -> TRUE

\* A guest, a waiter or an owner runs into a unique index, or answers what was
\* answered, only because somebody was on the same errand at the same time: a call
\* answered, rung again or rated meanwhile gets in nobody else's way.  And even
\* then every later look finds at most one row (scalar_one_or_none).
LooksHold ==
    /\ \A p \in People : Current(p) \/ <<errand[p].op, errand[p].on>> \in doubled
    /\ \A t \in Seats : Cardinality(Pending(t)) <= 1
    /\ signs <= 1

\* A code made under the limit does not exceed it, even when the plan was raised
\* and lowered between, unless two were made at once (_assert_table_quota).
TableLimitHolds ==
    [][\A p \in People :
          /\ codes' > codes /\ errand'[p] # errand[p] /\ errand[p].limited
          => codes' <= TableLimit \/ <<"code", Nothing>> \in doubled]_floorVars
=============================================================================
