-------------------------- MODULE RestaurantProofs --------------------------
(***************************************************************************)
(* Theorems about the parts of Restaurant and their composition, for any   *)
(* devices, tables, calls, dishes, offers, rounds, phones and limits.      *)
(***************************************************************************)
EXTENDS Restaurant, MenuProofs, MigrationsProofs

-----------------------------------------------------------------------------
(* The floor. *)

\* Devices ring for tables, answer calls and rate tickets; calls and codes are
\* counted.
FloorTypes ==
    /\ calls \in [CallIds -> Call]
    /\ errand \in [People -> Errand]
    /\ codes \in Nat /\ signs \in Nat
    /\ completed \subseteq Served
    /\ \A p \in People : /\ errand[p].op = "ring" => errand[p].on \in Seats
                         /\ errand[p].op = "answer" => errand[p].on \in CallIds
                         /\ errand[p].op \in {"code", "sign"} => errand[p].on = Nothing

Once(op, on) == <<op, on>> \notin doubled
On(p, op, on) == errand[p].op = op /\ errand[p].on = on

\* An errand that was never open twice at once is open on one device.
OneErrand ==
    \A p, q \in People :
        /\ errand[p].op # "none" /\ On(q, errand[p].op, errand[p].on)
        /\ Once(errand[p].op, errand[p].on)
        => p = q

\* What a device looked at still holds when it commits, unless two looked.  The
\* unique indexes keep the calls of a table and the review codes to one in any case.
RingHolds ==
    \A t \in Seats :
        /\ \A c, d \in Pending(t) : c = d
        /\ Once("ring", t) => \A p \in People : On(p, "ring", t) => Pending(t) = {}

AnswerHolds ==
    \A c \in CallIds, p \in People :
        Once("answer", c) /\ On(p, "answer", c) => calls[c].status = "pending"

SignHolds ==
    /\ signs <= 1
    /\ Once("sign", Nothing) => \A p \in People : errand[p].op = "sign" => signs = 0

RateHolds ==
    \A p \in People :
        errand[p].op = "rate" /\ Once("rate", errand[p].on) => errand[p].on \notin rated

CodeHolds ==
    Once("code", Nothing) =>
        \A p \in People : errand[p].op = "code" /\ errand[p].limited
                          => codes < TableLimit

FloorInv ==
    /\ FloorTypes /\ OneErrand
    /\ RingHolds /\ AnswerHolds /\ SignHolds /\ CodeHolds /\ RateHolds

\* Nobody has called and no device is busy.
LEMMA FloorInitially == FloorInit => FloorInv
<1> SUFFICES ASSUME FloorInit PROVE FloorInv
  OBVIOUS
<1>1. NoErrand \in Errand /\ NoErrand.op = "none"
  BY DEF NoErrand, Errand, Subject
<1>2. [table |-> Nothing, status |-> "none"] \in Call
  BY DEF Call
<1>3. \A p \in People : errand[p] = NoErrand
  BY DEF FloorInit
<1>4. \A c \in CallIds : calls[c].status = "none"
  BY DEF FloorInit
<1>5. FloorTypes
  BY <1>1, <1>2, <1>3 DEF FloorInit, FloorTypes
<1>6. \A t \in Seats : Pending(t) = {}
  BY <1>4 DEF Pending
<1>7. OneErrand
  BY <1>1, <1>3 DEF OneErrand
<1>8. RingHolds
  BY <1>6 DEF RingHolds
<1>9. AnswerHolds
  BY <1>1, <1>3 DEF AnswerHolds, On
<1>10. SignHolds /\ CodeHolds /\ RateHolds
  BY <1>1, <1>3 DEF SignHolds, CodeHolds, RateHolds, FloorInit
<1>. QED
  BY <1>5, <1>7, <1>8, <1>9, <1>10 DEF FloorInv

-----------------------------------------------------------------------------
(* A device sets out. *)

\* A device that sets out found what its kind of errand requires.
Founded(op, on, limited) ==
    /\ op = "ring" => on \in Seats /\ Pending(on) = {}
    /\ op = "answer" => on \in CallIds /\ calls[on].status = "pending"
    /\ op \in {"code", "sign"} => on = Nothing
    /\ op = "sign" => signs = 0
    /\ op = "code" /\ limited => codes < TableLimit
    /\ op = "rate" => on \notin rated

\* A well founded errand keeps the invariant: either it is the only one of its kind
\* or it is noted as doubled.
LEMMA OpensKeeps ==
    ASSUME FloorInv, NEW p \in People, NEW op \in ErrandOp, NEW on \in Subject,
           NEW limited \in BOOLEAN, Opens(p, op, on, limited),
           Founded(op, on, limited)
    PROVE  FloorInv'
<1> DEFINE new == [op |-> op, on |-> on, limited |-> limited]
<1>1. new \in Errand /\ new.op = op /\ new.on = on /\ new.limited = limited
      /\ op # "none"
  BY DEF Errand, ErrandOp
<1> HIDE DEF new
<1>2. /\ errand' = [errand EXCEPT ![p] = new] /\ errand[p].op = "none"
      /\ calls' = calls /\ codes' = codes /\ signs' = signs
      /\ completed' = completed /\ rated' = rated
  BY DEF Opens, new
<1>3. /\ errand'[p] = new /\ \A q \in People \ {p} : errand'[q] = errand[q]
      /\ errand' \in [People -> Errand]
  BY <1>1, <1>2 DEF FloorInv, FloorTypes
<1>4. /\ doubled \subseteq doubled'
      /\ \A q \in People : On(q, op, on) => <<op, on>> \in doubled'
  BY DEF Opens, On
<1>5. FloorTypes'
  BY <1>1, <1>2, <1>3 DEF FloorInv, FloorTypes, Founded
<1>6. \A x, y : Once(x, y)' => Once(x, y)
  BY <1>4 DEF Once
<1>7. \A t \in Seats : Pending(t)' = Pending(t)
  BY <1>2 DEF Pending
<1>8. OneErrand'
  <2> SUFFICES ASSUME NEW x \in People, NEW y \in People, errand'[x].op # "none",
                      On(y, errand[x].op, errand[x].on)',
                      Once(errand[x].op, errand[x].on)', x # y
               PROVE  FALSE
    BY DEF OneErrand
  <2>1. CASE x = p
    BY <1>1, <1>3, <1>4, <2>1 DEF On, Once
  <2>2. CASE y = p
    BY <1>1, <1>3, <1>4, <2>2 DEF On, Once
  <2>3. CASE x # p /\ y # p
    BY <1>3, <1>6, <2>3 DEF On, OneErrand, FloorInv
  <2>. QED
    BY <2>1, <2>2, <2>3
<1>9. RingHolds'
  BY <1>1, <1>3, <1>6, <1>7 DEF FloorInv, RingHolds, On, Founded
<1>10. AnswerHolds'
  BY <1>1, <1>2, <1>3, <1>6 DEF FloorInv, AnswerHolds, On, Founded
<1>11. SignHolds'
  BY <1>1, <1>2, <1>3, <1>6 DEF FloorInv, SignHolds, Founded
<1>12. CodeHolds'
  BY <1>1, <1>2, <1>3, <1>6 DEF FloorInv, CodeHolds, Founded
<1>13. RateHolds'
  BY <1>1, <1>2, <1>3, <1>6 DEF FloorInv, RateHolds, Founded
<1>. QED
  BY <1>5, <1>8, <1>9, <1>10, <1>11, <1>12, <1>13 DEF FloorInv

-----------------------------------------------------------------------------
(* A device comes back. *)

\* What a step of a device that comes back does to the devices.
LEMMA ClosesOne ==
    ASSUME FloorInv, NEW p \in People, NEW op \in ErrandOp, Closes(p, op)
    PROVE  /\ errand[p].op = op /\ op # "none" /\ doubled' = doubled
           /\ errand'[p] = NoErrand /\ NoErrand.op = "none"
           /\ \A q \in People \ {p} : errand'[q] = errand[q]
           /\ errand' \in [People -> Errand]
           /\ OneErrand'
<1>1. NoErrand \in Errand /\ NoErrand.op = "none" /\ op # "none"
  BY DEF NoErrand, Errand, Subject, ErrandOp
<1>2. /\ errand'[p] = NoErrand
      /\ \A q \in People \ {p} : errand'[q] = errand[q]
      /\ errand' \in [People -> Errand]
      /\ doubled' = doubled /\ errand[p].op = op
  BY <1>1 DEF Closes, FloorInv, FloorTypes
<1>3. OneErrand'
  <2> SUFFICES ASSUME NEW x \in People, NEW y \in People, errand'[x].op # "none",
                      On(y, errand[x].op, errand[x].on)',
                      Once(errand[x].op, errand[x].on)', x # y
               PROVE  FALSE
    BY DEF OneErrand
  <2>1. x # p /\ y # p
    BY <1>1, <1>2 DEF On
  <2>. QED
    BY <1>2, <2>1 DEF On, Once, OneErrand, FloorInv
<1>. QED
  BY <1>1, <1>2, <1>3

\* A device that comes back with nothing keeps the invariant.
LEMMA ClosesKeeps ==
    ASSUME FloorInv, NEW p \in People, NEW op \in ErrandOp, Closes(p, op),
           calls' = calls, codes' = codes, signs' = signs, completed' = completed,
           rated' = rated
    PROVE  FloorInv'
<1>1. /\ doubled' = doubled /\ errand'[p].op = "none" /\ OneErrand'
      /\ \A q \in People \ {p} : errand'[q] = errand[q]
      /\ errand' \in [People -> Errand]
  BY ClosesOne
<1>2. FloorTypes'
  BY <1>1 DEF FloorInv, FloorTypes
<1>3. \A t \in Seats : Pending(t)' = Pending(t)
  BY DEF Pending
<1>4. RingHolds' /\ AnswerHolds'
  BY <1>1, <1>3 DEF FloorInv, RingHolds, AnswerHolds, On, Once
<1>5. SignHolds' /\ CodeHolds' /\ RateHolds'
  BY <1>1 DEF FloorInv, SignHolds, CodeHolds, RateHolds, Once
<1>. QED
  BY <1>1, <1>2, <1>4, <1>5 DEF FloorInv

\* A ring that commits is the table's only call.
LEMMA RingCommitKeeps ==
    ASSUME FloorInv, NEW p \in People, RingCommit(p)
    PROVE  FloorInv'
<1>1. /\ errand[p].op = "ring" /\ doubled' = doubled /\ errand'[p].op = "none"
      /\ OneErrand' /\ \A q \in People \ {p} : errand'[q] = errand[q]
      /\ errand' \in [People -> Errand]
  BY ClosesOne DEF RingCommit, ErrandOp
<1>2. PICK t \in Seats : t = errand[p].on
  BY <1>1 DEF FloorInv, FloorTypes
<1>3. PICK c \in CallIds :
         /\ calls[c].status = "none"
         /\ calls' = [calls EXCEPT ![c] = [table |-> t, status |-> "pending"]]
  BY <1>2 DEF RingCommit
<1>4. /\ calls'[c].table = t /\ calls'[c].status = "pending"
      /\ \A d \in CallIds \ {c} : calls'[d] = calls[d]
      /\ calls' \in [CallIds -> Call]
  BY <1>3 DEF FloorInv, FloorTypes, Call
<1>5. /\ codes' = codes /\ signs' = signs /\ completed' = completed
      /\ rated' = rated /\ Pending(t) = {}
  BY <1>2 DEF RingCommit, CallTaken
<1>6. FloorTypes'
  BY <1>1, <1>4, <1>5 DEF FloorInv, FloorTypes
<1>7. /\ Pending(t)' = {c}
      /\ \A s \in Seats \ {t} : Pending(s)' = Pending(s)
  BY <1>3, <1>4, <1>5 DEF Pending
<1>8. RingHolds'
  <2>1. ASSUME Once("ring", t)' PROVE \A q \in People : ~On(q, "ring", t)'
    BY <1>1, <1>2, <2>1 DEF FloorInv, OneErrand, On, Once
  <2>2. ASSUME NEW s \in Seats \ {t}
        PROVE  /\ \A x, y \in Pending(s)' : x = y
               /\ Once("ring", s)' =>
                     \A q \in People : On(q, "ring", s)' => Pending(s)' = {}
    BY <1>1, <1>7 DEF FloorInv, RingHolds, On, Once
  <2>. QED
    BY <1>7, <2>1, <2>2 DEF RingHolds
<1>9. AnswerHolds'
  BY <1>1, <1>4 DEF FloorInv, AnswerHolds, On, Once
<1>10. SignHolds' /\ CodeHolds' /\ RateHolds'
  BY <1>1, <1>5 DEF FloorInv, SignHolds, CodeHolds, RateHolds, Once
<1>. QED
  BY <1>1, <1>6, <1>8, <1>9, <1>10 DEF FloorInv

\* After an answer that commits nobody else has the call to answer, unless it was
\* doubled.
LEMMA AcknowledgeCommitKeeps ==
    ASSUME FloorInv, NEW p \in People, AcknowledgeCommit(p)
    PROVE  FloorInv'
<1>1. /\ errand[p].op = "answer" /\ doubled' = doubled /\ errand'[p].op = "none"
      /\ OneErrand' /\ \A q \in People \ {p} : errand'[q] = errand[q]
      /\ errand' \in [People -> Errand]
  BY ClosesOne DEF AcknowledgeCommit, ErrandOp
<1>2. PICK c \in CallIds : c = errand[p].on
  BY <1>1 DEF FloorInv, FloorTypes
<1>3. calls' = [calls EXCEPT ![c].status = "acked"]
  BY <1>2 DEF AcknowledgeCommit
<1>4. /\ calls'[c].status = "acked"
      /\ \A d \in CallIds \ {c} : calls'[d] = calls[d]
      /\ calls' \in [CallIds -> Call]
  BY <1>3 DEF FloorInv, FloorTypes, Call
<1>5. codes' = codes /\ signs' = signs /\ completed' = completed /\ rated' = rated
  BY DEF AcknowledgeCommit
<1>6. FloorTypes'
  BY <1>1, <1>4, <1>5 DEF FloorInv, FloorTypes
<1>7. \A s \in Seats : Pending(s)' \subseteq Pending(s)
  BY <1>4 DEF Pending
<1>8. RingHolds'
  <2> SUFFICES ASSUME NEW s \in Seats
               PROVE  /\ \A x, y \in Pending(s)' : x = y
                      /\ Once("ring", s)' =>
                            \A q \in People : On(q, "ring", s)' => Pending(s)' = {}
    BY DEF RingHolds
  <2>1. Pending(s)' \subseteq Pending(s) /\ \A x, y \in Pending(s) : x = y
    BY <1>7 DEF FloorInv, RingHolds
  <2>2. ASSUME Once("ring", s)', NEW q \in People, On(q, "ring", s)'
        PROVE  Pending(s) = {}
    BY <1>1, <2>2 DEF FloorInv, RingHolds, On, Once
  <2>. QED
    BY <2>1, <2>2
<1>9. AnswerHolds'
  <2>1. ASSUME Once("answer", c)' PROVE \A q \in People : ~On(q, "answer", c)'
    BY <1>1, <1>2, <2>1 DEF FloorInv, OneErrand, On, Once
  <2>2. ASSUME NEW d \in CallIds \ {c}, NEW q \in People, Once("answer", d)',
               On(q, "answer", d)'
        PROVE  calls'[d].status = "pending"
    BY <1>1, <1>4, <2>2 DEF FloorInv, AnswerHolds, On, Once
  <2>. QED
    BY <2>1, <2>2 DEF AnswerHolds
<1>10. SignHolds' /\ CodeHolds' /\ RateHolds'
  BY <1>1, <1>5 DEF FloorInv, SignHolds, CodeHolds, RateHolds, Once
<1>. QED
  BY <1>1, <1>6, <1>8, <1>9, <1>10 DEF FloorInv

\* A code that commits is one more; the only one under way.
LEMMA NewCodeCommitKeeps ==
    ASSUME FloorInv, NEW p \in People, NewCodeCommit(p)
    PROVE  FloorInv'
<1>1. /\ errand[p].op = "code" /\ doubled' = doubled /\ errand'[p].op = "none"
      /\ OneErrand' /\ \A q \in People \ {p} : errand'[q] = errand[q]
      /\ errand' \in [People -> Errand]
  BY ClosesOne DEF NewCodeCommit, ErrandOp
<1>2. /\ calls' = calls /\ signs' = signs /\ codes' = codes + 1
      /\ completed' = completed /\ rated' = rated
  BY DEF NewCodeCommit
<1>3. FloorTypes'
  BY <1>1, <1>2 DEF FloorInv, FloorTypes
<1>4. \A t \in Seats : Pending(t)' = Pending(t)
  BY <1>2 DEF Pending
<1>5. RingHolds' /\ AnswerHolds' /\ SignHolds' /\ RateHolds'
  BY <1>1, <1>2, <1>4
     DEF FloorInv, RingHolds, AnswerHolds, SignHolds, RateHolds, On, Once
<1>6. CodeHolds'
  BY <1>1 DEF FloorInv, FloorTypes, OneErrand, CodeHolds, On, Once
<1>. QED
  BY <1>1, <1>3, <1>5, <1>6 DEF FloorInv

\* A review code that commits is the first.
LEMMA ReviewSignCommitKeeps ==
    ASSUME FloorInv, NEW p \in People, ReviewSignCommit(p)
    PROVE  FloorInv'
<1>1. /\ errand[p].op = "sign" /\ doubled' = doubled /\ errand'[p].op = "none"
      /\ OneErrand' /\ \A q \in People \ {p} : errand'[q] = errand[q]
      /\ errand' \in [People -> Errand]
  BY ClosesOne DEF ReviewSignCommit, ErrandOp
<1>2. /\ calls' = calls /\ codes' = codes /\ signs' = 1
      /\ completed' = completed /\ rated' = rated
  BY DEF ReviewSignCommit, SignTaken
<1>3. FloorTypes'
  BY <1>1, <1>2 DEF FloorInv, FloorTypes
<1>4. \A t \in Seats : Pending(t)' = Pending(t)
  BY <1>2 DEF Pending
<1>5. RingHolds' /\ AnswerHolds' /\ CodeHolds' /\ RateHolds'
  BY <1>1, <1>2, <1>4
     DEF FloorInv, RingHolds, AnswerHolds, CodeHolds, RateHolds, On, Once
<1>6. SignHolds'
  <2>1. ASSUME Once("sign", Nothing)' PROVE \A q \in People : errand'[q].op # "sign"
    BY <1>1, <2>1 DEF FloorInv, FloorTypes, OneErrand, On, Once
  <2>. QED
    BY <1>2, <2>1 DEF SignHolds
<1>. QED
  BY <1>1, <1>3, <1>5, <1>6 DEF FloorInv

\* After a rating that commits nobody else has the ticket to rate, unless it was
\* doubled.
LEMMA RateCommitKeeps ==
    ASSUME FloorInv, NEW p \in People, RateCommit(p)
    PROVE  FloorInv'
<1>1. /\ errand[p].op = "rate" /\ doubled' = doubled /\ errand'[p].op = "none"
      /\ OneErrand' /\ \A q \in People \ {p} : errand'[q] = errand[q]
      /\ errand' \in [People -> Errand]
  BY ClosesOne DEF RateCommit, ErrandOp
<1>2. /\ calls' = calls /\ codes' = codes /\ signs' = signs
      /\ completed' = completed /\ rated' = rated \cup {errand[p].on}
  BY DEF RateCommit
<1>3. FloorTypes'
  BY <1>1, <1>2 DEF FloorInv, FloorTypes
<1>4. \A t \in Seats : Pending(t)' = Pending(t)
  BY <1>2 DEF Pending
<1>5. RingHolds' /\ AnswerHolds' /\ CodeHolds' /\ SignHolds'
  BY <1>1, <1>2, <1>4
     DEF FloorInv, RingHolds, AnswerHolds, CodeHolds, SignHolds, On, Once
<1>6. RateHolds'
  <2> SUFFICES ASSUME NEW q \in People, errand'[q].op = "rate",
                      Once("rate", errand[q].on)'
               PROVE  errand'[q].on \notin rated'
    BY DEF RateHolds
  <2>1. q # p /\ errand'[q] = errand[q] /\ Once("rate", errand[q].on)
    BY <1>1 DEF Once
  <2>2. errand[q].on # errand[p].on
    BY <1>1, <2>1 DEF FloorInv, OneErrand, On
  <2>3. errand[q].on \notin rated
    BY <2>1 DEF FloorInv, RateHolds
  <2>. QED
    BY <1>2, <2>1, <2>2, <2>3
<1>. QED
  BY <1>1, <1>3, <1>5, <1>6 DEF FloorInv

-----------------------------------------------------------------------------
(* What was looked at, and the limit. *)

\* Every step keeps the invariant.
LEMMA FloorKeeps == FloorInv /\ [FloorStep]_floorVars => FloorInv'
<1> SUFFICES ASSUME FloorInv, [FloorStep]_floorVars PROVE FloorInv'
  OBVIOUS
<1>0. Nothing \in Subject /\ Seats \subseteq Subject /\ CallIds \subseteq Subject
      /\ Served \subseteq Subject
  BY DEF Subject
<1>1. ASSUME NEW p \in People, Ring(p) PROVE FloorInv'
  <2>1. PICK t \in Seats : Pending(t) = {} /\ Opens(p, "ring", t, FALSE)
    BY <1>1 DEF Ring, MayRing
  <2>. QED
    BY <1>0, <2>1, OpensKeeps DEF Founded, ErrandOp
<1>2. ASSUME NEW p \in People, Acknowledge(p) PROVE FloorInv'
  <2>1. PICK c \in CallIds : calls[c].status = "pending" /\ Opens(p, "answer", c, FALSE)
    BY <1>2 DEF Acknowledge
  <2>. QED
    BY <1>0, <2>1, OpensKeeps DEF Founded, ErrandOp
<1>3. ASSUME NEW p \in People, NewCode(p) PROVE FloorInv'
  <2>1. PICK limited \in BOOLEAN :
           (limited => codes < TableLimit) /\ Opens(p, "code", Nothing, limited)
    <3>1. PICK elevated \in BOOLEAN :
             /\ ~(venue.pro \/ elevated) => codes < TableLimit
             /\ Opens(p, "code", Nothing, ~(venue.pro \/ elevated))
      BY <1>3, Zenon DEF NewCode, BelowLimit
    <3>2. CASE venue.pro \/ elevated
      <4>1. (~(venue.pro \/ elevated)) = FALSE
        BY <3>2
      <4>. QED
        BY <3>1, <4>1, Zenon
    <3>3. CASE ~(venue.pro \/ elevated)
      <4>1. (~(venue.pro \/ elevated)) = TRUE
        BY <3>3
      <4>. QED
        BY <3>1, <4>1, Zenon
    <3>. QED
      BY <3>2, <3>3
  <2>2. Founded("code", Nothing, limited)
    BY <2>1 DEF Founded
  <2>. QED
    BY <1>0, <2>1, <2>2, OpensKeeps DEF ErrandOp
<1>4. ASSUME NEW p \in People, ReviewSign(p) PROVE FloorInv'
  BY <1>0, <1>4, OpensKeeps DEF ReviewSign, Founded, ErrandOp
<1>5. ASSUME NEW p \in People, Rate(p) PROVE FloorInv'
  <2>1. PICK o \in Served : o \notin rated /\ Opens(p, "rate", o, FALSE)
    BY <1>5 DEF Rate, FloorInv, FloorTypes
  <2>. QED
    BY <1>0, <2>1, OpensKeeps DEF Founded, ErrandOp
<1>6. ASSUME NEW p \in People, ErrandFails(p) PROVE FloorInv'
  <2>1. PICK op \in ErrandOp : Closes(p, op)
    BY <1>6 DEF ErrandFails
  <2>. QED
    BY <1>6, <2>1, ClosesKeeps DEF ErrandFails
<1>7. ASSUME calls' = calls, codes' = codes, signs' = signs, errand' = errand,
             doubled' = doubled, completed' \subseteq Served, rated' = rated
      PROVE  FloorInv'
  <2>1. \A t \in Seats : Pending(t)' = Pending(t)
    BY <1>7 DEF Pending
  <2>. QED
    BY <1>7, <2>1 DEF FloorInv, FloorTypes, OneErrand, RingHolds, AnswerHolds,
                      SignHolds, CodeHolds, RateHolds, On, Once
<1>8. ASSUME NEW field, Switch(field) PROVE FloorInv'
  BY <1>7, <1>8 DEF Switch, FloorInv, FloorTypes
<1>9. ASSUME NEW o \in Served, Complete(o) PROVE FloorInv'
  BY <1>7, <1>9 DEF Complete, FloorInv, FloorTypes
<1>10. CASE UNCHANGED floorVars
  BY <1>7, <1>10 DEF floorVars, FloorInv, FloorTypes
<1>. QED
  BY <1>1, <1>2, <1>3, <1>4, <1>5, <1>6, <1>8, <1>9, <1>10, RingCommitKeeps,
     AcknowledgeCommitKeeps, NewCodeCommitKeeps, ReviewSignCommitKeeps,
     RateCommitKeeps
     DEF FloorStep, CallStep, CodeStep, RateStep

\* A device that commits runs into a unique index, or answers what was answered, only
\* because somebody was on the same errand at the same time, and a table never has
\* two pending calls nor a venue two review codes, for any number of devices.
THEOREM LooksHoldAlways == FloorSpec => []LooksHold
<1>1. FloorInv => LooksHold
  <2> SUFFICES ASSUME FloorInv PROVE LooksHold
    OBVIOUS
  <2>1. ASSUME NEW t \in Seats PROVE Cardinality(Pending(t)) <= 1
    <3>1. \A c, d \in Pending(t) : c = d
      BY DEF FloorInv, RingHolds
    <3>2. CASE Pending(t) = {}
      BY <3>2, FS_EmptySet
    <3>3. CASE Pending(t) # {}
      <4>1. PICK c : Pending(t) = {c}
        BY <3>1, <3>3
      <4>2. Cardinality({c}) = 1
        BY FS_Singleton, Zenon
      <4>. QED
        BY <4>1, <4>2
    <3>. QED
      BY <3>2, <3>3
  <2>2. ASSUME NEW p \in People, Once(errand[p].op, errand[p].on) PROVE Current(p)
    <3>1. CASE errand[p].op = "ring"
      BY <2>2, <3>1 DEF Current, On, FloorInv, FloorTypes, RingHolds
    <3>2. CASE errand[p].op = "answer"
      BY <2>2, <3>2 DEF Current, On, FloorInv, FloorTypes, AnswerHolds
    <3>3. CASE errand[p].op = "sign"
      BY <2>2, <3>3 DEF Current, FloorInv, FloorTypes, SignHolds
    <3>4. CASE errand[p].op = "rate"
      BY <2>2, <3>4 DEF Current, FloorInv, RateHolds
    <3>. QED
      BY <3>1, <3>2, <3>3, <3>4 DEF Current
  <2>. QED
    BY <2>1, <2>2 DEF LooksHold, FloorInv, SignHolds, Once
<1>. QED
  BY <1>1, FloorInitially, FloorKeeps, PTL DEF FloorSpec

\* What TableLimitHolds says of one device.
WithinLimit(p) ==
    /\ codes' > codes /\ errand'[p] # errand[p] /\ errand[p].limited
    => codes' <= TableLimit \/ <<"code", Nothing>> \in doubled

\* Only the commit of a code changes their number.
LEMMA OnlyCommitsAddCodes ==
    FloorStep /\ codes' # codes => \E p \in People : NewCodeCommit(p)
<1>1. ASSUME NEW p \in People, NewCode(p) PROVE codes' = codes
  BY <1>1, Zenon DEF NewCode, Opens
<1>2. ASSUME NEW p \in People,
             Ring(p) \/ Acknowledge(p) \/ ReviewSign(p) \/ Rate(p)
      PROVE  codes' = codes
  BY <1>2 DEF Ring, Acknowledge, ReviewSign, Rate, Opens
<1>3. ASSUME NEW p \in People,
             \/ RingCommit(p) \/ AcknowledgeCommit(p) \/ ReviewSignCommit(p)
             \/ RateCommit(p) \/ ErrandFails(p)
      PROVE  codes' = codes
  BY <1>3 DEF RingCommit, AcknowledgeCommit, ReviewSignCommit, RateCommit, ErrandFails
<1>4. ASSUME NEW field, Switch(field) PROVE codes' = codes
  BY <1>4 DEF Switch
<1>5. ASSUME NEW o, Complete(o) PROVE codes' = codes
  BY <1>5 DEF Complete
<1>. QED
  BY <1>1, <1>2, <1>3, <1>4, <1>5 DEF FloorStep, CallStep, CodeStep, RateStep

\* A code made under the limit was within it when its device looked, and nobody
\* else was making one since.
LEMMA StepWithinLimit ==
    FloorInv /\ [FloorStep]_floorVars => [\A p \in People : WithinLimit(p)]_floorVars
<1> SUFFICES ASSUME FloorInv, FloorStep, NEW p \in People, codes' > codes,
                    errand'[p] # errand[p], errand[p].limited,
                    <<"code", Nothing>> \notin doubled
             PROVE  codes' <= TableLimit
  BY DEF WithinLimit
<1>1. codes \in Nat
  BY DEF FloorInv, FloorTypes
<1>2. PICK q \in People : NewCodeCommit(q)
  BY <1>1, OnlyCommitsAddCodes
<1>3. p = q
  BY <1>2 DEF NewCodeCommit, Closes, FloorInv, FloorTypes
<1>4. errand[p].op = "code" /\ codes' = codes + 1
  BY <1>2, <1>3 DEF NewCodeCommit, Closes
<1>5. codes < TableLimit
  BY <1>4 DEF FloorInv, CodeHolds, Once
<1>. QED
  BY <1>1, <1>4, <1>5, FloorAssumption

\* A code made under the limit does not exceed it unless two were made at once,
\* for any limit and any number of devices.
THEOREM LimitHolds == FloorSpec => TableLimitHolds
BY StepWithinLimit, FloorInitially, FloorKeeps, PTL
   DEF FloorSpec, TableLimitHolds, WithinLimit

-----------------------------------------------------------------------------
(* Bills. *)

Line == [price : Int, quantity : Nat, subtotal : Int]
Lines == [Meals -> Line]

\* Every line is charged at its own price.
Charged(ls) == \A m \in Meals : ls[m].subtotal = ls[m].price * ls[m].quantity

BillInv == BillTypeOK /\ BillAddsUp

LEMMA SubtotalIsInt == ASSUME NEW ls \in Lines PROVE Subtotal(ls) \in Int
<1>1. [m \in Meals |-> ls[m].subtotal] \in [Meals -> Int]
  BY DEF Lines, Line
<1>. QED
  BY <1>1, SumIsInt, BillAssumption DEF Subtotal

\* What a round is built into.
LEMMA BuiltIsCharged ==
    ASSUME price \in [Meals -> Prices], NEW round \in Round
    PROVE  Built(round) \in Lines /\ Charged(Built(round))
<1>1. \A m \in Meals : price[m] \in Int /\ round[m] \in Nat
  <2>1. round \in [Meals -> 0..MaxPlates] /\ Prices \subseteq Int /\ MaxPlates \in Nat
    BY BillAssumption DEF Round
  <2>2. ASSUME NEW m \in Meals PROVE price[m] \in Int /\ round[m] \in Nat
    <3>1. price[m] \in Prices /\ round[m] \in 0..MaxPlates
      BY <2>1
    <3>2. price[m] \in Int
      BY <2>1, <3>1
    <3>3. round[m] \in Nat
      BY <3>1
    <3>. QED
      BY <3>2, <3>3
  <2>. QED
    BY <2>2
<1>2. \A m \in Meals : price[m] * round[m] \in Int
  BY <1>1
<1>3. Built(round) \in Lines
  BY <1>1, <1>2 DEF Built, Lines, Line, NoLine
<1>4. Charged(Built(round))
  BY <1>1 DEF Charged, Built, NoLine
<1>. QED
  BY <1>3, <1>4

\* A coupon that applies takes something off, and no more than the bill.
LEMMA DiscountIsCapped ==
    ASSUME NEW offer \in Offers, NEW ls \in Lines, Applies(offer, ls)
    PROVE  Discount(offer, ls) \in Nat /\ Discount(offer, ls) <= Subtotal(ls)
<1> DEFINE r == Reduction(offer, ls)
           t == Subtotal(ls)
<1>1. t \in Nat
  <2>1. t \in Int /\ offer.minSpend \in Nat /\ t >= offer.minSpend
    BY SubtotalIsInt, BillAssumption DEF Applies
  <2>. QED
    BY <2>1
<1>2. r > 0
  BY DEF Applies
<1>3. r \in Int
  <2>0. offer.value \in Nat /\ offer.kind \in OfferKind
    BY BillAssumption
  <2>1. CASE offer.kind = "percent"
    <3>1. t * offer.value \in Int
      BY <1>1, <2>0
    <3>2. (t * offer.value + 50) \div 100 \in Int
      BY <3>1
    <3>. QED
      BY <2>1, <3>2 DEF Reduction, Percent
  <2>2. CASE offer.kind \in {"flat", "bundle"}
    BY <2>0, <2>2 DEF Reduction
  <2>3. CASE offer.kind = "bogo"
    <3> DEFINE N == {ls[m].price : m \in {x \in Meals : ls[x].quantity > 0}}
    <3>1. N \in SUBSET Int /\ IsFiniteSet(N)
      <4>1. IsFiniteSet({x \in Meals : ls[x].quantity > 0})
        BY BillAssumption, FS_Subset
      <4>2. IsFiniteSet(N)
        <5> DEFINE D == {x \in Meals : ls[x].quantity > 0}
                   f == [m \in D |-> ls[m].price]
        <5>1. f \in Surjection(D, N)
          <6>1. f \in [D -> N]
            OBVIOUS
          <6>2. \A n \in N : \E m \in D : f[m] = n
            OBVIOUS
          <6>. QED
            BY <6>1, <6>2 DEF Surjection
        <5> HIDE DEF D, N, f
        <5>2. IsFiniteSet(D)
          BY <4>1 DEF D
        <5>. QED
          BY <5>1, <5>2, FS_Surjection
      <4>. QED
        BY <4>2 DEF Lines, Line
    <3>2. N # {}
      <4> DEFINE q == [m \in Meals |-> ls[m].quantity]
      <4>1. q \in [Meals -> Nat] /\ Quantity(ls) = SumFunction(q)
        BY DEF Lines, Line, Quantity
      <4>2. Quantity(ls) >= 2
        BY <2>3 DEF Applies
      <4>3. ~ \A m \in Meals : q[m] = 0
        <5> HIDE DEF q
        <5>. QED
          BY <4>1, <4>2, SumOfNothing, BillAssumption
      <4>4. PICK m \in Meals : q[m] # 0
        BY <4>3
      <4>5. ls[m].quantity > 0
        BY <4>1, <4>4
      <4>. QED
        BY <4>5
    <3> HIDE DEF N
    <3>3. \E x \in N : \A y \in N : x <= y
      BY <3>1, <3>2, LeastOfFew
    <3>4. Min(N) \in N
      BY <3>3 DEF Min
    <3>5. Min(N) \in Int
      BY <3>1, <3>4
    <3>. QED
      BY <2>3, <3>5 DEF Reduction, N
  <2>. QED
    BY <2>0, <2>1, <2>2, <2>3 DEF OfferKind
<1> HIDE DEF r, t
<1>4. Discount(offer, ls) = Min({r, t})
  BY DEF Discount, r, t
<1>5. Min({r, t}) \in {r, t} /\ Min({r, t}) <= t
  <2>1. \E x \in {r, t} : \A y \in {r, t} : x <= y
    BY <1>1, <1>3
  <2>. QED
    BY <2>1 DEF Min
<1>. QED
  BY <1>1, <1>2, <1>3, <1>4, <1>5 DEF t

\* Amounts that are taken from their lines add up, once the total is accepted.
LEMMA AmountsAddUp ==
    ASSUME NEW ls \in Lines, NEW d \in Nat, Accepted(Amounts(ls, d))
    PROVE  LET b == Amounts(ls, d)
           IN  /\ b \in [subtotal : Nat, discount : Nat, total : Nat]
               /\ b.subtotal = Subtotal(ls) /\ b.discount = d
               /\ b.discount <= b.subtotal /\ b.total + b.discount = b.subtotal
<1>1. Subtotal(ls) \in Int /\ Subtotal(ls) - d >= 0
  BY SubtotalIsInt DEF Accepted, Amounts
<1>2. /\ Subtotal(ls) \in Nat /\ Subtotal(ls) - d \in Nat /\ d <= Subtotal(ls)
      /\ (Subtotal(ls) - d) + d = Subtotal(ls)
  BY <1>1
<1>. QED
  BY <1>2 DEF Amounts

LEMMA BillInitially == BillInit => BillInv
<1> SUFFICES ASSUME BillInit PROVE BillInv
  OBVIOUS
<1> DEFINE f == [m \in Meals |-> lines[m].subtotal]
<1>1. lines \in Lines /\ Charged(lines)
  BY DEF BillInit, NoLine, Lines, Line, Charged
<1>2. Subtotal(lines) = 0
  <2>1. \A m \in Meals : f[m] = 0
    BY DEF BillInit, NoLine
  <2>2. f \in [Meals -> Nat] /\ SumFunction(f) = Subtotal(lines)
    BY <2>1 DEF Subtotal
  <2>. QED
    BY <2>1, <2>2, SumOfNothing, BillAssumption
<1>3. 0 \in 0..MaxRounds
  BY BillAssumption
<1>. QED
  BY <1>1, <1>2, <1>3 DEF BillInit, BillInv, BillTypeOK, BillAddsUp, Lines, Line, Charged

LEMMA PlaceAddsUp ==
    ASSUME BillInv, NEW round \in Round, PlaceRound(round)
    PROVE  BillInv'
<1>1. lines' \in Lines /\ Charged(lines')
  BY BuiltIsCharged DEF BillInv, BillTypeOK, PlaceRound
<1>2. PICK d \in Nat : bill' = Amounts(lines', d)
  <2>1. CASE bill' = Amounts(lines', 0)
    BY <2>1
  <2>2. CASE \E offer \in Offers : /\ Applies(offer, lines')
                                    /\ bill' = Amounts(lines', Discount(offer, lines'))
    BY <1>1, <2>2, DiscountIsCapped
  <2>. QED
    BY <2>1, <2>2 DEF PlaceRound
<1>3. rounds' \in 0..MaxRounds /\ price' = price /\ Accepted(bill')
  BY BillAssumption DEF PlaceRound
<1>4. Subtotal(lines)' = Subtotal(lines')
  BY DEF Subtotal
<1>. QED
  BY <1>1, <1>2, <1>3, <1>4, AmountsAddUp
  DEF BillInv, BillTypeOK, BillAddsUp, Lines, Line, Charged

\* More of a line is charged at the price of the line.
LEMMA MergedIsCharged ==
    ASSUME BillInv, NEW round \in Round
    PROVE  Merged(round) \in Lines /\ Charged(Merged(round))
<1> DEFINE ls == Merged(round)
<1>1. \A m \in Meals : Built(round)[m] \in Line
          /\ Built(round)[m].subtotal = Built(round)[m].price * Built(round)[m].quantity
  BY BuiltIsCharged DEF BillInv, BillTypeOK, Lines, Charged
<1>2. ASSUME NEW m \in Meals
      PROVE  ls[m] \in Line /\ ls[m].subtotal = ls[m].price * ls[m].quantity
  <2>1. lines[m] \in Line /\ lines[m].subtotal = lines[m].price * lines[m].quantity
    BY DEF BillInv, BillTypeOK, BillAddsUp, Line
  <2>2. CASE lines[m].quantity = 0
    <3>1. ls[m] = Built(round)[m]
      BY <2>2 DEF Merged
    <3>. QED
      BY <3>1, <1>1
  <2>3. CASE lines[m].quantity # 0
    <3> DEFINE p == lines[m].price
               q == lines[m].quantity
               r == round[m]
    <3>1. p \in Int /\ q \in Nat /\ r \in Nat
      BY <2>1, BillAssumption DEF Round, Line
    <3>2. ls[m] = [price |-> p, quantity |-> q + r, subtotal |-> p * (q + r)]
      BY <2>1, <2>3 DEF Merged, Line
    <3> HIDE DEF p, q, r, ls
    <3>3. p * (q + r) \in Int
      BY <3>1
    <3>. QED
      BY <3>1, <3>2, <3>3 DEF Line
  <2>. QED
    BY <2>2, <2>3
<1>3. ls = [m \in Meals |-> ls[m]]
  BY DEF Merged
<1> HIDE DEF ls
<1>4. ls \in Lines /\ Charged(ls)
  BY <1>2, <1>3 DEF Lines, Charged
<1>. QED
  BY <1>4 DEF ls

LEMMA AddAddsUp ==
    ASSUME BillInv, NEW round \in Round, AddRound(round)
    PROVE  BillInv'
<1>1. lines' \in Lines /\ Charged(lines')
  BY MergedIsCharged DEF AddRound
<1>2. bill.discount \in Nat
  BY DEF BillInv, BillTypeOK
<1>3. /\ rounds' \in 0..MaxRounds /\ price' = price /\ Accepted(bill')
      /\ bill' = Amounts(lines', bill.discount)
  BY BillAssumption DEF AddRound
<1>4. Subtotal(lines)' = Subtotal(lines')
  BY DEF Subtotal
<1>. QED
  BY <1>1, <1>2, <1>3, <1>4, AmountsAddUp
  DEF BillInv, BillTypeOK, BillAddsUp, Lines, Line, Charged

LEMMA BillStepAddsUp == BillInv /\ [BillStep]_billVars => BillInv'
<1> SUFFICES ASSUME BillInv, [BillStep]_billVars PROVE BillInv'
  OBVIOUS
<1>1. ASSUME NEW round \in Round, PlaceRound(round) PROVE BillInv'
  BY <1>1, PlaceAddsUp
<1>2. ASSUME NEW round \in Round, AddRound(round) PROVE BillInv'
  BY <1>2, AddAddsUp
<1>3. ASSUME NEW m \in Meals, EditPrice(m) PROVE BillInv'
  <2>1. price' \in [Meals -> Prices]
    BY <1>3 DEF EditPrice, BillInv, BillTypeOK
  <2>2. Subtotal(lines)' = Subtotal(lines)
    BY <1>3 DEF EditPrice, Subtotal
  <2>. QED
    BY <1>3, <2>1, <2>2 DEF EditPrice, BillInv, BillTypeOK, BillAddsUp
<1>4. CASE UNCHANGED billVars
  <2>1. Subtotal(lines)' = Subtotal(lines)
    BY <1>4 DEF billVars, Subtotal
  <2>. QED
    BY <1>4, <2>1 DEF billVars, BillInv, BillTypeOK, BillAddsUp
<1>. QED
  BY <1>1, <1>2, <1>3, <1>4 DEF BillStep

\* Every line is charged at the price it was first ordered at, a coupon takes off no
\* more than the bill, and no round makes the venue owe, for every menu, every round
\* and offer, and every price, one that a size lowers below nothing included
\* (_merge_items, compute_discount, ck_orders_total_nonneg).
THEOREM BillsAddUp == BillSpec => []BillAddsUp
<1>1. BillInv => BillAddsUp
  BY DEF BillInv
<1>. QED
  BY <1>1, BillInitially, BillStepAddsUp, PTL DEF BillSpec

-----------------------------------------------------------------------------
(* The events of a ticket. *)

\* The credits are counts and a task goes to credit dishes.
CreditTypes ==
    /\ credits \in [Plates -> Nat]
    /\ effects \in [Rounds -> Effect]
    /\ pairing \subseteq Plates \X Plates
    /\ phones \subseteq Phones

\* While no two tasks held one dish, what a task is about to credit is credited by
\* nobody, has not been before and is held by no other task.
CreditInv ==
    ~crossed =>
        /\ \A d \in Plates : credits[d] <= 1
        /\ \A r \in Rounds : effects[r].at = "due" =>
              /\ \A d \in effects[r].due : credits[d] = 0
              /\ \A q \in Rounds \ {r} :
                    effects[q].at = "due" => effects[r].due \cap effects[q].due = {}

\* Nothing is credited and no task runs.
LEMMA CreditsInitially == EventsInit => CreditTypes /\ CreditInv
<1> SUFFICES ASSUME EventsInit PROVE CreditTypes /\ CreditInv
  OBVIOUS
<1>1. NoEffect \in Effect /\ NoEffect.at = "off"
  BY DEF NoEffect, Effect
<1>2. pairing \subseteq Plates \X Plates
  BY DEF EventsInit
<1>3. CreditTypes
  BY <1>1, <1>2 DEF EventsInit, CreditTypes
<1>. QED
  BY <1>1, <1>3 DEF EventsInit, CreditInv

\* A task keeps the types when its new state is one of a task.
LEMMA TypesOfEffect ==
    ASSUME CreditTypes, NEW r \in Rounds, NEW new \in Effect, Becomes(r, new),
           credits' \in [Plates -> Nat], pairing' = pairing, phones' \subseteq Phones
    PROVE  /\ CreditTypes'
           /\ effects'[r] = new
           /\ \A q \in Rounds \ {r} : effects'[q] = effects[q]
BY DEF CreditTypes, Becomes

\* A task that holds no dish for credit, and leaves the credits alone.
LEMMA CreditRests ==
    ASSUME CreditInv, NEW r \in Rounds, effects'[r].at # "due",
           \A q \in Rounds \ {r} : effects'[q] = effects[q],
           credits' = credits, crossed' = crossed
    PROVE  CreditInv'
<1> SUFFICES ASSUME ~crossed PROVE CreditInv'
  BY DEF CreditInv
<1>. QED
  BY DEF CreditInv

\* Every step keeps the types and the credits.
LEMMA StepKeepsCredits ==
    ASSUME CreditTypes, CreditInv, EventsStep
    PROVE  CreditTypes' /\ CreditInv'
<1>1. ASSUME NEW r \in Rounds, RoundCommits(r) PROVE CreditTypes' /\ CreditInv'
  <2>1. PICK b \in BOOLEAN : b = (basket = {})
    <3>1. CASE basket = {}
      <4>1. (basket = {}) = TRUE
        BY <3>1
      <4>. QED
        BY <4>1, Zenon
    <3>2. CASE basket # {}
      <4>1. (basket = {}) = FALSE
        BY <3>2
      <4>. QED
        BY <4>1, Zenon
    <3>. QED
      BY <3>1, <3>2
  <2>2. PICK new \in Effect : new = [NoEffect EXCEPT !.at = "queued", !.first = b]
    BY DEF NoEffect, Effect
  <2>3. Becomes(r, [NoEffect EXCEPT !.at = "queued", !.first = b])
    BY <1>1, <2>1, Zenon DEF RoundCommits
  <2>4. Becomes(r, new)
    BY <2>2, <2>3, Zenon
  <2>5. new.at = "queued"
    BY <2>2 DEF NoEffect
  <2>6. CreditTypes' /\ effects'[r] = new
        /\ \A q \in Rounds \ {r} : effects'[q] = effects[q]
    BY <1>1, <2>4, TypesOfEffect DEF RoundCommits, CreditTypes
  <2>7. credits' = credits /\ crossed' = crossed
    BY <1>1 DEF RoundCommits
  <2>. QED
    BY <2>5, <2>6, <2>7, CreditRests
<1>2. ASSUME NEW r \in Rounds, ReadPairs(r) PROVE CreditTypes' /\ CreditInv'
  <2>1. Taken \subseteq Plates
    BY DEF Taken, CreditTypes
  <2>2. PICK new \in Effect : new = [effects[r] EXCEPT !.at = "pairs", !.due = Taken]
    BY <2>1 DEF Effect, CreditTypes
  <2>3. new.at = "pairs"
    BY <2>2 DEF Effect, CreditTypes
  <2>4. CreditTypes' /\ effects'[r] = new
        /\ \A q \in Rounds \ {r} : effects'[q] = effects[q]
    BY <1>2, <2>2, TypesOfEffect DEF ReadPairs, CreditTypes
  <2>5. credits' = credits /\ crossed' = crossed
    BY <1>2 DEF ReadPairs
  <2>. QED
    BY <2>3, <2>4, <2>5, CreditRests
<1>3. ASSUME NEW r \in Rounds, ReadCredits(r) PROVE CreditTypes' /\ CreditInv'
  <2>1. NotBanked(r) \subseteq Plates /\ \A d \in NotBanked(r) : credits[d] = 0
    BY DEF NotBanked, CreditTypes, Effect
  <2>2. PICK new \in Effect :
           new = [effects[r] EXCEPT !.at = "due", !.due = NotBanked(r)]
    BY <2>1 DEF Effect, CreditTypes
  <2>3. new.at = "due" /\ new.due = NotBanked(r)
    BY <2>2 DEF Effect, CreditTypes
  <2>4. CreditTypes' /\ effects'[r] = new
        /\ \A q \in Rounds \ {r} : effects'[q] = effects[q]
    BY <1>3, <2>2, TypesOfEffect DEF ReadCredits, CreditTypes
  <2>5. credits' = credits
    BY <1>3 DEF ReadCredits
  <2>6. ASSUME ~crossed'
        PROVE  /\ ~crossed
               /\ \A q \in Rounds \ {r} :
                     effects[q].at = "due" => effects[q].due \cap NotBanked(r) = {}
    <3>1. crossed' = (crossed \/ \E q \in Rounds \ {r} :
                 effects[q].at = "due" /\ effects[q].due \cap NotBanked(r) # {})
      BY <1>3, Zenon DEF ReadCredits
    <3>. QED
      BY <2>6, <3>1, Zenon
  <2>7. CreditInv'
    <3> SUFFICES ASSUME ~crossed' PROVE CreditInv'
      BY DEF CreditInv
    <3>. QED
      BY <2>1, <2>3, <2>4, <2>5, <2>6 DEF CreditInv
  <2>. QED
    BY <2>4, <2>7
<1>4. ASSUME NEW r \in Rounds, CommitCredits(r) PROVE CreditTypes' /\ CreditInv'
  <2>1. PICK new \in Effect : new = [effects[r] EXCEPT !.at = "notify", !.due = {}]
    BY DEF Effect, CreditTypes
  <2>2. new.at = "notify" /\ new.due = {}
    BY <2>1 DEF Effect, CreditTypes
  <2>3. credits' \in [Plates -> Nat]
    BY <1>4 DEF CommitCredits, CreditTypes
  <2>4. CreditTypes' /\ effects'[r] = new
        /\ \A q \in Rounds \ {r} : effects'[q] = effects[q]
    BY <1>4, <2>1, <2>3, TypesOfEffect DEF CommitCredits, CreditTypes
  <2>5. /\ effects[r].at = "due" /\ crossed' = crossed
        /\ \A d \in Plates : credits'[d] = IF d \in effects[r].due THEN credits[d] + 1
                                           ELSE credits[d]
    BY <1>4 DEF CommitCredits, Credited
  <2>6. CreditInv'
    <3> SUFFICES ASSUME ~crossed' PROVE CreditInv'
      BY DEF CreditInv
    <3>1. \A d \in Plates : credits[d] \in Nat /\ credits[d] <= 1
      BY <2>5 DEF CreditInv, CreditTypes
    <3>2. \A d \in effects[r].due : d \in Plates /\ credits[d] = 0
      BY <2>5 DEF CreditInv, CreditTypes, Effect
    <3>3. \A d \in Plates : credits'[d] <= 1
      BY <2>5, <3>1, <3>2
    <3>4. ASSUME NEW q \in Rounds, effects'[q].at = "due", NEW d \in effects'[q].due
          PROVE  credits'[d] = 0
      <4>1. q # r /\ effects'[q] = effects[q]
        BY <2>2, <2>4, <3>4
      <4>2. d \in Plates /\ credits[d] = 0 /\ d \notin effects[r].due
        BY <2>5, <3>4, <4>1 DEF CreditInv, CreditTypes, Effect
      <4>. QED
        BY <2>5, <4>2
    <3>5. ASSUME NEW p \in Rounds, NEW q \in Rounds \ {p}, effects'[p].at = "due",
                 effects'[q].at = "due"
          PROVE  effects'[p].due \cap effects'[q].due = {}
      BY <2>2, <2>4, <2>5, <3>5 DEF CreditInv
    <3>. QED
      BY <3>3, <3>4, <3>5 DEF CreditInv
  <2>. QED
    BY <2>4, <2>6
<1>5. ASSUME NEW r \in Rounds, TrackingFails(r) PROVE CreditTypes' /\ CreditInv'
  <2>1. PICK new \in Effect : new = [effects[r] EXCEPT !.at = "notify", !.due = {}]
    BY DEF Effect, CreditTypes
  <2>2. new.at = "notify"
    BY <2>1 DEF Effect, CreditTypes
  <2>3. CreditTypes' /\ effects'[r] = new
        /\ \A q \in Rounds \ {r} : effects'[q] = effects[q]
    BY <1>5, <2>1, TypesOfEffect DEF TrackingFails, CreditTypes
  <2>4. credits' = credits /\ crossed' = crossed
    BY <1>5 DEF TrackingFails
  <2>. QED
    BY <2>2, <2>3, <2>4, CreditRests
<1>6. ASSUME NEW r \in Rounds, SendPush(r) PROVE CreditTypes' /\ CreditInv'
  <2>1. PICK new \in Effect :
           new = [effects[r] EXCEPT !.at = "sending", !.batch = phones]
    BY DEF Effect, CreditTypes
  <2>2. new.at = "sending"
    BY <2>1 DEF Effect, CreditTypes
  <2>3. CreditTypes' /\ effects'[r] = new
        /\ \A q \in Rounds \ {r} : effects'[q] = effects[q]
    BY <1>6, <2>1, TypesOfEffect DEF SendPush, CreditTypes
  <2>4. credits' = credits /\ crossed' = crossed
    BY <1>6 DEF SendPush
  <2>. QED
    BY <2>2, <2>3, <2>4, CreditRests
<1>7. ASSUME NEW r \in Rounds, PruneGone(r) PROVE CreditTypes' /\ CreditInv'
  <2>1. PICK new \in Effect : new = [NoEffect EXCEPT !.at = "over"]
    BY DEF Effect, NoEffect
  <2>2. new.at = "over"
    BY <2>1 DEF NoEffect
  <2>3. CreditTypes' /\ effects'[r] = new
        /\ \A q \in Rounds \ {r} : effects'[q] = effects[q]
    BY <1>7, <2>1, TypesOfEffect DEF PruneGone, CreditTypes
  <2>4. credits' = credits /\ crossed' = crossed
    BY <1>7 DEF PruneGone
  <2>. QED
    BY <2>2, <2>3, <2>4, CreditRests
<1>8. CASE LoseEffects
  <2>1. \A r \in Rounds : effects'[r] \in Effect /\ effects'[r].at # "due"
    BY <1>8 DEF LoseEffects, NoEffect, Effect
  <2>2. CreditTypes'
    BY <1>8, <2>1 DEF LoseEffects, CreditTypes
  <2>. QED
    BY <1>8, <2>1, <2>2 DEF LoseEffects, CreditInv
<1>9. CASE EditPairs
  BY <1>9 DEF EditPairs, CreditTypes, CreditInv
<1>10. ASSUME NEW p \in Phones, Subscribe(p) \/ Unsubscribe(p) \/ PhoneGone(p)
       PROVE  CreditTypes' /\ CreditInv'
  BY <1>10 DEF Subscribe, Unsubscribe, PhoneGone, CreditTypes, CreditInv
<1>. QED
  BY <1>1, <1>2, <1>3, <1>4, <1>5, <1>6, <1>7, <1>8, <1>9, <1>10
     DEF EventsStep, EffectStep

\* A suggestion is credited once, however many rounds a ticket has and in
\* whatever order their tasks run, unless two of them held it at once.
THEOREM CreditedOnce == EventsSpec => []AttributedOnce
<1>1. CreditTypes /\ CreditInv /\ [EventsStep]_eventVars => CreditTypes' /\ CreditInv'
  <2> SUFFICES ASSUME CreditTypes, CreditInv, [EventsStep]_eventVars
               PROVE  CreditTypes' /\ CreditInv'
    OBVIOUS
  <2>1. CASE UNCHANGED eventVars
    BY <2>1 DEF eventVars, CreditTypes, CreditInv
  <2>. QED
    BY <2>1, StepKeepsCredits
<1>2. CreditInv => AttributedOnce
  BY DEF CreditInv, AttributedOnce
<1>. QED
  BY <1>1, <1>2, CreditsInitially, PTL DEF EventsSpec

-----------------------------------------------------------------------------
(* The limiter. *)

\* WindowHolds is not inductive: that the request Limit places before the new
\* one lies outside the window is known only of those that were popped.
Sorted ==
    /\ \A i, j \in 1..Len(log) : i <= j => log[i] <= log[j]
    /\ \A i \in 1..Len(log) : log[i] <= clock

PoppedAreOld == \A i \in 1..popped : Outdated(i)

LimitInv == LimitTypeOK /\ Sorted /\ PoppedAreOld /\ WindowHolds

LEMMA LimitInitially == LimitInit => LimitInv
  BY DEF LimitInit, LimitInv, LimitTypeOK, Sorted, PoppedAreOld, WindowHolds

\* Time passes.
LEMMA PassKeeps == LimitInv /\ Pass => LimitInv'
  <1> SUFFICES ASSUME LimitInv, Pass PROVE LimitInv'
    OBVIOUS
  <1> USE DEF LimitInv, LimitTypeOK, Pass
  <1>1. LimitTypeOK'
    OBVIOUS
  <1>2. \A i \in 1..Len(log) : log[i] \in Nat
    OBVIOUS
  <1>3. Sorted'
    BY <1>2 DEF Sorted
  <1>4. PoppedAreOld'
    BY <1>2, LimitAssumption DEF PoppedAreOld, Outdated
  <1>5. WindowHolds'
    BY DEF WindowHolds
  <1> QED
    BY <1>1, <1>3, <1>4, <1>5

\* A request passes, or is refused.
LEMMA ArriveKeeps == LimitInv /\ Arrive => LimitInv'
  <1> SUFFICES ASSUME LimitInv, Arrive PROVE LimitInv'
    OBVIOUS
  <1> USE DEF LimitInv, LimitTypeOK
  <1>1. PICK n \in popped..Len(log) :
          /\ Pops(n)
          /\ popped' = n
          /\ log' = IF Len(log) - n >= Limit THEN log ELSE Append(log, clock)
          /\ UNCHANGED clock
    BY DEF Arrive
  <1>2. n \in Nat /\ n <= Len(log) /\ Len(log) \in Nat /\ popped \in Nat
    BY <1>1
  <1>3. \A i \in 1..Len(log) : log[i] \in Nat
    OBVIOUS
  <1>4. \A i \in 1..n : clock - log[i] > Window
    <2> TAKE i \in 1..n
    <2>1. CASE i <= popped
      BY <2>1, <1>2 DEF PoppedAreOld, Outdated
    <2>2. CASE i > popped
      BY <2>2, <1>1, <1>2 DEF Pops, Outdated
    <2> QED
      BY <2>1, <2>2, <1>2
  <1>5. CASE log' = log
    BY <1>1, <1>2, <1>4, <1>5 DEF Sorted, PoppedAreOld, Outdated, WindowHolds
  <1>6. CASE Len(log) - n < Limit /\ log' = Append(log, clock)
    <2>1. /\ log' \in Seq(Nat)
          /\ Len(log') = Len(log) + 1
          /\ \A i \in 1..Len(log) : log'[i] = log[i]
          /\ log'[Len(log) + 1] = clock
      BY <1>6
    <2>2. LimitTypeOK'
      BY <1>1, <1>2, <2>1
    <2>3. Sorted'
      <3>1. \A i \in 1..Len(log') : log'[i] <= clock
        <4> TAKE i \in 1..Len(log')
        <4>1. CASE i \in 1..Len(log)
          BY <4>1, <2>1 DEF Sorted
        <4>2. CASE i = Len(log) + 1
          BY <4>2, <2>1
        <4> QED
          BY <4>1, <4>2, <1>2, <2>1
      <3>2. ASSUME NEW i \in 1..Len(log'), NEW j \in 1..Len(log'), i <= j
            PROVE  log'[i] <= log'[j]
        <4>1. CASE j = Len(log) + 1
          BY <4>1, <3>1, <2>1
        <4>2. CASE j <= Len(log)
          <5>1. i \in 1..Len(log) /\ j \in 1..Len(log)
            BY <3>2, <4>2, <1>2, <2>1
          <5> QED
            BY <5>1, <3>2, <2>1 DEF Sorted
        <4> QED
          BY <4>1, <4>2, <1>2, <2>1
      <3> QED
        BY <3>1, <3>2, <1>1 DEF Sorted
    <2>4. PoppedAreOld'
      BY <1>1, <1>2, <1>4, <2>1 DEF PoppedAreOld, Outdated
    <2>5. WindowHolds'
      <3> SUFFICES ASSUME NEW i \in 1..Len(log'), i + Limit <= Len(log')
                   PROVE  log'[i + Limit] - log'[i] > Window
        BY DEF WindowHolds
      <3>1. CASE i + Limit <= Len(log)
        <4>1. i \in 1..Len(log) /\ i + Limit \in 1..Len(log)
          BY <3>1, <1>2, LimitAssumption
        <4> QED
          BY <3>1, <4>1, <2>1 DEF WindowHolds
      <3>2. CASE i + Limit = Len(log) + 1
        <4>1. i \in 1..n /\ i \in 1..Len(log)
          BY <3>2, <1>6, <1>2, LimitAssumption
        <4> QED
          BY <4>1, <3>2, <1>4, <2>1
      <3>3. i + Limit <= Len(log) \/ i + Limit = Len(log) + 1
        <4>1. i \in Nat /\ i + Limit <= Len(log) + 1
          BY <2>1, <1>2
        <4> QED
          BY <4>1, <1>2, LimitAssumption
      <3> QED
        BY <3>1, <3>2, <3>3
    <2> QED
      BY <2>2, <2>3, <2>4, <2>5
  <1> QED
    BY <1>1, <1>5, <1>6, <1>2, LimitAssumption

LEMMA LimitIsInductive == LimitSpec => []LimitInv
  <1>1. LimitInv /\ [LimitStep]_limitVars => LimitInv'
    <2> SUFFICES ASSUME LimitInv, [LimitStep]_limitVars PROVE LimitInv'
      OBVIOUS
    <2>1. CASE Arrive
      BY <2>1, ArriveKeeps
    <2>2. CASE Pass
      BY <2>2, PassKeeps
    <2>3. CASE UNCHANGED limitVars
      BY <2>3 DEF LimitInv, LimitTypeOK, Sorted, PoppedAreOld, WindowHolds,
                  Outdated, limitVars
    <2> QED
      BY <2>1, <2>2, <2>3 DEF LimitStep
  <1> QED
    BY <1>1, LimitInitially, PTL DEF LimitSpec

\* The limiter keeps its rule: of any Limit + 1 requests of one client that pass,
\* the first and the last lie more than a window apart, for every rule and every
\* pattern of arrivals (rate_limit).
THEOREM NoWindowOverflows == LimitSpec => []WindowHolds
  <1>1. LimitInv => WindowHolds
    BY DEF LimitInv
  <1> QED
    BY <1>1, LimitIsInductive, PTL

-----------------------------------------------------------------------------
(* The types of every part. *)

\* The rounds whose task has told what it credits.
Answered == {r \in Rounds : effects[r].at \in {"notify", "sending", "over"}}

\* A round credits a dish once, so that a dish has no more credits than there are
\* rounds that answered.
EventsInv ==
    /\ EventsTypeOK
    /\ \A d \in Plates : credits[d] <= Cardinality(Answered)

LEMMA AnsweredIsFinite ==
    IsFiniteSet(Answered) /\ Cardinality(Answered) \in Nat
    /\ Cardinality(Answered) <= Cardinality(Rounds) /\ Cardinality(Rounds) \in Nat
<1>1. Answered \subseteq Rounds /\ IsFiniteSet(Rounds)
  BY EventsAssumption DEF Answered
<1>. QED
  BY <1>1, FS_Subset, FS_CardinalityType

\* A round that answered stays one.
LEMMA AnsweredGrows ==
    ASSUME NEW r \in Rounds, NEW new, effects \in [Rounds -> Effect], Becomes(r, new),
           effects[r].at \in {"notify", "sending", "over"}
           => new.at \in {"notify", "sending", "over"}
    PROVE  Answered \subseteq Answered'
<1>1. effects' = [effects EXCEPT ![r] = new]
  BY DEF Becomes
<1>. QED
  BY <1>1 DEF Answered

LEMMA TasksAnswer ==
    ASSUME effects \in [Rounds -> Effect], EventsStep
    PROVE  /\ Answered \subseteq Answered'
           /\ \/ credits' = credits
              \/ \E r \in Rounds : CommitCredits(r)
<1>1. ASSUME NEW r \in Rounds, RoundCommits(r) PROVE Answered \subseteq Answered'
  <2> DEFINE new == [NoEffect EXCEPT !.at = "queued", !.first = (basket = {})]
  <2>1. Becomes(r, new) /\ effects[r].at = "off"
    BY <1>1 DEF RoundCommits
  <2> HIDE DEF new
  <2>. QED
    BY <2>1, AnsweredGrows
<1>2. ASSUME NEW r \in Rounds, ReadPairs(r) PROVE Answered \subseteq Answered'
  <2>1. effects[r].at = "queued"
        /\ Becomes(r, [effects[r] EXCEPT !.at = "pairs", !.due = Taken])
    BY <1>2 DEF ReadPairs
  <2>. QED
    BY <2>1, AnsweredGrows
<1>3. ASSUME NEW r \in Rounds, ReadCredits(r) PROVE Answered \subseteq Answered'
  <2>1. effects[r].at = "pairs"
        /\ Becomes(r, [effects[r] EXCEPT !.at = "due", !.due = NotBanked(r)])
    BY <1>3 DEF ReadCredits
  <2>. QED
    BY <2>1, AnsweredGrows
<1>4. ASSUME NEW r \in Rounds, NEW at \in {"notify", "sending", "over"},
             NEW e, NEW due, Becomes(r, [e EXCEPT !.at = at, !.due = due]), e \in Effect
      PROVE  Answered \subseteq Answered'
  <2>1. [e EXCEPT !.at = at, !.due = due].at = at
    BY <1>4 DEF Effect
  <2>. QED
    BY <1>4, <2>1, AnsweredGrows
<1>5. ASSUME NEW r \in Rounds, CommitCredits(r) \/ TrackingFails(r)
      PROVE  Answered \subseteq Answered'
  BY <1>4, <1>5 DEF CommitCredits, TrackingFails
<1>6. ASSUME NEW r \in Rounds, SendPush(r) PROVE Answered \subseteq Answered'
  <2> DEFINE new == [effects[r] EXCEPT !.at = "sending", !.batch = phones]
  <2>1. Becomes(r, new)
    BY <1>6 DEF SendPush
  <2>2. new.at = "sending"
    BY DEF Effect
  <2> HIDE DEF new
  <2>. QED
    BY <2>1, <2>2, AnsweredGrows
<1>7. ASSUME NEW r \in Rounds, PruneGone(r) PROVE Answered \subseteq Answered'
  <2> DEFINE new == [NoEffect EXCEPT !.at = "over"]
  <2>1. Becomes(r, new)
    BY <1>7 DEF PruneGone
  <2>2. new.at = "over"
    BY DEF NoEffect
  <2> HIDE DEF new
  <2>. QED
    BY <2>1, <2>2, AnsweredGrows
<1>8. ASSUME LoseEffects PROVE Answered \subseteq Answered'
  <2>1. effects' = [r \in Rounds |-> IF effects[r].at = "off" THEN NoEffect
                                     ELSE [NoEffect EXCEPT !.at = "over"]]
    BY <1>8 DEF LoseEffects
  <2>2. ASSUME NEW r \in Rounds, effects[r].at \in {"notify", "sending", "over"}
        PROVE  effects'[r].at \in {"notify", "sending", "over"}
    BY <2>1, <2>2 DEF NoEffect
  <2>. QED
    BY <2>2 DEF Answered
<1>9. ASSUME effects' = effects PROVE Answered \subseteq Answered'
  BY <1>9 DEF Answered
<1>10. Answered \subseteq Answered'
  <2>1. ASSUME NEW r \in Rounds, EffectStep(r) PROVE Answered \subseteq Answered'
    BY <1>2, <1>3, <1>5, <1>6, <1>7, <2>1 DEF EffectStep
  <2>2. CASE EditPairs
    BY <1>9, <2>2 DEF EditPairs
  <2>3. ASSUME NEW p \in Phones, Subscribe(p) \/ Unsubscribe(p) \/ PhoneGone(p)
        PROVE  Answered \subseteq Answered'
    BY <1>9, <2>3 DEF Subscribe, Unsubscribe, PhoneGone
  <2>. QED
    BY <1>1, <1>8, <2>1, <2>2, <2>3 DEF EventsStep
<1>11. credits' = credits \/ \E r \in Rounds : CommitCredits(r)
  BY DEF EventsStep, EffectStep, RoundCommits, ReadPairs, ReadCredits, TrackingFails,
         SendPush, PruneGone, LoseEffects, EditPairs, Subscribe, Unsubscribe, PhoneGone
<1>. QED
  BY <1>10, <1>11

LEMMA EventsInitially == EventsInit => EventsInv
<1> SUFFICES ASSUME EventsInit PROVE EventsInv
  OBVIOUS
<1>1. CreditTypes
  BY CreditsInitially
<1>2. /\ basket = {} /\ phones = {} /\ dead = {} /\ crossed = FALSE /\ excused = FALSE
      /\ credits = [d \in Plates |-> 0]
  BY DEF EventsInit
<1>3. Cardinality(Rounds) \in Nat /\ Cardinality(Answered) \in Nat
  BY AnsweredIsFinite
<1>4. credits \in [Plates -> 0..Cardinality(Rounds)]
  BY <1>2, <1>3
<1>5. EventsTypeOK
  BY <1>1, <1>2, <1>4 DEF CreditTypes, EventsTypeOK
<1>. QED
  BY <1>2, <1>3, <1>5 DEF EventsInv

LEMMA EventsStepKeeps ==
    ASSUME EventsInv, CreditTypes, CreditTypes', EventsStep
    PROVE  EventsInv'
<1>1. effects \in [Rounds -> Effect] /\ credits \in [Plates -> Nat]
      /\ credits' \in [Plates -> Nat]
  BY DEF CreditTypes
<1>2. Answered \subseteq Answered'
  BY <1>1, TasksAnswer
<1>3. /\ IsFiniteSet(Answered) /\ Cardinality(Answered) \in Nat
      /\ IsFiniteSet(Answered') /\ Cardinality(Answered') \in Nat
      /\ Cardinality(Answered') <= Cardinality(Rounds) /\ Cardinality(Rounds) \in Nat
  <2>1. effects' \in [Rounds -> Effect]
    BY DEF CreditTypes
  <2>2. Answered' \subseteq Rounds /\ IsFiniteSet(Rounds)
    BY EventsAssumption DEF Answered
  <2>. QED
    BY <2>2, AnsweredIsFinite, FS_Subset, FS_CardinalityType
<1>4. Cardinality(Answered) <= Cardinality(Answered')
  BY <1>2, <1>3, FS_Subset
<1>5. \A d \in Plates : credits'[d] <= Cardinality(Answered')
  <2>1. CASE credits' = credits
    BY <1>1, <1>3, <1>4, <2>1 DEF EventsInv
  <2>2. ASSUME NEW r \in Rounds, CommitCredits(r)
        PROVE  \A d \in Plates : credits'[d] <= Cardinality(Answered')
    <3>1. /\ effects[r].at = "due"
          /\ effects' = [effects EXCEPT ![r] = [effects[r] EXCEPT !.at = "notify", !.due = {}]]
      BY <2>2 DEF CommitCredits, Becomes
    <3>2. r \notin Answered /\ r \in Answered'
      BY <1>1, <3>1 DEF Answered, Effect
    <3>3. Cardinality(Answered \cup {r}) = Cardinality(Answered) + 1
      BY <1>3, <3>2, FS_AddElement
    <3>4. Cardinality(Answered \cup {r}) <= Cardinality(Answered')
      <4>1. Answered \cup {r} \subseteq Answered'
        BY <1>2, <3>2
      <4>. QED
        BY <1>3, <4>1, FS_Subset
    <3>5. \A d \in Plates : credits'[d] <= credits[d] + 1
      BY <1>1, <2>2 DEF CommitCredits
    <3>. QED
      BY <1>1, <1>3, <3>3, <3>4, <3>5 DEF EventsInv
  <2>. QED
    BY <1>1, <2>1, <2>2, TasksAnswer
<1>6. basket' \subseteq Plates /\ dead' \subseteq Phones
  BY DEF EventsInv, EventsTypeOK, EventsStep, EffectStep, RoundCommits, ReadPairs,
         ReadCredits, CommitCredits, TrackingFails, SendPush, PruneGone, LoseEffects,
         EditPairs, Subscribe, Unsubscribe, PhoneGone
<1>7. crossed' \in BOOLEAN /\ excused' \in BOOLEAN
  BY DEF EventsInv, EventsTypeOK, EventsStep, EffectStep, RoundCommits, ReadPairs,
         ReadCredits, CommitCredits, TrackingFails, SendPush, PruneGone, LoseEffects,
         EditPairs, Subscribe, Unsubscribe, PhoneGone
<1>8. credits' \in [Plates -> 0..Cardinality(Rounds)]
  <2>1. \A d \in Plates : credits'[d] \in 0..Cardinality(Rounds)
    BY <1>1, <1>3, <1>5
  <2>. QED
    BY <1>1, <2>1
<1>. QED
  BY <1>5, <1>6, <1>7, <1>8 DEF CreditTypes, EventsTypeOK, EventsInv

\* A dish has no more credits than the ticket had rounds, and the rest of what a
\* ticket's events keep has its type (log_order_upsells runs once in a round).
THEOREM EventsTypeCorrect == EventsSpec => []EventsTypeOK
<1>1. EventsInit => EventsInv /\ CreditTypes /\ CreditInv
  BY EventsInitially, CreditsInitially
<1>2. EventsInv /\ CreditTypes /\ CreditInv /\ [EventsStep]_eventVars
      => EventsInv' /\ CreditTypes' /\ CreditInv'
  <2>1. CASE EventsStep
    BY <2>1, StepKeepsCredits, EventsStepKeeps
  <2>2. CASE UNCHANGED eventVars
    BY <2>2 DEF eventVars, EventsInv, EventsTypeOK, CreditTypes, CreditInv, Answered
  <2>. QED
    BY <2>1, <2>2
<1>3. EventsInv => EventsTypeOK
  BY DEF EventsInv
<1>. QED
  BY <1>1, <1>2, <1>3, PTL DEF EventsSpec

\* What FloorInv leaves open of the types.
ServedTypes ==
    /\ venue \in Venue
    /\ rated \subseteq Served
    /\ doubled \subseteq ErrandOp \X Subject
    /\ \A p \in People : errand[p].op = "rate" => errand[p].on \in Served

LEMMA OpensServes ==
    ASSUME FloorInv, ServedTypes, NEW p \in People, NEW op \in ErrandOp,
           NEW on \in Subject, NEW limited, Opens(p, op, on, limited),
           op = "rate" => on \in Served
    PROVE  ServedTypes'
<1>1. errand \in [People -> Errand]
  BY DEF FloorInv, FloorTypes
<1>2. /\ errand' = [errand EXCEPT ![p] = [op |-> op, on |-> on, limited |-> limited]]
      /\ venue' = venue /\ rated' = rated
      /\ doubled' = doubled \/ doubled' = doubled \cup {<<op, on>>}
  BY DEF Opens
<1>3. doubled' \subseteq ErrandOp \X Subject
  BY <1>2 DEF ServedTypes
<1>4. \A q \in People : errand'[q].op = "rate" => errand'[q].on \in Served
  BY <1>1, <1>2 DEF ServedTypes
<1>. QED
  BY <1>2, <1>3, <1>4 DEF ServedTypes

LEMMA ClosesServes ==
    ASSUME FloorInv, ServedTypes, NEW p \in People, NEW op, Closes(p, op),
           venue' = venue, rated' \subseteq Served
    PROVE  ServedTypes'
<1>1. errand \in [People -> Errand]
  BY DEF FloorInv, FloorTypes
<1>2. errand' = [errand EXCEPT ![p] = NoErrand] /\ doubled' = doubled
  BY DEF Closes
<1>3. NoErrand.op = "none"
  BY DEF NoErrand
<1>4. \A q \in People : errand'[q].op = "rate" => errand'[q].on \in Served
  BY <1>1, <1>2, <1>3 DEF ServedTypes
<1>. QED
  BY <1>2, <1>4 DEF ServedTypes

LEMMA ServedStep ==
    FloorInv /\ ServedTypes /\ [FloorStep]_floorVars => ServedTypes'
<1> SUFFICES ASSUME FloorInv, ServedTypes, [FloorStep]_floorVars PROVE ServedTypes'
  OBVIOUS
<1>0. Nothing \in Subject /\ Seats \subseteq Subject /\ CallIds \subseteq Subject
      /\ Served \subseteq Subject
  BY DEF Subject
<1>1. ASSUME NEW p \in People,
             Ring(p) \/ Acknowledge(p) \/ NewCode(p) \/ ReviewSign(p) \/ Rate(p)
      PROVE  ServedTypes'
  <2>1. PICK op \in ErrandOp, on \in Subject :
            /\ op = "rate" => on \in Served
            /\ \E limited : Opens(p, op, on, limited)
    <3>1. CASE Ring(p)
      BY <1>0, <3>1 DEF Ring, ErrandOp
    <3>2. CASE Acknowledge(p)
      BY <1>0, <3>2 DEF Acknowledge, ErrandOp
    <3>3. CASE NewCode(p)
      <4>1. \E limited : Opens(p, "code", Nothing, limited)
        BY <3>3, Zenon DEF NewCode
      <4>. QED
        BY <1>0, <4>1 DEF ErrandOp
    <3>4. CASE ReviewSign(p)
      BY <1>0, <3>4 DEF ReviewSign, ErrandOp
    <3>5. CASE Rate(p)
      <4>1. completed \subseteq Served
        BY DEF FloorInv, FloorTypes
      <4>. QED
        BY <1>0, <3>5, <4>1 DEF Rate, ErrandOp
    <3>. QED
      BY <1>1, <3>1, <3>2, <3>3, <3>4, <3>5
  <2>. QED
    BY <2>1, OpensServes
<1>2. ASSUME NEW p \in People,
             \/ RingCommit(p) \/ AcknowledgeCommit(p) \/ NewCodeCommit(p)
             \/ ReviewSignCommit(p) \/ ErrandFails(p)
      PROVE  ServedTypes'
  <2>1. \E op : Closes(p, op)
    BY <1>2 DEF RingCommit, AcknowledgeCommit, NewCodeCommit, ReviewSignCommit, ErrandFails
  <2>2. venue' = venue /\ rated' \subseteq Served
    BY <1>2 DEF RingCommit, AcknowledgeCommit, NewCodeCommit, ReviewSignCommit,
                ErrandFails, ServedTypes
  <2>. QED
    BY <2>1, <2>2, ClosesServes
<1>3. ASSUME NEW p \in People, RateCommit(p) PROVE ServedTypes'
  <2>1. Closes(p, "rate") /\ venue' = venue /\ rated' = rated \cup {errand[p].on}
    BY <1>3 DEF RateCommit
  <2>2. errand[p].on \in Served
    BY <2>1 DEF Closes, ServedTypes
  <2>3. rated' \subseteq Served
    BY <2>1, <2>2 DEF ServedTypes
  <2>. QED
    BY <2>1, <2>3, ClosesServes
<1>4. ASSUME NEW field \in {"active", "ringing", "pro"}, Switch(field) PROVE ServedTypes'
  <2>1. venue' = [venue EXCEPT ![field] = ~@]
        /\ rated' = rated /\ errand' = errand /\ doubled' = doubled
    BY <1>4 DEF Switch
  <2>2. venue' \in Venue
    BY <2>1 DEF ServedTypes, Venue
  <2>. QED
    BY <2>1, <2>2 DEF ServedTypes
<1>5. ASSUME NEW o \in Served, Complete(o) PROVE ServedTypes'
  BY <1>5 DEF Complete, ServedTypes
<1>6. CASE UNCHANGED floorVars
  BY <1>6 DEF floorVars, ServedTypes
<1>. QED
  BY <1>1, <1>2, <1>3, <1>4, <1>5, <1>6 DEF FloorStep, CallStep, CodeStep, RateStep

\* Devices work on what exists: a table, a call, a ticket that may be rated
\* (waiter_call.py, qr.py, review.py).
THEOREM FloorTypeCorrect == FloorSpec => []FloorTypeOK
<1>1. FloorInit => ServedTypes
  BY DEF FloorInit, ServedTypes, Venue, NoErrand
<1>2. FloorInv /\ ServedTypes => FloorTypeOK
  BY DEF FloorInv, FloorTypes, ServedTypes, FloorTypeOK
<1>. QED
  BY <1>1, <1>2, FloorInitially, FloorKeeps, ServedStep, PTL DEF FloorSpec

\* Prices, lines and amounts are whole numbers of the smallest coin
\* (order_pricing.py).
THEOREM BillTypeCorrect == BillSpec => []BillTypeOK
<1>1. BillInv => BillTypeOK
  BY DEF BillInv
<1>. QED
  BY <1>1, BillInitially, BillStepAddsUp, PTL DEF BillSpec

\* What a container has put behind it is made of scripts (scripts/migrate.py).
THEOREM MigrationTypeCorrect == MigrationSpec => []MigrationTypeOK
<1>1. MigrationTypeInv => MigrationTypeOK
  BY DEF MigrationTypeInv
<1>. QED
  BY <1>1, MigrationInitTypes, SchemaInitially, SchemaIsInductive, PTL DEF MigrationSpec

\* The deque never lets go of more than it held (rate_limit.py).
THEOREM LimitTypeCorrect == LimitSpec => []LimitTypeOK
<1>1. LimitInv => LimitTypeOK
  BY DEF LimitInv
<1>. QED
  BY <1>1, LimitIsInductive, PTL

-----------------------------------------------------------------------------
(* The parts together. *)

\* Each part of a restaurant runs as it does alone, whatever the others do beside it:
\* the modules share no state but the menu, and that one as Menu allows.
THEOREM PartsRunAlone ==
    RestaurantSpec => /\ KitchenSpec /\ MenuSpec /\ MigrationSpec /\ FloorSpec
                      /\ BillSpec /\ EventsSpec /\ LimitSpec
<1>1. RestaurantInit => /\ MenuInit /\ JobsInit /\ MigrationInit /\ FloorInit
                        /\ BillInit /\ EventsInit /\ LimitInit
  BY DEF RestaurantInit
<1>2. [RestaurantStep]_restaurantVars =>
          /\ [KitchenStep]_kitchenVars /\ [MigrationStep]_migrationVars
          /\ [FloorStep]_floorVars /\ [BillStep]_billVars
          /\ [EventsStep]_eventVars /\ [LimitStep]_limitVars
  BY DEF RestaurantStep, restaurantVars
<1>3. RestaurantSpec => /\ KitchenSpec /\ MigrationSpec /\ FloorSpec
                        /\ BillSpec /\ EventsSpec /\ LimitSpec
  BY <1>1, <1>2, PTL DEF RestaurantSpec, KitchenSpec, MigrationSpec, FloorSpec,
                         BillSpec, EventsSpec, LimitSpec
<1>. QED
  BY <1>3, KitchenKeepsMenu, PTL

\* Every part keeps its types beside the others.
THEOREM VenueTypeCorrect == RestaurantSpec => []VenueTypeOK
<1>1. /\ MenuTypeOK /\ JobsTypeOK /\ MigrationTypeOK /\ FloorTypeOK
      /\ BillTypeOK /\ EventsTypeOK /\ LimitTypeOK
      => VenueTypeOK
  BY DEF VenueTypeOK
<1>. QED
  BY <1>1, PartsRunAlone, MenuTypeCorrect, JobsTypeCorrect, MigrationTypeCorrect,
     FloorTypeCorrect, BillTypeCorrect, EventsTypeCorrect, LimitTypeCorrect, PTL
=============================================================================
