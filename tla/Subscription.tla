---------------------------- MODULE Subscription ----------------------------
(***************************************************************************)
(* The plan of one venue: app/services/subscription.py over the            *)
(* subscriptions and plan_requests tables.                                 *)
(*                                                                         *)
(* Every operation loads the row, moves it forward to the present in       *)
(* memory (_advance), edits it and commits.  No row is locked: the commit  *)
(* updates the columns that differ from the loaded row and leaves the rest *)
(* to whoever wrote them last.  A transaction is short against a day: it   *)
(* may straddle one tick of the clock, never two.                          *)
(***************************************************************************)
EXTENDS Integers

CONSTANTS
    Sessions,    \* concurrent requests of owners, administrators and dashboards
    RequestIds,  \* rows of plan_requests (bounds how many are ever filed)
    NoRequest,
    Never,       \* a deadline that is not set
    TrialDays,   \* [Plans -> Nat], trial_days of each plan
    Period,      \* BILLING_PERIOD_DAYS
    Grace,       \* GRACE_PERIOD_DAYS
    Operations,  \* the operations in use
    MaxTime      \* bound on the clock

Plans == {"BASIC", "PRO"}
NoPlan == "NONE"

ASSUME PlanAssumption ==
    /\ TrialDays \in [Plans -> Nat]
    /\ Period \in Nat /\ Grace \in Nat /\ MaxTime \in Nat
    /\ Never \notin Nat
    /\ NoRequest \notin RequestIds

Status == {"TRIALING", "ACTIVE", "GRACE", "SUSPENDED", "CANCELLED"}
RequestStatus == {"NONE", "PENDING", "APPROVED", "REJECTED"}
Operation == {"state", "change", "pay", "cancel", "resume", "approve",
              "reject", "assign"}

ASSUME OperationAssumption == Operations \subseteq Operation

Deadline == Nat \cup {Never}

Row == [plan : Plans, status : Status,
        trialEnds : Deadline, periodEnd : Deadline, graceEnds : Deadline,
        proTrialUsed : BOOLEAN, scheduled : Plans \cup {NoPlan},
        cancelAtEnd : BOOLEAN, paid : BOOLEAN]

\* A transaction has looked at nothing, at its plan request, at the venue's row,
\* or at the row and then for a pending request.
Phase == {"idle", "review", "loaded", "looked"}

Txn == [phase : Phase,
        op : Operation,
        plan : Plans,                          \* the plan asked for
        read : Row,                            \* the row as loaded
        at : Nat,                              \* when
        request : RequestIds \cup {NoRequest}] \* the request it found

VARIABLES
    sub,       \* the venue's row of subscriptions
    requests,  \* the status of its rows of plan_requests
    txn,       \* the transaction of each session
    now        \* days

vars == <<sub, requests, txn, now>>

-----------------------------------------------------------------------------
(* _advance. *)

Past(moment, t) == moment # Never /\ moment <= t

EndTrial(row, t) ==
    IF ~(row.status = "TRIALING" /\ Past(row.trialEnds, t)) THEN row
    ELSE IF row.cancelAtEnd
         THEN [row EXCEPT !.trialEnds = Never, !.status = "CANCELLED"]
    ELSE IF row.paid
         THEN [row EXCEPT !.trialEnds = Never, !.status = "ACTIVE",
                          !.periodEnd = t + Period]
         ELSE [row EXCEPT !.trialEnds = Never, !.status = "GRACE",
                          !.graceEnds = t + Grace]

ApplyPlanNow(row, plan) == [row EXCEPT !.plan = plan, !.scheduled = NoPlan]

\* Mutant: the period ends as if a downgrade were always scheduled.
AlwaysScheduled(row) == ApplyPlanNow(row, row.scheduled)

ApplyScheduled(row) ==
    IF row.scheduled = NoPlan THEN row ELSE ApplyPlanNow(row, row.scheduled)

EndPeriod(row, t) ==
    IF ~(row.status = "ACTIVE" /\ Past(row.periodEnd, t)) THEN row
    ELSE IF row.cancelAtEnd
         THEN [ApplyScheduled(row) EXCEPT !.status = "CANCELLED",
                                          !.periodEnd = Never]
    ELSE IF row.paid
         THEN [ApplyScheduled(row) EXCEPT !.periodEnd = t + Period]
         ELSE [ApplyScheduled(row) EXCEPT !.status = "GRACE",
                                          !.graceEnds = t + Grace]

EndGrace(row, t) ==
    IF row.status = "GRACE" /\ Past(row.graceEnds, t)
    THEN [row EXCEPT !.status = "SUSPENDED", !.graceEnds = Never]
    ELSE row

Advance(row, t) == EndGrace(EndPeriod(EndTrial(row, t), t), t)

\* Mutant: the Pro trial starts again with every upgrade.
TrialEveryTime(row, plan, t) ==
    [row EXCEPT !.plan = plan, !.scheduled = NoPlan, !.graceEnds = Never,
                !.proTrialUsed = TRUE, !.status = "TRIALING",
                !.trialEnds = t + TrialDays["PRO"], !.periodEnd = Never]

\* _apply_upgrade: the first taste of Pro is a trial.
ApplyUpgrade(row, plan, t) ==
    LET upgraded == [row EXCEPT !.plan = plan, !.scheduled = NoPlan,
                                !.graceEnds = Never]
    IN  IF plan = "PRO" /\ ~row.proTrialUsed
        THEN [upgraded EXCEPT !.proTrialUsed = TRUE, !.status = "TRIALING",
                              !.trialEnds = t + TrialDays["PRO"],
                              !.periodEnd = Never]
        ELSE [upgraded EXCEPT !.status = "ACTIVE", !.trialEnds = Never,
                              !.periodEnd = t + Period]

\* effective_plan: a lapsed venue falls back to Basic.
Effective(row) ==
    IF row.status \in {"TRIALING", "ACTIVE", "GRACE"} THEN row.plan ELSE "BASIC"

-----------------------------------------------------------------------------
(* Loading and saving. *)

\* get_or_create: a venue starts on a Basic trial.
FirstRow ==
    [plan |-> "BASIC", status |-> "TRIALING", trialEnds |-> TrialDays["BASIC"],
     periodEnd |-> Never, graceEnds |-> Never, proTrialUsed |-> FALSE,
     scheduled |-> NoPlan, cancelAtEnd |-> FALSE, paid |-> FALSE]

Idle == [phase |-> "idle", op |-> "state", plan |-> "BASIC", read |-> FirstRow,
         at |-> 0, request |-> NoRequest]

Init ==
    /\ sub = FirstRow
    /\ requests = [q \in RequestIds |-> "NONE"]
    /\ txn = [s \in Sessions |-> Idle]
    /\ now = 0

Load(s, op, plan, q) ==
    txn' = [txn EXCEPT ![s] = [phase |-> "loaded", op |-> op, plan |-> plan,
                               read |-> sub, at |-> now, request |-> q]]

Doing(s, phase, op) == txn[s].phase = phase /\ txn[s].op = op

\* The row in memory.
Current(s) == Advance(txn[s].read, txn[s].at)

\* Mutant: the UPDATE names every column.
WholeRow(stored, read, row) == row

\* UPDATE only what changed in memory.
Merged(stored, read, row) ==
    [f \in DOMAIN stored |-> IF row[f] # read[f] THEN row[f] ELSE stored[f]]

Save(s, row) ==
    /\ sub' = Merged(sub, txn[s].read, row)
    /\ txn' = [txn EXCEPT ![s] = Idle]
    /\ UNCHANGED now

-----------------------------------------------------------------------------
(* The operations: Begin, FindRequest and LoadForApproval read,              *)
(* LookForPending is get_pending, the others commit.                         *)

\* get_state commits only when the row moved.
Begin(s) ==
    /\ txn[s].phase = "idle"
    /\ \E op \in Operations \ {"approve", "reject"}, plan \in Plans :
          /\ op = "state" => Advance(sub, now) # sub
          /\ op \notin {"change", "assign"} => plan = "BASIC"
          /\ Load(s, op, plan, NoRequest)
    /\ UNCHANGED <<sub, requests, now>>

\* A review loads its request, which must still be waiting ...
FindRequest(s) ==
    /\ txn[s].phase = "idle"
    /\ \E op \in Operations \cap {"approve", "reject"}, q \in RequestIds :
          /\ requests[q] = "PENDING"
          /\ txn' = [txn EXCEPT ![s] = [Idle EXCEPT !.phase = "review", !.op = op,
                                          !.at = now, !.request = q]]
    /\ UNCHANGED <<sub, requests, now>>

\* ... and, to approve it, the venue's row.
LoadForApproval(s) ==
    /\ Doing(s, "review", "approve")
    /\ Load(s, "approve", "PRO", txn[s].request)
    /\ UNCHANGED <<sub, requests, now>>

LookForPending(s) ==
    /\ txn[s].phase = "loaded" /\ txn[s].op \in {"change", "assign"}
    /\ \/ \E q \in RequestIds :
             /\ requests[q] = "PENDING"
             /\ txn' = [txn EXCEPT ![s] = [@ EXCEPT !.phase = "looked", !.request = q]]
       \/ /\ \A q \in RequestIds : requests[q] # "PENDING"
          /\ txn' = [txn EXCEPT ![s] = [@ EXCEPT !.phase = "looked"]]
    /\ UNCHANGED <<sub, requests, now>>

GetState(s) ==
    /\ Doing(s, "loaded", "state")
    /\ Save(s, Current(s))
    /\ UNCHANGED requests

\* Asking for the current plan calls a scheduled downgrade off.
KeepPlan(s) ==
    /\ Doing(s, "loaded", "change")
    /\ Current(s).plan = txn[s].plan
    /\ Current(s).scheduled # NoPlan
    /\ Save(s, [Current(s) EXCEPT !.scheduled = NoPlan])
    /\ UNCHANGED requests

\* uq_plan_requests_pending: one waiting request per venue.
RequestUpgrade(s) ==
    /\ Doing(s, "looked", "change") /\ txn[s].plan = "PRO"
    /\ Current(s).plan = "BASIC"
    /\ txn[s].request = NoRequest
    /\ \A q \in RequestIds : requests[q] # "PENDING"
    /\ \E q \in RequestIds : /\ requests[q] = "NONE"
                             /\ requests' = [requests EXCEPT ![q] = "PENDING"]
    /\ Save(s, Current(s))

\* Mutant: a downgrade applies at once.
DowngradedAtOnce(row) == ApplyPlanNow(row, "BASIC")

Downgraded(row) ==
    IF row.status = "SUSPENDED" THEN ApplyPlanNow(row, "BASIC")
    ELSE [row EXCEPT !.scheduled = "BASIC"]

ScheduleDowngrade(s) ==
    /\ Doing(s, "loaded", "change") /\ txn[s].plan = "BASIC"
    /\ Current(s).plan = "PRO"
    /\ Save(s, Downgraded(Current(s)))
    /\ UNCHANGED requests

\* Mutant: a saved method ends the lapse but starts no period.
NoFreshPeriod(row, t) ==
    IF row.status \in {"GRACE", "SUSPENDED"}
    THEN [row EXCEPT !.paid = TRUE, !.status = "ACTIVE", !.graceEnds = Never]
    ELSE [row EXCEPT !.paid = TRUE]

\* Mutant: a saved method waits for the next renewal.
MethodOnly(row, t) == [row EXCEPT !.paid = TRUE]

\* A payment method ends a lapse.
WithMethod(row, t) ==
    IF row.status \in {"GRACE", "SUSPENDED"}
    THEN [row EXCEPT !.paid = TRUE, !.status = "ACTIVE", !.graceEnds = Never,
                     !.periodEnd = t + Period]
    ELSE [row EXCEPT !.paid = TRUE]

AddPaymentMethod(s) ==
    /\ Doing(s, "loaded", "pay")
    /\ Current(s).status # "CANCELLED"
    /\ Save(s, WithMethod(Current(s), txn[s].at))
    /\ UNCHANGED requests

Cancelled(row) ==
    [row EXCEPT !.cancelAtEnd = TRUE,
                !.status = IF row.periodEnd = Never /\ row.trialEnds = Never
                           THEN "CANCELLED" ELSE @]

Cancel(s) ==
    /\ Doing(s, "loaded", "cancel")
    /\ Current(s).status # "CANCELLED"
    /\ Save(s, Cancelled(Current(s)))
    /\ UNCHANGED requests

Resumed(row, t) ==
    IF row.status = "CANCELLED"
    THEN [row EXCEPT !.cancelAtEnd = FALSE, !.status = "ACTIVE",
                     !.periodEnd = t + Period]
    ELSE [row EXCEPT !.cancelAtEnd = FALSE]

Resume(s) ==
    /\ Doing(s, "loaded", "resume")
    /\ txn[s].read.cancelAtEnd \/ txn[s].read.status = "CANCELLED"
    /\ Save(s, Resumed(txn[s].read, txn[s].at))
    /\ UNCHANGED requests

Approve(s) ==
    /\ Doing(s, "loaded", "approve")
    /\ requests' = [requests EXCEPT ![txn[s].request] = "APPROVED"]
    /\ Save(s, ApplyUpgrade(Current(s), "PRO", txn[s].at))

Reject(s) ==
    /\ Doing(s, "review", "reject")
    /\ requests' = [requests EXCEPT ![txn[s].request] = "REJECTED"]
    /\ txn' = [txn EXCEPT ![s] = Idle]
    /\ UNCHANGED <<sub, now>>

Assigned(row, plan, t) ==
    IF plan = "BASIC"
    THEN [ApplyPlanNow(row, "BASIC") EXCEPT
             !.status = "ACTIVE", !.trialEnds = Never, !.graceEnds = Never,
             !.cancelAtEnd = FALSE, !.periodEnd = Never]
    ELSE IF row.plan # "PRO" \/ row.status \notin {"TRIALING", "ACTIVE", "GRACE"}
         THEN ApplyUpgrade(row, "PRO", t)
         ELSE row

\* Mutant: assigning a plan leaves the waiting request alone.
AssignOnly(s) ==
    /\ Doing(s, "looked", "assign")
    /\ Save(s, Assigned(Current(s), txn[s].plan, txn[s].at))
    /\ UNCHANGED requests

\* admin_assign_plan settles the request it found with the plan.
AdminAssign(s) ==
    /\ Doing(s, "looked", "assign")
    /\ requests' = IF txn[s].request = NoRequest THEN requests
                   ELSE [requests EXCEPT ![txn[s].request] =
                           IF txn[s].plan = "PRO" THEN "APPROVED" ELSE "REJECTED"]
    /\ Save(s, Assigned(Current(s), txn[s].plan, txn[s].at))

\* A ConflictError, a unique violation or a lost connection.
Rollback(s) ==
    /\ txn[s].phase # "idle"
    /\ txn' = [txn EXCEPT ![s] = Idle]
    /\ UNCHANGED <<sub, requests, now>>

Tick ==
    /\ now < MaxTime
    /\ \A s \in Sessions : txn[s].phase # "idle" => txn[s].at = now
    /\ now' = now + 1
    /\ UNCHANGED <<sub, requests, txn>>

SessionStep(s) ==
    \/ Begin(s) \/ FindRequest(s) \/ LoadForApproval(s) \/ LookForPending(s)
    \/ GetState(s) \/ KeepPlan(s)
    \/ RequestUpgrade(s) \/ ScheduleDowngrade(s) \/ AddPaymentMethod(s)
    \/ Cancel(s) \/ Resume(s) \/ Approve(s) \/ Reject(s) \/ AdminAssign(s)
    \/ Rollback(s)

Next == Tick \/ \E s \in Sessions : SessionStep(s)

Spec == Init /\ [][Next]_vars

-----------------------------------------------------------------------------
(* Properties. *)

\* Every variable has its type.
TypeOK ==
    /\ sub \in Row
    /\ requests \in [RequestIds -> RequestStatus]
    /\ txn \in [Sessions -> Txn]
    /\ now \in Nat

\* No venue stays on trial, in grace or on paid Pro for ever: each of these
\* states carries the deadline _advance will end it by.
EveryTermEnds ==
    /\ sub.status = "TRIALING" => sub.trialEnds # Never
    /\ sub.status = "GRACE" => sub.graceEnds # Never
    /\ sub.status = "ACTIVE" /\ sub.plan = "PRO" => sub.periodEnd # Never

\* add_payment_method: "A saved method resolves a lapsed state immediately".
\* A venue with a payment method is neither in grace nor suspended.
PaidStaysOn == sub.paid => sub.status \notin {"GRACE", "SUSPENDED"}

\* A venue that waits for Pro does not have it yet, so approving the request
\* can only start the trial, never cut a running one short.
WaitingMeansBasic ==
    (\E q \in RequestIds : requests[q] = "PENDING") => sub.plan = "BASIC"

AssignsBasic(s) == Doing(s, "looked", "assign") /\ txn[s].plan = "BASIC"

\* "Nobody loses a feature mid-cycle": Pro is not taken away before the trial
\* or the period ends, unless the platform assigns Basic.
NoLossMidCycle ==
    [][(/\ Effective(sub) = "PRO" /\ Effective(sub') = "BASIC"
        /\ \E deadline \in {sub.trialEnds, sub.periodEnd} \ {Never} : deadline > now)
          => \E s \in Sessions : AssignsBasic(s)]_vars

\* "First taste of Pro is a trial, not a charge": the Pro trial runs to its end
\* (unless the platform assigns Basic) and is not granted a second time.
ProTrialOnceAndWhole ==
    [][/\ (/\ sub.plan = "PRO" /\ sub.status = "TRIALING" /\ sub.trialEnds > now
           /\ sub'.status # "TRIALING")
             => \E s \in Sessions : AssignsBasic(s)
       /\ (/\ sub.proTrialUsed
           /\ sub'.plan = "PRO" /\ sub'.status = "TRIALING")
             => sub'.trialEnds = sub.trialEnds]_vars

\* Once a venue has had Pro, or a request was approved, the free trial is spent,
\* whoever else saves an older copy of the row.
ApprovalSpendsTrial ==
    sub.plan = "PRO" \/ (\E q \in RequestIds : requests[q] = "APPROVED")
      => sub.proTrialUsed
=============================================================================
