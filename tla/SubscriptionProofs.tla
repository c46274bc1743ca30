------------------------- MODULE SubscriptionProofs -------------------------
(***************************************************************************)
(* Theorems about Subscription.                                            *)
(*                                                                         *)
(* The free Pro trial stays spent, for any number of sessions, requests    *)
(* and days.  No row is locked, so the argument is about stale copies: a   *)
(* copy never claims a spent trial that the stored row does not, every     *)
(* operation that grants Pro marks the trial, and a save writes the mark   *)
(* when it is new and leaves the stored one alone otherwise.               *)
(*                                                                         *)
(* With one session a copy is the row, and what the operations make of a   *)
(* row is all there is to say: terms end, a payment ends a lapse, Pro is   *)
(* not lost before its time and its trial is whole.                        *)
(***************************************************************************)
EXTENDS Subscription, TLAPS

\* A row that has Pro has spent the trial, and Pro is never scheduled: the one
\* way to it is an upgrade.
Good(row) ==
    /\ row \in Row
    /\ row.plan = "PRO" => row.proTrialUsed
    /\ row.scheduled # "PRO"

\* The new row is good and does not forget a spent trial.
Follows(old, new) == Good(new) /\ (old.proTrialUsed => new.proTrialUsed)

\* The inductive invariant.
TrialInv ==
    /\ TypeOK
    /\ Good(sub)
    /\ \A s \in Sessions : Follows(txn[s].read, txn[s].read)
                           /\ (txn[s].read.proTrialUsed => sub.proTrialUsed)
    /\ (\E q \in RequestIds : requests[q] = "APPROVED") => sub.proTrialUsed

-----------------------------------------------------------------------------
(* What the operations make of a good row. *)

\* Deadlines computed from a date are deadlines.
LEMMA Deadlines ==
    ASSUME NEW t \in Nat
    PROVE  /\ t + Period \in Deadline /\ t + Grace \in Deadline
           /\ t + TrialDays["PRO"] \in Deadline /\ TrialDays["BASIC"] \in Deadline
           /\ Never \in Deadline
  BY PlanAssumption DEF Deadline, Plans

\* The end of a trial changes neither the plan nor the mark.
LEMMA EndTrialFollows ==
    ASSUME NEW row, Good(row), NEW t \in Nat
    PROVE  Follows(row, EndTrial(row, t))
<1>1. row \in Row
  BY DEF Good
<1>2. Follows(row, [row EXCEPT !.trialEnds = Never, !.status = "CANCELLED"])
  BY <1>1, Deadlines DEF Follows, Good, Row, Status
<1>3. Follows(row, [row EXCEPT !.trialEnds = Never, !.status = "ACTIVE",
                               !.periodEnd = t + Period])
  BY <1>1, Deadlines DEF Follows, Good, Row, Status
<1>4. Follows(row, [row EXCEPT !.trialEnds = Never, !.status = "GRACE",
                               !.graceEnds = t + Grace])
  BY <1>1, Deadlines DEF Follows, Good, Row, Status
<1>5. Follows(row, row)
  BY DEF Follows
<1> QED
  BY <1>2, <1>3, <1>4, <1>5 DEF EndTrial

\* A scheduled plan is a downgrade.
LEMMA ApplyScheduledFollows ==
    ASSUME NEW row, Good(row)
    PROVE  Follows(row, ApplyScheduled(row))
<1>1. CASE row.scheduled = NoPlan
  BY <1>1 DEF ApplyScheduled, Follows
<1>2. CASE row.scheduled = "BASIC"
  <2>1. ApplyScheduled(row) = [row EXCEPT !.plan = "BASIC", !.scheduled = NoPlan]
    BY <1>2 DEF ApplyScheduled, ApplyPlanNow, NoPlan
  <2> QED
    BY <2>1 DEF Follows, Good, Row, Plans, NoPlan
<1> QED
  BY <1>1, <1>2 DEF Good, Row, Plans

\* The end of a period applies a scheduled downgrade at most.
LEMMA EndPeriodFollows ==
    ASSUME NEW row, Good(row), NEW t \in Nat
    PROVE  Follows(row, EndPeriod(row, t))
<1> DEFINE new == ApplyScheduled(row)
<1>1. Follows(row, new)
  BY ApplyScheduledFollows
<1> HIDE DEF new
<1>2. Follows(row, [new EXCEPT !.status = "CANCELLED", !.periodEnd = Never])
  BY <1>1, Deadlines DEF Follows, Good, Row, Status
<1>3. Follows(row, [new EXCEPT !.periodEnd = t + Period])
  BY <1>1, Deadlines DEF Follows, Good, Row
<1>4. Follows(row, [new EXCEPT !.status = "GRACE", !.graceEnds = t + Grace])
  BY <1>1, Deadlines DEF Follows, Good, Row, Status
<1>5. Follows(row, row)
  BY DEF Follows
<1> QED
  BY <1>2, <1>3, <1>4, <1>5 DEF EndPeriod, new

\* The end of grace suspends and changes nothing else.
LEMMA EndGraceFollows ==
    ASSUME NEW row, Good(row), NEW t \in Nat
    PROVE  Follows(row, EndGrace(row, t))
<1>1. Follows(row, [row EXCEPT !.status = "SUSPENDED", !.graceEnds = Never])
  BY Deadlines DEF Follows, Good, Row, Status
<1> QED
  BY <1>1 DEF EndGrace, Follows

\* _advance never forgets a spent trial and never grants Pro.
LEMMA AdvanceFollows ==
    ASSUME NEW row, Good(row), NEW t \in Nat
    PROVE  Follows(row, Advance(row, t))
<1> DEFINE one == EndTrial(row, t)
           two == EndPeriod(one, t)
<1>1. Follows(row, one)
  BY EndTrialFollows
<1>2. Follows(one, two)
  BY <1>1, EndPeriodFollows DEF Follows
<1>3. Follows(two, EndGrace(two, t))
  BY <1>2, EndGraceFollows DEF Follows
<1> QED
  BY <1>1, <1>2, <1>3 DEF Follows, Advance

\* An upgrade marks the trial.
LEMMA UpgradeFollows ==
    ASSUME NEW row, Good(row), NEW t \in Nat
    PROVE  /\ Follows(row, ApplyUpgrade(row, "PRO", t))
           /\ ApplyUpgrade(row, "PRO", t).proTrialUsed
<1> DEFINE upgraded == [row EXCEPT !.plan = "PRO", !.scheduled = NoPlan,
                                   !.graceEnds = Never]
<1>1. /\ upgraded \in Row
      /\ upgraded.proTrialUsed = row.proTrialUsed
      /\ upgraded.scheduled = NoPlan
  BY Deadlines DEF Good, Row, Plans
<1> HIDE DEF upgraded
<1>2. CASE ~row.proTrialUsed
  <2>1. ApplyUpgrade(row, "PRO", t) =
          [upgraded EXCEPT !.proTrialUsed = TRUE, !.status = "TRIALING",
                           !.trialEnds = t + TrialDays["PRO"],
                           !.periodEnd = Never]
    BY <1>2 DEF ApplyUpgrade, upgraded
  <2> QED
    BY <1>1, <2>1, Deadlines DEF Follows, Good, Row, Status, NoPlan
<1>3. CASE row.proTrialUsed
  <2>1. ApplyUpgrade(row, "PRO", t) =
          [upgraded EXCEPT !.status = "ACTIVE", !.trialEnds = Never,
                           !.periodEnd = t + Period]
    BY <1>3 DEF ApplyUpgrade, upgraded
  <2> QED
    BY <1>1, <1>3, <2>1, Deadlines DEF Follows, Good, Row, Status, NoPlan
<1> QED
  BY <1>2, <1>3

\* Assigning Pro marks the trial or finds it marked.
LEMMA AssignedFollows ==
    ASSUME NEW row, Good(row), NEW plan \in Plans, NEW t \in Nat
    PROVE  /\ Follows(row, Assigned(row, plan, t))
           /\ plan = "PRO" => Assigned(row, plan, t).proTrialUsed
<1>1. CASE plan = "BASIC"
  <2> DEFINE basic == [row EXCEPT !.plan = "BASIC", !.scheduled = NoPlan]
  <2>1. Follows(row, basic)
    BY DEF Follows, Good, Row, Plans, NoPlan
  <2>2. Assigned(row, plan, t) =
          [basic EXCEPT !.status = "ACTIVE", !.trialEnds = Never,
                        !.graceEnds = Never, !.cancelAtEnd = FALSE,
                        !.periodEnd = Never]
    BY <1>1 DEF Assigned, ApplyPlanNow
  <2> HIDE DEF basic
  <2>3. Follows(row, Assigned(row, plan, t))
    BY <2>1, <2>2, Deadlines DEF Follows, Good, Row, Status
  <2> QED
    BY <1>1, <2>3
<1>2. CASE plan = "PRO"
  <2>1. CASE row.plan # "PRO" \/ row.status \notin {"TRIALING", "ACTIVE", "GRACE"}
    BY <1>2, <2>1, UpgradeFollows DEF Assigned
  <2>2. CASE ~(row.plan # "PRO" \/ row.status \notin {"TRIALING", "ACTIVE", "GRACE"})
    BY <1>2, <2>2 DEF Assigned, Follows, Good
  <2> QED
    BY <2>1, <2>2
<1> QED
  BY <1>1, <1>2 DEF Plans

\* What an owner can do to the row at once never grants Pro and never forgets.
LEMMA OwnerFollows ==
    ASSUME NEW row, Good(row), NEW t \in Nat
    PROVE  /\ Follows(row, [row EXCEPT !.scheduled = NoPlan])
           /\ Follows(row, Downgraded(row))
           /\ Follows(row, WithMethod(row, t))
           /\ Follows(row, Cancelled(row))
           /\ Follows(row, Resumed(row, t))
<1>1. Follows(row, [row EXCEPT !.scheduled = NoPlan])
  BY DEF Follows, Good, Row, NoPlan
<1>2. Follows(row, Downgraded(row))
  <2>1. Follows(row, [row EXCEPT !.plan = "BASIC", !.scheduled = NoPlan])
    BY DEF Follows, Good, Row, Plans, NoPlan
  <2>2. Follows(row, [row EXCEPT !.scheduled = "BASIC"])
    BY DEF Follows, Good, Row, Plans
  <2> QED
    BY <2>1, <2>2 DEF Downgraded, ApplyPlanNow
<1>3. Follows(row, WithMethod(row, t))
  <2>1. Follows(row, [row EXCEPT !.paid = TRUE, !.status = "ACTIVE",
                                 !.graceEnds = Never, !.periodEnd = t + Period])
    BY Deadlines DEF Follows, Good, Row, Status
  <2>2. Follows(row, [row EXCEPT !.paid = TRUE])
    BY DEF Follows, Good, Row
  <2> QED
    BY <2>1, <2>2 DEF WithMethod
<1>4. Follows(row, Cancelled(row))
  <2>1. Follows(row, [row EXCEPT !.cancelAtEnd = TRUE, !.status = "CANCELLED"])
    BY DEF Follows, Good, Row, Status
  <2>2. Follows(row, [row EXCEPT !.cancelAtEnd = TRUE, !.status = @])
    BY DEF Follows, Good, Row, Status
  <2> QED
    BY <2>1, <2>2 DEF Cancelled
<1>5. Follows(row, Resumed(row, t))
  <2>1. Follows(row, [row EXCEPT !.cancelAtEnd = FALSE, !.status = "ACTIVE",
                                 !.periodEnd = t + Period])
    BY Deadlines DEF Follows, Good, Row, Status
  <2>2. Follows(row, [row EXCEPT !.cancelAtEnd = FALSE])
    BY DEF Follows, Good, Row
  <2> QED
    BY <2>1, <2>2 DEF Resumed
<1> QED
  BY <1>1, <1>2, <1>3, <1>4, <1>5
-----------------------------------------------------------------------------
(* Loads and saves. *)

\* An idle session holds the row of a fresh venue, which claims nothing.
LEMMA IdleIsSound == Idle \in Txn /\ Follows(Idle.read, Idle.read) /\ ~Idle.read.proTrialUsed
<1>1. Good(FirstRow) /\ ~FirstRow.proTrialUsed
  BY Deadlines DEF FirstRow, Good, Row, Plans, Status, NoPlan
<1> QED
  BY <1>1 DEF Idle, Txn, Phase, Operation, Plans, Follows, Good

\* What a save leaves in the table: a good row that forgets no mark, neither the
\* stored one nor the one saved.
LEMMA MergedFollows ==
    ASSUME NEW stored, NEW read, NEW row,
           Good(stored), Good(read), Follows(read, row),
           read.proTrialUsed => stored.proTrialUsed
    PROVE  /\ Follows(stored, Merged(stored, read, row))
           /\ row.proTrialUsed => Merged(stored, read, row).proTrialUsed
<1> DEFINE new == Merged(stored, read, row)
<1>1. stored \in Row /\ read \in Row /\ row \in Row
  BY DEF Good, Follows
<1>2. new \in Row
  BY <1>1 DEF Merged, Row
<1>3. /\ new.plan = IF row.plan # read.plan THEN row.plan ELSE stored.plan
      /\ new.scheduled = IF row.scheduled # read.scheduled
                         THEN row.scheduled ELSE stored.scheduled
      /\ new.proTrialUsed = IF row.proTrialUsed # read.proTrialUsed
                            THEN row.proTrialUsed ELSE stored.proTrialUsed
  BY <1>1 DEF Merged, Row
<1> HIDE DEF new
<1>4. /\ stored.proTrialUsed \in BOOLEAN /\ read.proTrialUsed \in BOOLEAN
      /\ row.proTrialUsed \in BOOLEAN
  BY <1>1 DEF Row
<1>5. (stored.proTrialUsed \/ row.proTrialUsed) => new.proTrialUsed
  <2>1. CASE row.proTrialUsed = read.proTrialUsed
    BY <1>3, <2>1
  <2>2. CASE row.proTrialUsed # read.proTrialUsed
    <3>1. row.proTrialUsed = TRUE
      BY <1>4, <2>2, Zenon DEF Follows
    <3> QED
      BY <1>3, <2>2, <3>1
  <2> QED
    BY <2>1, <2>2
<1>6. new.plan = "PRO" => new.proTrialUsed
  BY <1>3, <1>5 DEF Follows, Good
<1>7. new.scheduled # "PRO"
  BY <1>3 DEF Follows, Good
<1> QED
  BY <1>2, <1>5, <1>6, <1>7 DEF Follows, Good, new

\* A save keeps the invariant when it approves requests only with a marked row.
LEMMA SaveKeeps ==
    ASSUME TrialInv, NEW s \in Sessions, NEW row,
           Follows(txn[s].read, row), Save(s, row),
           requests' \in [RequestIds -> RequestStatus],
           \A q \in RequestIds : requests'[q] = "APPROVED"
              => requests[q] = "APPROVED" \/ row.proTrialUsed
    PROVE  TrialInv'
<1>1. /\ Follows(sub, sub')
      /\ row.proTrialUsed => sub'.proTrialUsed
  BY MergedFollows DEF TrialInv, Save, Follows
<1>2. txn' = [txn EXCEPT ![s] = Idle] /\ now' = now
  BY DEF Save
<1>3. TypeOK'
  BY <1>1, <1>2, IdleIsSound DEF TrialInv, TypeOK, Follows, Good
<1>4. ASSUME NEW u \in Sessions
      PROVE  /\ Follows(txn'[u].read, txn'[u].read)
             /\ txn'[u].read.proTrialUsed => sub'.proTrialUsed
  <2>1. txn'[u] = IF u = s THEN Idle ELSE txn[u]
    BY <1>2 DEF TrialInv, TypeOK
  <2> QED
    BY <1>1, <2>1, IdleIsSound DEF TrialInv, Follows
<1>5. (\E q \in RequestIds : requests'[q] = "APPROVED") => sub'.proTrialUsed
  BY <1>1 DEF TrialInv, Follows
<1> QED
  BY <1>1, <1>3, <1>4, <1>5 DEF TrialInv, Follows, Good

\* A step that only changes what a session has read keeps it when the copy is
\* the stored row, the old copy or none.
LEMMA ReadKeeps ==
    ASSUME TrialInv, NEW s \in Sessions, NEW new \in Txn,
           txn' = [txn EXCEPT ![s] = new],
           new.read \in {sub, txn[s].read, Idle.read},
           UNCHANGED <<sub, requests, now>>
    PROVE  TrialInv'
<1>1. TypeOK'
  BY DEF TrialInv, TypeOK
<1>2. ASSUME NEW u \in Sessions
      PROVE  /\ Follows(txn'[u].read, txn'[u].read)
             /\ txn'[u].read.proTrialUsed => sub.proTrialUsed
  <2>1. txn'[u] = IF u = s THEN new ELSE txn[u]
    BY DEF TrialInv, TypeOK
  <2> QED
    BY <2>1, IdleIsSound DEF TrialInv, Follows
<1> QED
  BY <1>1, <1>2 DEF TrialInv, Good

-----------------------------------------------------------------------------
(* The invariant is inductive. *)

\* A fresh venue satisfies the invariant.
LEMMA InitTrial == Init => TrialInv
<1> SUFFICES ASSUME Init PROVE TrialInv
  OBVIOUS
<1>1. Good(FirstRow)
  BY IdleIsSound DEF Idle, Follows
<1>2. TypeOK
  BY <1>1, IdleIsSound DEF Init, TypeOK, Good, RequestStatus
<1> QED
  BY <1>1, <1>2, IdleIsSound DEF Init, TrialInv

\* Every step of every session keeps the invariant.
LEMMA StepTrial == TrialInv /\ [Next]_vars => TrialInv'
<1> SUFFICES ASSUME TrialInv, [Next]_vars PROVE TrialInv'
  OBVIOUS
<1> USE DEF TrialInv
<1>1. ASSUME NEW s \in Sessions, SessionStep(s) PROVE TrialInv'
  <2> DEFINE t == txn[s]
  <2>1. t \in Txn /\ sub \in Row /\ now \in Nat
        /\ requests \in [RequestIds -> RequestStatus]
    BY DEF TypeOK
  <2>2. /\ t.op \in Operation /\ t.plan \in Plans /\ t.at \in Nat
        /\ t.read \in Row /\ t.request \in RequestIds \cup {NoRequest}
    BY <2>1 DEF Txn
  <2>3. Good(t.read)
    BY DEF Follows
  <2>4. Follows(t.read, Current(s))
    BY <2>2, <2>3, AdvanceFollows DEF Current
  <2>5. ASSUME NEW row, Follows(Current(s), row)
        PROVE  Follows(t.read, row)
    BY <2>4, <2>5 DEF Follows
  <2>6. Good(Current(s))
    BY <2>4 DEF Follows
  <2> HIDE DEF t
  <2>7. CASE Begin(s)
    <3>1. PICK op \in Operations \ {"approve", "reject"}, plan \in Plans :
             Load(s, op, plan, NoRequest)
      BY <2>7 DEF Begin
    <3> DEFINE new == [phase |-> "loaded", op |-> op, plan |-> plan,
                       read |-> sub, at |-> now, request |-> NoRequest]
    <3>2. new \in Txn
      BY <2>1, OperationAssumption DEF Txn, Phase
    <3>3. txn' = [txn EXCEPT ![s] = new] /\ UNCHANGED <<sub, requests, now>>
      BY <2>7, <3>1 DEF Begin, Load
    <3> QED
      BY <3>2, <3>3, ReadKeeps
  <2>8. CASE FindRequest(s)
    <3>1. PICK op \in Operations \cap {"approve", "reject"}, q \in RequestIds :
             txn' = [txn EXCEPT ![s] = [Idle EXCEPT !.phase = "review", !.op = op,
                                                     !.at = now, !.request = q]]
      BY <2>8 DEF FindRequest
    <3> DEFINE new == [Idle EXCEPT !.phase = "review", !.op = op,
                                   !.at = now, !.request = q]
    <3>2. new \in Txn /\ new.read = Idle.read
      BY <2>1, IdleIsSound DEF Txn, Phase, Operation
    <3> QED
      BY <2>8, <3>1, <3>2, ReadKeeps DEF FindRequest
  <2>9. CASE LoadForApproval(s)
    <3> DEFINE new == [phase |-> "loaded", op |-> "approve", plan |-> "PRO",
                       read |-> sub, at |-> now, request |-> txn[s].request]
    <3>1. new \in Txn
      BY <2>1, <2>2 DEF Txn, Phase, Operation, Plans, t
    <3>2. txn' = [txn EXCEPT ![s] = new] /\ UNCHANGED <<sub, requests, now>>
      BY <2>9 DEF LoadForApproval, Load
    <3> QED
      BY <3>1, <3>2, ReadKeeps
  <2>10. CASE LookForPending(s)
    <3>1. PICK q \in RequestIds \cup {NoRequest} :
             txn' = [txn EXCEPT ![s] = [t EXCEPT !.phase = "looked", !.request = q]]
      <4>1. [t EXCEPT !.phase = "looked"] =
               [t EXCEPT !.phase = "looked", !.request = t.request]
        BY <2>1 DEF Txn
      <4> QED
        BY <2>2, <2>10, <4>1 DEF LookForPending, t
    <3> DEFINE new == [t EXCEPT !.phase = "looked", !.request = q]
    <3>2. new \in Txn /\ new.read = t.read
      BY <2>1 DEF Txn, Phase
    <3> QED
      BY <2>10, <3>1, <3>2, ReadKeeps DEF LookForPending, t
  <2>11. CASE GetState(s)
    BY <2>1, <2>4, <2>11, SaveKeeps DEF GetState, t
  <2>12. CASE KeepPlan(s)
    BY <2>1, <2>2, <2>5, <2>6, <2>12, OwnerFollows, SaveKeeps DEF KeepPlan, t
  <2>13. CASE RequestUpgrade(s)
    <3>1. PICK q \in RequestIds : requests' = [requests EXCEPT ![q] = "PENDING"]
      BY <2>13 DEF RequestUpgrade
    <3>2. /\ requests' \in [RequestIds -> RequestStatus]
          /\ \A r \in RequestIds : requests'[r] = "APPROVED" => requests[r] = "APPROVED"
      BY <2>1, <3>1 DEF RequestStatus
    <3> QED
      BY <2>4, <2>13, <3>2, SaveKeeps DEF RequestUpgrade, t
  <2>14. CASE ScheduleDowngrade(s)
    BY <2>1, <2>2, <2>5, <2>6, <2>14, OwnerFollows, SaveKeeps DEF ScheduleDowngrade, t
  <2>15. CASE AddPaymentMethod(s)
    BY <2>1, <2>2, <2>5, <2>6, <2>15, OwnerFollows, SaveKeeps DEF AddPaymentMethod, t
  <2>16. CASE Cancel(s)
    BY <2>1, <2>2, <2>5, <2>6, <2>16, OwnerFollows, SaveKeeps DEF Cancel, t
  <2>17. CASE Resume(s)
    BY <2>1, <2>2, <2>3, <2>17, OwnerFollows, SaveKeeps DEF Resume, t
  <2>18. CASE Approve(s)
    <3> DEFINE row == ApplyUpgrade(Current(s), "PRO", t.at)
    <3>1. Follows(t.read, row) /\ row.proTrialUsed
      BY <2>2, <2>5, <2>6, UpgradeFollows
    <3>2. requests' \in [RequestIds -> RequestStatus]
      BY <2>1, <2>18 DEF Approve, RequestStatus
    <3> QED
      BY <2>18, <3>1, <3>2, SaveKeeps DEF Approve, t
  <2>19. CASE Reject(s)
    <3>1. requests' = [requests EXCEPT ![txn[s].request] = "REJECTED"]
          /\ txn' = [txn EXCEPT ![s] = Idle] /\ UNCHANGED <<sub, now>>
      BY <2>19 DEF Reject
    <3>2. /\ requests' \in [RequestIds -> RequestStatus]
          /\ \A q \in RequestIds : requests'[q] = "APPROVED" => requests[q] = "APPROVED"
      BY <2>1, <3>1 DEF RequestStatus
    <3>3. TypeOK'
      BY <3>1, <3>2, IdleIsSound DEF TypeOK
    <3>4. ASSUME NEW u \in Sessions
          PROVE  /\ Follows(txn'[u].read, txn'[u].read)
                 /\ txn'[u].read.proTrialUsed => sub.proTrialUsed
      <4>1. txn'[u] = IF u = s THEN Idle ELSE txn[u]
        BY <3>1 DEF TypeOK
      <4> QED
        BY <4>1, IdleIsSound
    <3> QED
      BY <3>1, <3>2, <3>3, <3>4 DEF Good
  <2>20. CASE AdminAssign(s)
    <3> DEFINE row == Assigned(Current(s), t.plan, t.at)
    <3>1. Follows(t.read, row) /\ (t.plan = "PRO" => row.proTrialUsed)
      BY <2>2, <2>5, <2>6, AssignedFollows
    <3>2. requests' = IF t.request = NoRequest THEN requests
                      ELSE [requests EXCEPT ![t.request] =
                              IF t.plan = "PRO" THEN "APPROVED" ELSE "REJECTED"]
      BY <2>20 DEF AdminAssign, t
    <3>3. /\ requests' \in [RequestIds -> RequestStatus]
          /\ \A q \in RequestIds : requests'[q] = "APPROVED"
                => requests[q] = "APPROVED" \/ t.plan = "PRO"
      BY <2>1, <3>2 DEF RequestStatus
    <3> HIDE DEF row
    <3>4. Save(s, row)
      BY <2>20 DEF AdminAssign, row, t
    <3> QED
      BY <3>1, <3>3, <3>4, SaveKeeps DEF t
  <2>21. CASE Rollback(s)
    BY <2>21, IdleIsSound, ReadKeeps DEF Rollback
  <2> QED
    BY <1>1, <2>7, <2>8, <2>9, <2>10, <2>11, <2>12, <2>13, <2>14, <2>15, <2>16,
       <2>17, <2>18, <2>19, <2>20, <2>21 DEF SessionStep
<1>2. CASE Tick
  BY <1>2 DEF Tick, TypeOK, Good
<1>3. CASE UNCHANGED vars
  BY <1>3 DEF vars, TypeOK, Good
<1> QED
  BY <1>1, <1>2, <1>3 DEF Next

-----------------------------------------------------------------------------

\* Every reachable state is well typed: a save that mixes the columns of two
\* copies still leaves a row.
THEOREM TypeCorrect == Spec => []TypeOK
<1>1. TrialInv => TypeOK
  BY DEF TrialInv
<1> QED
  BY <1>1, InitTrial, StepTrial, PTL DEF Spec

\* Once a venue has had Pro or an approval the free trial is spent, however many
\* sessions save old copies of its row.
THEOREM TrialSpent == Spec => []ApprovalSpendsTrial
<1>1. TrialInv => ApprovalSpendsTrial
  BY DEF TrialInv, Good, ApprovalSpendsTrial
<1> QED
  BY <1>1, InitTrial, StepTrial, PTL DEF Spec

-----------------------------------------------------------------------------
(* Operations that do not overlap: one session. *)

Alone == \A s, u \in Sessions : s = u

\* A row of today carries the deadline that ends its state and no other, and a
\* venue that pays has not lapsed.
SoundAt(row, n) ==
    /\ row.status = "TRIALING" => row.trialEnds # Never /\ row.periodEnd = Never
    /\ row.status # "TRIALING" => row.trialEnds = Never
    /\ row.status = "GRACE" =>
          row.graceEnds # Never /\ (row.periodEnd = Never \/ row.periodEnd <= n)
    /\ row.status = "ACTIVE" /\ row.plan = "PRO" => row.periodEnd # Never
    /\ row.paid => row.status \notin {"GRACE", "SUSPENDED"}

\* A copy of today is a good row that is sound, and grants no Pro.
Succeeds(old, new, n) ==
    /\ Good(new) /\ SoundAt(new, n)
    /\ old.plan = "BASIC" => new.plan = "BASIC"

\* A sound row stays sound as time passes.
LEMMA SoundLater ==
    ASSUME NEW row, Good(row), NEW n \in Nat, NEW m \in Nat, n <= m, SoundAt(row, n)
    PROVE  SoundAt(row, m)
<1>1. row.periodEnd \in Nat \/ row.periodEnd = Never
  BY DEF Good, Row, Deadline
<1>. QED
  BY <1>1 DEF SoundAt

\* The end of a trial sets the next deadline.
LEMMA EndTrialSucceeds ==
    ASSUME NEW row, Good(row), NEW n \in Nat, SoundAt(row, n), NEW t \in Nat
    PROVE  Succeeds(row, EndTrial(row, t), n)
<1>1. row \in Row
  BY DEF Good
<1>2. t + Period # Never /\ t + Grace # Never
  BY PlanAssumption
<1>3. Good(EndTrial(row, t))
  BY EndTrialFollows DEF Follows
<1>4. CASE ~(row.status = "TRIALING" /\ Past(row.trialEnds, t))
  BY <1>4 DEF EndTrial, Succeeds
<1>5. CASE row.status = "TRIALING" /\ Past(row.trialEnds, t) /\ row.cancelAtEnd
  <2>1. EndTrial(row, t) = [row EXCEPT !.trialEnds = Never, !.status = "CANCELLED"]
    BY <1>5 DEF EndTrial
  <2>. QED
    BY <1>1, <1>3, <2>1 DEF Succeeds, SoundAt, Row
<1>6. CASE row.status = "TRIALING" /\ Past(row.trialEnds, t) /\ ~row.cancelAtEnd
           /\ row.paid
  <2>1. EndTrial(row, t) = [row EXCEPT !.trialEnds = Never, !.status = "ACTIVE",
                                       !.periodEnd = t + Period]
    BY <1>6 DEF EndTrial
  <2>. QED
    BY <1>1, <1>2, <1>3, <2>1 DEF Succeeds, SoundAt, Row
<1>7. CASE row.status = "TRIALING" /\ Past(row.trialEnds, t) /\ ~row.cancelAtEnd
           /\ ~row.paid
  <2>1. EndTrial(row, t) = [row EXCEPT !.trialEnds = Never, !.status = "GRACE",
                                       !.graceEnds = t + Grace]
    BY <1>7 DEF EndTrial
  <2>. QED
    BY <1>1, <1>2, <1>3, <1>7, <2>1 DEF Succeeds, SoundAt, Row
<1>. QED
  BY <1>4, <1>5, <1>6, <1>7

\* A scheduled downgrade changes the plan alone.
LEMMA ScheduledSucceeds ==
    ASSUME NEW row, Good(row)
    PROVE  /\ Good(ApplyScheduled(row))
           /\ row.plan = "BASIC" => ApplyScheduled(row).plan = "BASIC"
           /\ \A f \in {"status", "trialEnds", "periodEnd", "graceEnds", "paid"} :
                 ApplyScheduled(row)[f] = row[f]
<1>1. Good(ApplyScheduled(row))
  BY ApplyScheduledFollows DEF Follows
<1>2. CASE row.scheduled = NoPlan
  BY <1>1, <1>2 DEF ApplyScheduled
<1>3. CASE row.scheduled = "BASIC"
  <2>1. ApplyScheduled(row) = [row EXCEPT !.plan = "BASIC", !.scheduled = NoPlan]
    BY <1>3 DEF ApplyScheduled, ApplyPlanNow, NoPlan
  <2>. QED
    BY <1>1, <2>1 DEF Good, Row
<1>. QED
  BY <1>2, <1>3 DEF Good, Row, Plans

\* The end of a period sets the next deadline.
LEMMA EndPeriodSucceeds ==
    ASSUME NEW row, Good(row), NEW n \in Nat, SoundAt(row, n), NEW t \in Nat, t <= n
    PROVE  Succeeds(row, EndPeriod(row, t), n)
<1> DEFINE new == ApplyScheduled(row)
<1>0. row.periodEnd \in Nat \/ row.periodEnd = Never
  BY DEF Good, Row, Deadline
<1>1. /\ new \in Row /\ (row.plan = "BASIC" => new.plan = "BASIC")
      /\ new.status = row.status /\ new.trialEnds = row.trialEnds
      /\ new.periodEnd = row.periodEnd /\ new.graceEnds = row.graceEnds
      /\ new.paid = row.paid
  BY ScheduledSucceeds DEF Good
<1>2. t + Period # Never /\ t + Grace # Never
  BY PlanAssumption
<1>3. Good(EndPeriod(row, t))
  BY EndPeriodFollows DEF Follows
<1> HIDE DEF new
<1>4. CASE ~(row.status = "ACTIVE" /\ Past(row.periodEnd, t))
  BY <1>4 DEF EndPeriod, Succeeds
<1>5. CASE row.status = "ACTIVE" /\ Past(row.periodEnd, t) /\ row.cancelAtEnd
  <2>1. EndPeriod(row, t) = [new EXCEPT !.status = "CANCELLED", !.periodEnd = Never]
    BY <1>5 DEF EndPeriod, new
  <2>. QED
    BY <1>1, <1>3, <1>5, <2>1 DEF Succeeds, SoundAt, Row
<1>6. CASE row.status = "ACTIVE" /\ Past(row.periodEnd, t) /\ ~row.cancelAtEnd
           /\ row.paid
  <2>1. EndPeriod(row, t) = [new EXCEPT !.periodEnd = t + Period]
    BY <1>6 DEF EndPeriod, new
  <2>. QED
    BY <1>1, <1>2, <1>3, <1>6, <2>1 DEF Succeeds, SoundAt, Row
<1>7. CASE row.status = "ACTIVE" /\ Past(row.periodEnd, t) /\ ~row.cancelAtEnd
           /\ ~row.paid
  <2>1. EndPeriod(row, t) = [new EXCEPT !.status = "GRACE", !.graceEnds = t + Grace]
    BY <1>7 DEF EndPeriod, new
  <2>2. row.periodEnd <= n
    BY <1>0, <1>7 DEF Past
  <2>. QED
    BY <1>1, <1>2, <1>3, <1>7, <2>1, <2>2 DEF Succeeds, SoundAt, Row
<1>. QED
  BY <1>4, <1>5, <1>6, <1>7

\* _advance leaves a sound row.
LEMMA AdvanceSucceeds ==
    ASSUME NEW row, Good(row), NEW n \in Nat, SoundAt(row, n), NEW t \in Nat, t <= n
    PROVE  Succeeds(row, Advance(row, t), n)
<1> DEFINE one == EndTrial(row, t)
           two == EndPeriod(one, t)
<1>1. Succeeds(row, one, n)
  BY EndTrialSucceeds
<1>2. Succeeds(one, two, n)
  BY <1>1, EndPeriodSucceeds DEF Succeeds
<1>3. Succeeds(two, EndGrace(two, t), n)
  <2> HIDE DEF two
  <2>1. Good(EndGrace(two, t))
    BY <1>2, EndGraceFollows DEF Follows, Succeeds
  <2>2. CASE two.status = "GRACE" /\ Past(two.graceEnds, t)
    <3>1. EndGrace(two, t) = [two EXCEPT !.status = "SUSPENDED", !.graceEnds = Never]
      BY <2>2 DEF EndGrace
    <3>. QED
      BY <1>2, <2>1, <2>2, <3>1 DEF Succeeds, SoundAt, Good, Row
  <2>3. CASE ~(two.status = "GRACE" /\ Past(two.graceEnds, t))
    BY <1>2, <2>3 DEF EndGrace, Succeeds
  <2>. QED
    BY <2>2, <2>3
<1>. QED
  BY <1>1, <1>2, <1>3 DEF Succeeds, Advance

\* A sound row of a venue with Pro and a deadline ahead is not moved.
LEMMA AheadRests ==
    ASSUME NEW row, Good(row), NEW n \in Nat, SoundAt(row, n), NEW t \in Nat, t <= n,
           Effective(row) = "PRO",
           NEW deadline \in {row.trialEnds, row.periodEnd} \ {Never}, deadline > n
    PROVE  Advance(row, t) = row /\ row.status \in {"TRIALING", "ACTIVE"}
<1>1. deadline \in Nat
  BY DEF Good, Row, Deadline
<1>2. row.status \in {"TRIALING", "ACTIVE"}
  BY <1>1 DEF SoundAt, Effective
<1>3. ~Past(deadline, t)
  BY <1>1 DEF Past
<1>4. EndTrial(row, t) = row
  BY <1>2, <1>3 DEF EndTrial, SoundAt
<1>5. EndPeriod(row, t) = row
  BY <1>2, <1>3 DEF EndPeriod, SoundAt
<1>. QED
  BY <1>2, <1>4, <1>5 DEF Advance, EndGrace

\* An upgrade leaves a sound row.
LEMMA UpgradeSound ==
    ASSUME NEW row, Good(row), NEW n \in Nat, NEW t \in Nat
    PROVE  SoundAt(ApplyUpgrade(row, "PRO", t), n)
<1>1. t + Period # Never /\ t + TrialDays["PRO"] # Never
  BY PlanAssumption DEF Plans
<1> DEFINE upgraded == [row EXCEPT !.plan = "PRO", !.scheduled = NoPlan,
                                   !.graceEnds = Never]
<1>2. upgraded \in Row
  BY Deadlines DEF Good, Row, Plans
<1> HIDE DEF upgraded
<1>3. CASE ~row.proTrialUsed
  <2>1. ApplyUpgrade(row, "PRO", t) =
          [upgraded EXCEPT !.proTrialUsed = TRUE, !.status = "TRIALING",
                           !.trialEnds = t + TrialDays["PRO"],
                           !.periodEnd = Never]
    BY <1>3 DEF ApplyUpgrade, upgraded
  <2>. QED
    BY <1>1, <1>2, <2>1 DEF SoundAt, Row
<1>4. CASE row.proTrialUsed
  <2>1. ApplyUpgrade(row, "PRO", t) =
          [upgraded EXCEPT !.status = "ACTIVE", !.trialEnds = Never,
                           !.periodEnd = t + Period]
    BY <1>4 DEF ApplyUpgrade, upgraded
  <2>. QED
    BY <1>1, <1>2, <2>1 DEF SoundAt, Row
<1>. QED
  BY <1>3, <1>4

\* Assigning a plan leaves a sound row, and Basic when Basic was assigned.
LEMMA AssignedSound ==
    ASSUME NEW row, Good(row), NEW n \in Nat, SoundAt(row, n), NEW plan \in Plans,
           NEW t \in Nat
    PROVE  /\ SoundAt(Assigned(row, plan, t), n)
           /\ plan = "BASIC" => Assigned(row, plan, t).plan = "BASIC"
<1>1. CASE plan = "BASIC"
  <2> DEFINE basic == [row EXCEPT !.plan = "BASIC", !.scheduled = NoPlan]
  <2>1. basic \in Row /\ basic.plan = "BASIC"
    BY DEF Good, Row, Plans
  <2>2. Assigned(row, plan, t) =
          [basic EXCEPT !.status = "ACTIVE", !.trialEnds = Never,
                        !.graceEnds = Never, !.cancelAtEnd = FALSE,
                        !.periodEnd = Never]
    BY <1>1 DEF Assigned, ApplyPlanNow
  <2> HIDE DEF basic
  <2>. QED
    BY <2>1, <2>2 DEF SoundAt, Row
<1>2. CASE plan = "PRO"
  BY <1>2, UpgradeSound DEF Assigned
<1>. QED
  BY <1>1, <1>2 DEF Plans

\* What an owner can do leaves a sound row and grants no Pro.
LEMMA OwnerSucceeds ==
    ASSUME NEW row, Good(row), NEW n \in Nat, SoundAt(row, n), NEW t \in Nat
    PROVE  /\ Succeeds(row, [row EXCEPT !.scheduled = NoPlan], n)
           /\ Succeeds(row, Downgraded(row), n)
           /\ Succeeds(row, WithMethod(row, t), n)
           /\ Succeeds(row, Cancelled(row), n)
           /\ Succeeds(row, Resumed(row, t), n)
<1>0. t + Period # Never /\ row \in Row
  BY PlanAssumption DEF Good
<1>1. Succeeds(row, [row EXCEPT !.scheduled = NoPlan], n)
  BY <1>0, OwnerFollows DEF Follows, Succeeds, SoundAt, Row
<1>2. Succeeds(row, Downgraded(row), n)
  <2>1. Good(Downgraded(row))
    BY OwnerFollows DEF Follows
  <2>2. CASE row.status = "SUSPENDED"
    <3>1. Downgraded(row) = [row EXCEPT !.plan = "BASIC", !.scheduled = NoPlan]
      BY <2>2 DEF Downgraded, ApplyPlanNow
    <3>. QED
      BY <1>0, <2>1, <3>1 DEF Succeeds, SoundAt, Row
  <2>3. CASE row.status # "SUSPENDED"
    <3>1. Downgraded(row) = [row EXCEPT !.scheduled = "BASIC"]
      BY <2>3 DEF Downgraded
    <3>. QED
      BY <1>0, <2>1, <3>1 DEF Succeeds, SoundAt, Row
  <2>. QED
    BY <2>2, <2>3
<1>3. Succeeds(row, WithMethod(row, t), n)
  <2>1. Good(WithMethod(row, t))
    BY OwnerFollows DEF Follows
  <2>2. CASE row.status \in {"GRACE", "SUSPENDED"}
    <3>1. WithMethod(row, t) = [row EXCEPT !.paid = TRUE, !.status = "ACTIVE",
                                           !.graceEnds = Never,
                                           !.periodEnd = t + Period]
      BY <2>2 DEF WithMethod
    <3>. QED
      BY <1>0, <2>1, <2>2, <3>1 DEF Succeeds, SoundAt, Row
  <2>3. CASE row.status \notin {"GRACE", "SUSPENDED"}
    <3>1. WithMethod(row, t) = [row EXCEPT !.paid = TRUE]
      BY <2>3 DEF WithMethod
    <3>. QED
      BY <1>0, <2>1, <2>3, <3>1 DEF Succeeds, SoundAt, Row
  <2>. QED
    BY <2>2, <2>3
<1>4. Succeeds(row, Cancelled(row), n)
  <2>1. Good(Cancelled(row))
    BY OwnerFollows DEF Follows
  <2>2. CASE row.periodEnd = Never /\ row.trialEnds = Never
    <3>1. Cancelled(row) = [row EXCEPT !.cancelAtEnd = TRUE, !.status = "CANCELLED"]
      BY <2>2 DEF Cancelled
    <3>. QED
      BY <1>0, <2>1, <2>2, <3>1 DEF Succeeds, SoundAt, Row
  <2>3. CASE ~(row.periodEnd = Never /\ row.trialEnds = Never)
    <3>1. Cancelled(row) = [row EXCEPT !.cancelAtEnd = TRUE, !.status = @]
      BY <2>3 DEF Cancelled
    <3>. QED
      BY <1>0, <2>1, <3>1 DEF Succeeds, SoundAt, Row
  <2>. QED
    BY <2>2, <2>3
<1>5. Succeeds(row, Resumed(row, t), n)
  <2>1. Good(Resumed(row, t))
    BY OwnerFollows DEF Follows
  <2>2. CASE row.status = "CANCELLED"
    <3>1. Resumed(row, t) = [row EXCEPT !.cancelAtEnd = FALSE, !.status = "ACTIVE",
                                        !.periodEnd = t + Period]
      BY <2>2 DEF Resumed
    <3>. QED
      BY <1>0, <2>1, <2>2, <3>1 DEF Succeeds, SoundAt, Row
  <2>3. CASE row.status # "CANCELLED"
    <3>1. Resumed(row, t) = [row EXCEPT !.cancelAtEnd = FALSE]
      BY <2>3 DEF Resumed
    <3>. QED
      BY <1>0, <2>1, <3>1 DEF Succeeds, SoundAt, Row
  <2>. QED
    BY <2>2, <2>3
<1>. QED
  BY <1>1, <1>2, <1>3, <1>4, <1>5

-----------------------------------------------------------------------------
(* The invariant of one session. *)

NonePending == \A q \in RequestIds : requests[q] # "PENDING"

\* What a session has read holds until it commits.
StillHolds(s) ==
    /\ txn[s].at <= now
    /\ txn[s].phase \in {"loaded", "looked"} => txn[s].read = sub
    /\ txn[s].phase = "review" \/ Doing(s, "loaded", "approve")
          => txn[s].request \in RequestIds /\ requests[txn[s].request] = "PENDING"
    /\ txn[s].phase = "loaded" /\ txn[s].op # "approve" => txn[s].request = NoRequest
    /\ txn[s].phase = "looked" =>
          IF txn[s].request = NoRequest THEN NonePending
          ELSE requests[txn[s].request] = "PENDING"

AloneInv ==
    /\ TrialInv
    /\ SoundAt(sub, now)
    /\ \A q, r \in RequestIds :
          requests[q] = "PENDING" /\ requests[r] = "PENDING" => q = r
    /\ WaitingMeansBasic
    /\ \A s \in Sessions : StillHolds(s)

\* A fresh venue waits for nothing and its trial has an end.
LEMMA AloneInitially == Init => AloneInv
<1> SUFFICES ASSUME Init PROVE AloneInv
  OBVIOUS
<1>1. TrialInv
  BY InitTrial
<1>2. SoundAt(sub, now)
  BY PlanAssumption DEF Init, FirstRow, SoundAt, Plans
<1>3. \A q \in RequestIds : requests[q] # "PENDING"
  BY DEF Init
<1>4. ASSUME NEW s \in Sessions PROVE StillHolds(s)
  <2>1. txn[s] = Idle /\ now = 0
    BY DEF Init
  <2>2. Idle.phase = "idle" /\ Idle.at = 0
    BY DEF Idle
  <2>. QED
    BY <2>1, <2>2 DEF StillHolds, Doing
<1>. QED
  BY <1>1, <1>2, <1>3, <1>4 DEF AloneInv, WaitingMeansBasic

\* What one session reads it writes over: a save stores the row it worked out.
LEMMA SavesTheRow ==
    ASSUME NEW row, Good(row), Good(sub), NEW s \in Sessions, txn[s].read = sub,
           Save(s, row)
    PROVE  sub' = row
<1>1. sub' = [f \in DOMAIN sub |-> IF row[f] # sub[f] THEN row[f] ELSE sub[f]]
  BY DEF Save, Merged
<1>2. sub \in Row /\ row \in Row
  BY DEF Good
<1>3. DOMAIN sub = DOMAIN row /\ row = [f \in DOMAIN row |-> row[f]]
  BY <1>2 DEF Row
<1>. QED
  BY <1>1, <1>3

\* A save of the one session keeps the invariant when its row is sound and no
\* request waits for a plan the row has.
LEMMA AloneSaves ==
    ASSUME Alone, AloneInv, TrialInv', NEW s \in Sessions, NEW row,
           Good(row), SoundAt(row, now), txn[s].read = sub, Save(s, row),
           \A q, r \in RequestIds :
              requests'[q] = "PENDING" /\ requests'[r] = "PENDING" => q = r,
           \A q \in RequestIds : requests'[q] = "PENDING" => row.plan = "BASIC"
    PROVE  AloneInv'
<1>1. sub' = row
  BY SavesTheRow DEF AloneInv, TrialInv
<1>2. now' = now /\ txn' = [txn EXCEPT ![s] = Idle]
  BY DEF Save
<1>3. ASSUME NEW u \in Sessions PROVE StillHolds(u)'
  <2>1. txn'[u] = Idle
    BY <1>2 DEF Alone, AloneInv, TrialInv, TypeOK
  <2>2. now \in Nat
    BY DEF AloneInv, TrialInv, TypeOK
  <2>. QED
    BY <1>2, <2>1, <2>2 DEF StillHolds, Idle, Doing
<1>. QED
  BY <1>1, <1>2, <1>3 DEF AloneInv, WaitingMeansBasic

\* A step of the one session that only reads keeps the invariant when what it read
\* holds.
LEMMA AloneReads ==
    ASSUME Alone, AloneInv, TrialInv', NEW s \in Sessions, StillHolds(s)',
           UNCHANGED <<sub, requests, now>>
    PROVE  AloneInv'
<1>1. \A u \in Sessions : u = s
  BY DEF Alone
<1>. QED
  BY <1>1 DEF AloneInv, WaitingMeansBasic

\* Every step of the one session keeps the invariant.
LEMMA StepAlone ==
    ASSUME Alone, AloneInv, NEW s \in Sessions, SessionStep(s)
    PROVE  AloneInv'
<1> DEFINE t == txn[s]
<1>1. TrialInv'
  BY StepTrial DEF AloneInv, Next
<1>2. /\ t \in Txn /\ txn \in [Sessions -> Txn] /\ now \in Nat /\ Good(sub)
      /\ requests \in [RequestIds -> RequestStatus]
      /\ SoundAt(sub, now) /\ StillHolds(s)
  BY DEF AloneInv, TrialInv, TypeOK
<1>3. t.at \in Nat /\ t.at <= now /\ t.plan \in Plans
      /\ t.request \in RequestIds \cup {NoRequest}
  BY <1>2 DEF Txn, StillHolds
<1>4. ASSUME t.phase \in {"loaded", "looked"}
      PROVE  txn[s].read = sub /\ Current(s) = Advance(sub, t.at)
             /\ Succeeds(sub, Current(s), now)
  BY <1>2, <1>3, <1>4, AdvanceSucceeds DEF StillHolds, Current
<1>5. ASSUME NEW row, Succeeds(Current(s), row, now), Save(s, row), t.phase = "loaded",
             requests' = requests
      PROVE  AloneInv'
  <2>1. Succeeds(sub, row, now) /\ txn[s].read = sub
    BY <1>4, <1>5 DEF Succeeds
  <2>. QED
    BY <1>1, <1>5, <2>1, AloneSaves DEF Succeeds, AloneInv, WaitingMeansBasic
<1>6. Idle.phase = "idle" /\ Idle.at = 0
  BY DEF Idle
<1>7. CASE Begin(s)
  <2>1. PICK op \in Operations \ {"approve", "reject"}, plan \in Plans :
           Load(s, op, plan, NoRequest)
    BY <1>7 DEF Begin
  <2>2. txn'[s] = [phase |-> "loaded", op |-> op, plan |-> plan, read |-> sub,
                   at |-> now, request |-> NoRequest]
    BY <1>2, <2>1 DEF Load
  <2>. QED
    BY <1>1, <1>2, <1>7, <2>2, AloneReads DEF Begin, StillHolds, Doing
<1>8. CASE FindRequest(s)
  <2>1. PICK op \in Operations \cap {"approve", "reject"}, q \in RequestIds :
           /\ requests[q] = "PENDING"
           /\ txn' = [txn EXCEPT ![s] = [Idle EXCEPT !.phase = "review", !.op = op,
                                                   !.at = now, !.request = q]]
    BY <1>8 DEF FindRequest
  <2>2. /\ txn'[s].phase = "review" /\ txn'[s].at = now /\ txn'[s].request = q
    BY <1>2, <2>1 DEF Idle
  <2>. QED
    BY <1>1, <1>2, <1>8, <2>1, <2>2, AloneReads DEF FindRequest, StillHolds, Doing
<1>9. CASE LoadForApproval(s)
  <2>1. txn'[s] = [phase |-> "loaded", op |-> "approve", plan |-> "PRO", read |-> sub,
                   at |-> now, request |-> t.request]
    BY <1>2, <1>9 DEF LoadForApproval, Load
  <2>. QED
    BY <1>1, <1>2, <1>9, <2>1, AloneReads DEF LoadForApproval, StillHolds, Doing
<1>10. CASE LookForPending(s)
  <2>1. /\ t.phase = "loaded" /\ t.request = NoRequest /\ t.read = sub
    BY <1>2, <1>10 DEF LookForPending, StillHolds
  <2>2. /\ txn'[s].phase = "looked" /\ txn'[s].at = t.at /\ txn'[s].read = t.read
        /\ \/ /\ txn'[s].request \in RequestIds
              /\ requests[txn'[s].request] = "PENDING"
           \/ txn'[s].request = NoRequest /\ NonePending
    <3>1. ASSUME NEW q \in RequestIds, requests[q] = "PENDING",
                 txn' = [txn EXCEPT ![s] = [@ EXCEPT !.phase = "looked", !.request = q]]
          PROVE  /\ txn'[s].phase = "looked" /\ txn'[s].at = t.at
                 /\ txn'[s].read = t.read /\ txn'[s].request = q
      <4>1. txn'[s] = [t EXCEPT !.phase = "looked", !.request = q]
        BY <1>2, <3>1
      <4>. QED
        BY <1>2, <4>1 DEF Txn
    <3>2. ASSUME txn' = [txn EXCEPT ![s] = [@ EXCEPT !.phase = "looked"]]
          PROVE  /\ txn'[s].phase = "looked" /\ txn'[s].at = t.at
                 /\ txn'[s].read = t.read /\ txn'[s].request = t.request
      <4>1. txn'[s] = [t EXCEPT !.phase = "looked"]
        BY <1>2, <3>2
      <4>. QED
        BY <1>2, <4>1 DEF Txn
    <3>. QED
      BY <1>10, <2>1, <3>1, <3>2 DEF LookForPending, NonePending
  <2>3. requests' = requests /\ sub' = sub /\ now' = now
    BY <1>10 DEF LookForPending
  <2>4. StillHolds(s)'
    BY <1>2, <1>3, <2>1, <2>2, <2>3, PlanAssumption DEF StillHolds, Doing, NonePending
  <2>. QED
    BY <1>1, <2>3, <2>4, AloneReads
<1>11. CASE GetState(s)
  <2>1. Succeeds(Current(s), Current(s), now)
    BY <1>4, <1>11 DEF GetState, Doing, Succeeds
  <2>. QED
    BY <1>5, <1>11, <2>1 DEF GetState, Doing
<1>12. ASSUME t.phase = "loaded"
       PROVE  /\ Succeeds(Current(s), [Current(s) EXCEPT !.scheduled = NoPlan], now)
              /\ Succeeds(Current(s), Downgraded(Current(s)), now)
              /\ Succeeds(Current(s), WithMethod(Current(s), t.at), now)
              /\ Succeeds(Current(s), Cancelled(Current(s)), now)
  BY <1>2, <1>3, <1>4, <1>12, OwnerSucceeds DEF Succeeds
<1>13. CASE KeepPlan(s) \/ ScheduleDowngrade(s) \/ AddPaymentMethod(s) \/ Cancel(s)
  BY <1>5, <1>12, <1>13
     DEF KeepPlan, ScheduleDowngrade, AddPaymentMethod, Cancel, Doing
<1>14. CASE Resume(s)
  <2>1. txn[s].read = sub
    BY <1>2, <1>14 DEF Resume, Doing, StillHolds
  <2>2. Succeeds(sub, Resumed(sub, t.at), now)
    BY <1>2, <1>3, OwnerSucceeds
  <2>3. Save(s, Resumed(sub, t.at)) /\ requests' = requests
    BY <1>14, <2>1 DEF Resume
  <2>. QED
    BY <1>1, <2>1, <2>2, <2>3, AloneSaves DEF Succeeds, AloneInv, WaitingMeansBasic
<1>15. CASE RequestUpgrade(s)
  <2>1. PICK q \in RequestIds : requests' = [requests EXCEPT ![q] = "PENDING"]
    BY <1>15 DEF RequestUpgrade
  <2>2. /\ \A r \in RequestIds : requests[r] # "PENDING"
        /\ Save(s, Current(s)) /\ Current(s).plan = "BASIC" /\ t.phase = "looked"
    BY <1>15 DEF RequestUpgrade, Doing
  <2>3. \A r \in RequestIds : requests'[r] = "PENDING" => r = q
    BY <1>2, <2>1, <2>2
  <2>. QED
    BY <1>1, <1>4, <2>2, <2>3, AloneSaves DEF Succeeds
<1>16. CASE Approve(s)
  <2>1. /\ t.phase = "loaded" /\ t.request \in RequestIds
        /\ requests[t.request] = "PENDING"
        /\ requests' = [requests EXCEPT ![t.request] = "APPROVED"]
        /\ Save(s, ApplyUpgrade(Current(s), "PRO", t.at))
    BY <1>2, <1>16 DEF Approve, Doing, StillHolds
  <2>2. \A q \in RequestIds : requests'[q] # "PENDING"
    BY <1>2, <2>1 DEF AloneInv
  <2>3. /\ Good(ApplyUpgrade(Current(s), "PRO", t.at))
        /\ SoundAt(ApplyUpgrade(Current(s), "PRO", t.at), now)
    BY <1>2, <1>3, <1>4, <2>1, UpgradeFollows, UpgradeSound DEF Succeeds, Follows
  <2>. QED
    BY <1>1, <1>4, <2>1, <2>2, <2>3, AloneSaves
<1>17. CASE Reject(s)
  <2>1. /\ t.request \in RequestIds /\ requests[t.request] = "PENDING"
        /\ requests' = [requests EXCEPT ![t.request] = "REJECTED"]
        /\ txn'[s].phase = "idle" /\ txn'[s].at = 0 /\ sub' = sub /\ now' = now
    BY <1>2, <1>6, <1>17 DEF Reject, Doing, StillHolds
  <2>2. \A q \in RequestIds : requests'[q] # "PENDING"
    BY <1>2, <2>1 DEF AloneInv
  <2>3. \A u \in Sessions : StillHolds(u)'
    BY <1>2, <2>1 DEF Alone, StillHolds, Doing
  <2>. QED
    BY <1>1, <1>2, <2>1, <2>2, <2>3 DEF AloneInv, WaitingMeansBasic
<1>18. CASE AdminAssign(s)
  <2> DEFINE row == Assigned(Current(s), t.plan, t.at)
  <2>1. /\ t.phase = "looked" /\ Save(s, row)
        /\ requests' = IF t.request = NoRequest THEN requests
                       ELSE [requests EXCEPT ![t.request] =
                               IF t.plan = "PRO" THEN "APPROVED" ELSE "REJECTED"]
    BY <1>18 DEF AdminAssign, Doing
  <2>2. \A q \in RequestIds : requests'[q] # "PENDING"
    <3>1. CASE t.request = NoRequest
      BY <1>2, <2>1, <3>1 DEF StillHolds, NonePending
    <3>2. CASE t.request # NoRequest
      <4>1. t.request \in RequestIds /\ requests[t.request] = "PENDING"
        BY <1>2, <1>3, <2>1, <3>2 DEF StillHolds
      <4>. QED
        BY <1>2, <2>1, <3>2, <4>1 DEF AloneInv
    <3>. QED
      BY <3>1, <3>2
  <2>3. Good(row) /\ SoundAt(row, now)
    BY <1>2, <1>3, <1>4, <2>1, AssignedFollows, AssignedSound DEF Succeeds, Follows
  <2>. QED
    BY <1>1, <1>4, <2>1, <2>2, <2>3, AloneSaves
<1>19. CASE Rollback(s)
  <2>1. txn'[s] = Idle
    BY <1>2, <1>19 DEF Rollback
  <2>. QED
    BY <1>1, <1>2, <1>6, <1>19, <2>1, AloneReads DEF Rollback, StillHolds, Doing
<1>. QED
  BY <1>7, <1>8, <1>9, <1>10, <1>11, <1>13, <1>14, <1>15, <1>16, <1>17, <1>18, <1>19
     DEF SessionStep

\* Time passes over a sound row.
LEMMA NextAlone ==
    ASSUME Alone
    PROVE  AloneInv /\ [Next]_vars => AloneInv'
<1> SUFFICES ASSUME AloneInv, [Next]_vars PROVE AloneInv'
  OBVIOUS
<1>1. TrialInv'
  BY StepTrial DEF AloneInv
<1>2. CASE Tick
  <2>1. /\ now \in Nat /\ now' = now + 1 /\ sub' = sub /\ requests' = requests
        /\ txn' = txn /\ Good(sub) /\ txn \in [Sessions -> Txn]
    BY <1>2 DEF Tick, AloneInv, TrialInv, TypeOK
  <2>2. SoundAt(sub, now + 1)
    BY <2>1, SoundLater DEF AloneInv
  <2>3. ASSUME NEW s \in Sessions PROVE StillHolds(s)'
    <3>1. txn[s].at \in Nat
      BY <2>1 DEF Txn
    <3>. QED
      BY <2>1, <3>1 DEF AloneInv, StillHolds, Doing, NonePending
  <2>4. SoundAt(sub, now)'
    BY <2>1, <2>2
  <2>. QED
    BY <1>1, <2>1, <2>3, <2>4 DEF AloneInv, WaitingMeansBasic
<1>3. CASE UNCHANGED vars
  BY <1>1, <1>3 DEF vars, AloneInv, WaitingMeansBasic, StillHolds, Doing, NonePending
<1>. QED
  BY <1>2, <1>3, StepAlone DEF Next

\* The invariant holds of one session.
LEMMA AloneHolds == ASSUME Alone PROVE Spec => []AloneInv
<1>1. AloneInv /\ [Next]_vars => AloneInv'
  BY NextAlone
<1>. QED
  BY <1>1, AloneInitially, PTL DEF Spec

\* Without overlapping saves, every state of a plan has the deadline it ends by.
THEOREM TermsEnd == ASSUME Alone PROVE Spec => []EveryTermEnds
<1>1. AloneInv => EveryTermEnds
  BY DEF AloneInv, SoundAt, EveryTermEnds
<1>. QED
  BY <1>1, AloneHolds, PTL

\* Without overlapping saves, a venue with a payment method has not lapsed.
THEOREM PaymentHolds == ASSUME Alone PROVE Spec => []PaidStaysOn
<1>1. AloneInv => PaidStaysOn
  BY DEF AloneInv, SoundAt, PaidStaysOn
<1>. QED
  BY <1>1, AloneHolds, PTL

\* Without overlapping saves, a venue that waits for Pro is on Basic.
THEOREM WaitersAreBasic == ASSUME Alone PROVE Spec => []WaitingMeansBasic
<1>1. AloneInv => WaitingMeansBasic
  BY DEF AloneInv
<1>. QED
  BY <1>1, AloneHolds, PTL

-----------------------------------------------------------------------------
(* What a step of one session does to the plan. *)

\* A row moved on at time t, and what the operations make of it.
Outcome(s, t) ==
    LET current == Advance(sub, t)
    IN  \/ sub' \in {sub, current, [current EXCEPT !.scheduled = NoPlan],
                     Downgraded(current), WithMethod(current, t),
                     Cancelled(current), Resumed(sub, t)}
        \/ sub' = ApplyUpgrade(current, "PRO", t) /\ sub.plan = "BASIC"
        \/ sub' = Assigned(current, "PRO", t)
        \/ AssignsBasic(s) /\ sub' = Assigned(current, "BASIC", t)

\* A step leaves the row or stores one of these.
LEMMA StepOutcome ==
    ASSUME Alone, AloneInv, NEW s \in Sessions, SessionStep(s)
    PROVE  txn[s].at \in Nat /\ txn[s].at <= now /\ Outcome(s, txn[s].at)
<1> DEFINE t == txn[s]
<1>1. /\ t \in Txn /\ now \in Nat /\ Good(sub) /\ SoundAt(sub, now) /\ StillHolds(s)
  BY DEF AloneInv, TrialInv, TypeOK
<1>2. t.at \in Nat /\ t.at <= now /\ t.plan \in Plans
  BY <1>1 DEF Txn, StillHolds
<1>3. Good(Advance(sub, t.at))
  BY <1>1, <1>2, AdvanceFollows DEF Follows
<1>4. ASSUME t.phase \in {"loaded", "looked"}
      PROVE  /\ txn[s].read = sub /\ Current(s) = Advance(sub, t.at)
             /\ \A row : Good(row) /\ Save(s, row) => sub' = row
  BY <1>1, <1>4, SavesTheRow DEF StillHolds, Current
<1>5. CASE GetState(s) \/ RequestUpgrade(s)
  <2>1. Save(s, Current(s)) /\ t.phase \in {"loaded", "looked"}
    BY <1>5 DEF GetState, RequestUpgrade, Doing
  <2>. QED
    BY <1>2, <1>3, <1>4, <2>1 DEF Outcome
<1>6. CASE KeepPlan(s) \/ ScheduleDowngrade(s) \/ AddPaymentMethod(s) \/ Cancel(s)
  <2>1. /\ t.phase = "loaded"
        /\ \E row \in {[Current(s) EXCEPT !.scheduled = NoPlan], Downgraded(Current(s)),
                       WithMethod(Current(s), t.at), Cancelled(Current(s))} : Save(s, row)
    BY <1>6 DEF KeepPlan, ScheduleDowngrade, AddPaymentMethod, Cancel, Doing
  <2>2. \A row \in {[Current(s) EXCEPT !.scheduled = NoPlan], Downgraded(Current(s)),
                    WithMethod(Current(s), t.at), Cancelled(Current(s))} : Good(row)
    <3>1. Good(Current(s))
      BY <1>3, <1>4, <2>1
    <3>2. /\ Good([Current(s) EXCEPT !.scheduled = NoPlan])
          /\ Good(Downgraded(Current(s)))
          /\ Good(WithMethod(Current(s), t.at))
          /\ Good(Cancelled(Current(s)))
      BY <1>2, <3>1, OwnerFollows DEF Follows
    <3>. QED
      BY <3>2
  <2>. QED
    BY <1>2, <1>4, <2>1, <2>2 DEF Outcome
<1>7. CASE Resume(s)
  <2>1. Save(s, Resumed(sub, t.at)) /\ t.phase = "loaded"
    BY <1>4, <1>7 DEF Resume, Doing
  <2>2. Good(Resumed(sub, t.at))
    BY <1>1, <1>2, OwnerFollows DEF Follows
  <2>. QED
    BY <1>2, <1>4, <2>1, <2>2 DEF Outcome
<1>8. CASE Approve(s)
  <2>1. /\ Save(s, ApplyUpgrade(Current(s), "PRO", t.at)) /\ t.phase = "loaded"
        /\ t.request \in RequestIds /\ requests[t.request] = "PENDING"
    BY <1>1, <1>8 DEF Approve, Doing, StillHolds
  <2>2. Good(ApplyUpgrade(Current(s), "PRO", t.at))
    BY <1>2, <1>3, <1>4, <2>1, UpgradeFollows DEF Follows
  <2>3. sub.plan = "BASIC"
    BY <2>1 DEF AloneInv, WaitingMeansBasic
  <2>. QED
    BY <1>2, <1>4, <2>1, <2>2, <2>3 DEF Outcome
<1>9. CASE AdminAssign(s)
  <2>1. /\ Save(s, Assigned(Current(s), t.plan, t.at)) /\ t.phase = "looked"
        /\ t.op = "assign"
    BY <1>9 DEF AdminAssign, Doing
  <2>2. Good(Assigned(Current(s), t.plan, t.at))
    BY <1>2, <1>3, <1>4, <2>1, AssignedFollows DEF Follows
  <2>3. sub' = Assigned(Advance(sub, t.at), t.plan, t.at)
    BY <1>4, <2>1, <2>2
  <2>4. CASE t.plan = "PRO"
    BY <1>2, <2>3, <2>4 DEF Outcome
  <2>5. CASE t.plan = "BASIC"
    BY <1>2, <2>1, <2>3, <2>5 DEF Outcome, AssignsBasic, Doing
  <2>. QED
    BY <1>2, <2>4, <2>5 DEF Plans
<1>10. CASE \/ Begin(s) \/ FindRequest(s) \/ LoadForApproval(s) \/ LookForPending(s)
            \/ Reject(s) \/ Rollback(s)
  <2>1. sub' = sub
    BY <1>10 DEF Begin, FindRequest, LoadForApproval, LookForPending, Reject, Rollback
  <2>. QED
    BY <1>2, <2>1 DEF Outcome
<1>. QED
  BY <1>5, <1>6, <1>7, <1>8, <1>9, <1>10 DEF SessionStep

\* Pro with a deadline ahead is left as it is by all but an assignment of Basic.
LEMMA AheadStays ==
    ASSUME AloneInv, NEW s \in Sessions, NEW t \in Nat, t <= now, Outcome(s, t),
           Effective(sub) = "PRO",
           NEW deadline \in {sub.trialEnds, sub.periodEnd} \ {Never}, deadline > now
    PROVE  AssignsBasic(s) \/ (sub'.status = sub.status /\ sub'.plan = "PRO")
<1>1. /\ sub \in Row /\ Good(sub) /\ SoundAt(sub, now) /\ now \in Nat
  BY DEF AloneInv, TrialInv, TypeOK
<1>2. /\ Advance(sub, t) = sub /\ sub.status \in {"TRIALING", "ACTIVE"}
      /\ sub.plan = "PRO"
  BY <1>1, AheadRests DEF Effective
<1>3. [sub EXCEPT !.scheduled = NoPlan].status = sub.status
      /\ [sub EXCEPT !.scheduled = NoPlan].plan = "PRO"
  BY <1>1, <1>2 DEF Row
<1>4. Downgraded(sub).status = sub.status /\ Downgraded(sub).plan = "PRO"
  <2>1. Downgraded(sub) = [sub EXCEPT !.scheduled = "BASIC"]
    BY <1>2 DEF Downgraded
  <2>. QED
    BY <1>1, <1>2, <2>1 DEF Row
<1>5. WithMethod(sub, t).status = sub.status /\ WithMethod(sub, t).plan = "PRO"
  <2>1. WithMethod(sub, t) = [sub EXCEPT !.paid = TRUE]
    BY <1>2 DEF WithMethod
  <2>. QED
    BY <1>1, <1>2, <2>1 DEF Row
<1>6. Cancelled(sub).status = sub.status /\ Cancelled(sub).plan = "PRO"
  <2>1. Cancelled(sub) = [sub EXCEPT !.cancelAtEnd = TRUE, !.status = @]
    BY DEF Cancelled
  <2>. QED
    BY <1>1, <1>2, <2>1 DEF Row
<1>7. Resumed(sub, t).status = sub.status /\ Resumed(sub, t).plan = "PRO"
  <2>1. Resumed(sub, t) = [sub EXCEPT !.cancelAtEnd = FALSE]
    BY <1>2 DEF Resumed
  <2>. QED
    BY <1>1, <1>2, <2>1 DEF Row
<1>8. Assigned(sub, "PRO", t) = sub
  BY <1>2 DEF Assigned
<1>. QED
  BY <1>2, <1>3, <1>4, <1>5, <1>6, <1>7, <1>8 DEF Outcome

\* What NoLossMidCycle says of a step.
KeepsPro ==
    (/\ Effective(sub) = "PRO" /\ Effective(sub') = "BASIC"
     /\ \E deadline \in {sub.trialEnds, sub.periodEnd} \ {Never} : deadline > now)
      => \E s \in Sessions : AssignsBasic(s)

\* A step that takes Pro away before its time assigns Basic.
LEMMA StepKeepsPro ==
    ASSUME Alone
    PROVE  AloneInv /\ [Next]_vars => [KeepsPro]_vars
<1> SUFFICES ASSUME AloneInv, Next, Effective(sub) = "PRO", Effective(sub') = "BASIC",
                    NEW deadline \in {sub.trialEnds, sub.periodEnd} \ {Never},
                    deadline > now
             PROVE  \E s \in Sessions : AssignsBasic(s)
  BY DEF KeepsPro
<1>1. PICK s \in Sessions : SessionStep(s)
  BY DEF Next, Tick
<1>2. AssignsBasic(s) \/ (sub'.status = sub.status /\ sub'.plan = "PRO")
  BY <1>1, StepOutcome, AheadStays
<1>. QED
  BY <1>2 DEF Effective

\* Without overlapping saves, Pro stays to the end of its trial or period unless
\* the platform assigns Basic.
THEOREM NothingLost == ASSUME Alone PROVE Spec => NoLossMidCycle
<1>1. AloneInv /\ [Next]_vars => [KeepsPro]_vars
  BY StepKeepsPro
<1>2. Spec => [][KeepsPro]_vars
  BY <1>1, AloneHolds, PTL DEF Spec
<1>. QED
  BY <1>2, PTL DEF NoLossMidCycle, KeepsPro

\* _advance leaves a row on trial only if it was and its trial has not ended.
LEMMA TrialRests ==
    ASSUME NEW row, Good(row), NEW t \in Nat, Advance(row, t).status = "TRIALING"
    PROVE  Advance(row, t) = row
<1>1. ASSUME NEW x, Good(x), EndTrial(x, t).status = "TRIALING"
      PROVE  EndTrial(x, t) = x
  <2>1. CASE x.status = "TRIALING" /\ Past(x.trialEnds, t)
    <3>1. /\ [x EXCEPT !.trialEnds = Never, !.status = "CANCELLED"].status = "CANCELLED"
          /\ [x EXCEPT !.trialEnds = Never, !.status = "ACTIVE",
                       !.periodEnd = t + Period].status = "ACTIVE"
          /\ [x EXCEPT !.trialEnds = Never, !.status = "GRACE",
                       !.graceEnds = t + Grace].status = "GRACE"
      BY <1>1 DEF Good, Row
    <3>. QED
      BY <1>1, <2>1, <3>1 DEF EndTrial
  <2>. QED
    BY <2>1 DEF EndTrial
<1>2. ASSUME NEW x, Good(x), EndPeriod(x, t).status = "TRIALING"
      PROVE  EndPeriod(x, t) = x
  <2>1. CASE x.status = "ACTIVE" /\ Past(x.periodEnd, t)
    <3> DEFINE y == ApplyScheduled(x)
    <3>1. y \in Row /\ y.status = "ACTIVE"
      BY <1>2, <2>1, ScheduledSucceeds DEF Good
    <3> HIDE DEF y
    <3>2. /\ [y EXCEPT !.status = "CANCELLED", !.periodEnd = Never].status = "CANCELLED"
          /\ [y EXCEPT !.periodEnd = t + Period].status = "ACTIVE"
          /\ [y EXCEPT !.status = "GRACE", !.graceEnds = t + Grace].status = "GRACE"
      BY <3>1 DEF Row
    <3>. QED
      BY <1>2, <2>1, <3>2 DEF EndPeriod, y
  <2>. QED
    BY <2>1 DEF EndPeriod
<1>3. ASSUME NEW x, Good(x), EndGrace(x, t).status = "TRIALING"
      PROVE  EndGrace(x, t) = x
  <2>1. [x EXCEPT !.status = "SUSPENDED", !.graceEnds = Never].status = "SUSPENDED"
    BY <1>3 DEF Good, Row
  <2>. QED
    BY <1>3, <2>1 DEF EndGrace
<1> DEFINE one == EndTrial(row, t)
           two == EndPeriod(one, t)
<1>4. Good(one) /\ Good(two)
  BY EndTrialFollows, EndPeriodFollows DEF Follows
<1>5. EndGrace(two, t).status = "TRIALING"
  BY DEF Advance
<1>6. EndGrace(two, t) = two
  BY <1>3, <1>4, <1>5
<1>7. two = one
  BY <1>2, <1>4, <1>5, <1>6
<1>8. one = row
  BY <1>1, <1>5, <1>6, <1>7
<1>. QED
  BY <1>6, <1>7, <1>8 DEF Advance

\* Assigning Basic leaves a Basic row.
LEMMA AssignedIsBasic ==
    ASSUME NEW row, Good(row), NEW t
    PROVE  Assigned(row, "BASIC", t).plan = "BASIC"
<1> DEFINE basic == [row EXCEPT !.plan = "BASIC", !.scheduled = NoPlan]
<1>1. basic \in Row /\ basic.plan = "BASIC"
  BY DEF Good, Row, Plans
<1>2. Assigned(row, "BASIC", t) =
        [basic EXCEPT !.status = "ACTIVE", !.trialEnds = Never, !.graceEnds = Never,
                      !.cancelAtEnd = FALSE, !.periodEnd = Never]
  BY DEF Assigned, ApplyPlanNow
<1> HIDE DEF basic
<1>. QED
  BY <1>1, <1>2 DEF Row

\* Whoever has had the trial is on trial after a step only where it was before.
LEMMA TrialStays ==
    ASSUME AloneInv, NEW s \in Sessions, NEW t \in Nat, t <= now, Outcome(s, t),
           sub.proTrialUsed, sub'.plan = "PRO", sub'.status = "TRIALING"
    PROVE  sub'.trialEnds = sub.trialEnds
<1> DEFINE current == Advance(sub, t)
<1>1. Good(sub) /\ sub \in Row
  BY DEF AloneInv, TrialInv, TypeOK
<1>2. /\ Good(current) /\ current \in Row /\ current.proTrialUsed
      /\ current.status = "TRIALING" => current = sub
  BY <1>1, AdvanceFollows, TrialRests DEF Follows, Good
<1>3. ASSUME NEW row \in Row, row.status = "TRIALING" => row.trialEnds = sub.trialEnds
      PROVE  \A new \in {row, [row EXCEPT !.scheduled = NoPlan], Downgraded(row),
                         WithMethod(row, t), Cancelled(row), Resumed(row, t)} :
                new.status = "TRIALING" => new.trialEnds = sub.trialEnds
  <2>1. LET new == [row EXCEPT !.scheduled = NoPlan]
        IN  new.status = "TRIALING" => new.trialEnds = sub.trialEnds
    BY <1>3 DEF Row
  <2>2. Downgraded(row).status = "TRIALING" => Downgraded(row).trialEnds = sub.trialEnds
    BY <1>3 DEF Downgraded, ApplyPlanNow, Row
  <2>3. WithMethod(row, t).status = "TRIALING"
           => WithMethod(row, t).trialEnds = sub.trialEnds
    BY <1>3 DEF WithMethod, Row
  <2>4. Cancelled(row).status = "TRIALING" => Cancelled(row).trialEnds = sub.trialEnds
    BY <1>3 DEF Cancelled, Row
  <2>5. Resumed(row, t).status = "TRIALING" => Resumed(row, t).trialEnds = sub.trialEnds
    BY <1>3 DEF Resumed, Row
  <2>. QED
    BY <1>3, <2>1, <2>2, <2>3, <2>4, <2>5
<1>4. ApplyUpgrade(current, "PRO", t).status = "ACTIVE"
  <2> DEFINE upgraded == [current EXCEPT !.plan = "PRO", !.scheduled = NoPlan,
                                         !.graceEnds = Never]
  <2>1. upgraded \in Row
    BY <1>2, Deadlines DEF Row, Plans
  <2> HIDE DEF current, upgraded
  <2>2. [upgraded EXCEPT !.status = "ACTIVE", !.trialEnds = Never,
                         !.periodEnd = t + Period].status = "ACTIVE"
    BY <2>1 DEF Row
  <2>. QED
    BY <1>2, <2>2 DEF ApplyUpgrade, upgraded
<1>5. Assigned(current, "BASIC", t).plan = "BASIC"
  BY <1>2, AssignedIsBasic
<1>6. Assigned(current, "PRO", t) \in {current, ApplyUpgrade(current, "PRO", t)}
  BY DEF Assigned
<1> HIDE DEF current
<1>. QED
  BY <1>1, <1>2, <1>3, <1>4, <1>5, <1>6 DEF Outcome, current

\* What ProTrialOnceAndWhole says of a step.
KeepsTrial ==
    /\ (/\ sub.plan = "PRO" /\ sub.status = "TRIALING" /\ sub.trialEnds > now
        /\ sub'.status # "TRIALING")
          => \E s \in Sessions : AssignsBasic(s)
    /\ (/\ sub.proTrialUsed
        /\ sub'.plan = "PRO" /\ sub'.status = "TRIALING")
          => sub'.trialEnds = sub.trialEnds

\* A step neither cuts the trial short nor grants it again.
LEMMA StepKeepsTrial ==
    ASSUME Alone
    PROVE  AloneInv /\ [Next]_vars => [KeepsTrial]_vars
<1> SUFFICES ASSUME AloneInv, Next PROVE KeepsTrial
  OBVIOUS
<1>1. CASE Tick
  BY <1>1 DEF Tick, KeepsTrial
<1>2. ASSUME NEW s \in Sessions, SessionStep(s) PROVE KeepsTrial
  <2>1. txn[s].at \in Nat /\ txn[s].at <= now /\ Outcome(s, txn[s].at)
    BY <1>2, StepOutcome
  <2>2. ASSUME sub.plan = "PRO", sub.status = "TRIALING", sub.trialEnds > now
        PROVE  AssignsBasic(s) \/ sub'.status = "TRIALING"
    <3>1. sub.trialEnds \in {sub.trialEnds, sub.periodEnd} \ {Never}
          /\ Effective(sub) = "PRO"
      BY <2>2 DEF AloneInv, SoundAt, Effective
    <3>. QED
      BY <2>1, <2>2, <3>1, AheadStays
  <2>3. ASSUME sub.proTrialUsed, sub'.plan = "PRO", sub'.status = "TRIALING"
        PROVE  sub'.trialEnds = sub.trialEnds
    BY <2>1, <2>3, TrialStays
  <2>. QED
    BY <2>2, <2>3 DEF KeepsTrial
<1>. QED
  BY <1>1, <1>2 DEF Next

\* Without overlapping saves, the free Pro trial runs to its end unless the
\* platform assigns Basic, and is granted once.
THEOREM TrialOnceAndWhole == ASSUME Alone PROVE Spec => ProTrialOnceAndWhole
<1>1. AloneInv /\ [Next]_vars => [KeepsTrial]_vars
  BY StepKeepsTrial
<1>2. Spec => [][KeepsTrial]_vars
  BY <1>1, AloneHolds, PTL DEF Spec
<1>. QED
  BY <1>2, PTL DEF ProTrialOnceAndWhole, KeepsTrial
=============================================================================
