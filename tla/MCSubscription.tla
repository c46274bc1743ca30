--------------------------- MODULE MCSubscription ---------------------------
EXTENDS Subscription

\* Longer and shorter than a period.
Trials == [p \in Plans |-> IF p = "BASIC" THEN 1 ELSE 2]

AllOperations == Operation

\* An owner asks while administrators answer.
ReviewOperations == {"change", "approve", "reject", "assign"}
=============================================================================
