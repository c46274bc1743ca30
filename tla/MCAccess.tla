------------------------------ MODULE MCAccess ------------------------------
EXTENDS Access, TLC

AllOperations == Operation

\* Requests are alike.
Alike == Permutations(Requests)
=============================================================================
