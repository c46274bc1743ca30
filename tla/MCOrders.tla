------------------------------ MODULE MCOrders ------------------------------
EXTENDS Orders, TLC

CONSTANTS r1, r2, r3, r4, p1, p2, k1, k2

\* Three rounds at one table, the third a retry of the first, and another table
\* whose guest sends no key.
RoundsPlace == (r1 :> p1) @@ (r2 :> p1) @@ (r3 :> p1) @@ (r4 :> p2)
RoundsKey == (r1 :> k1) @@ (r2 :> k2) @@ (r3 :> k1) @@ (r4 :> NoKey)

\* Two guests of one table.
PairPlace == (r1 :> p1) @@ (r2 :> p1)
PairKey == (r1 :> k1) @@ (r2 :> k2)

\* The same request sent twice.
SameKey == (r1 :> k1) @@ (r2 :> k1)
=============================================================================
