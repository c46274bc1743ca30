----------------------------- MODULE RateLimit ------------------------------
(***************************************************************************)
(* The sliding window of app/dependencies/rate_limit.py for one rule and   *)
(* one client address; the buckets of others share nothing with it.        *)
(*                                                                         *)
(* A limiter has no await in it: a request passes it in one step.  The     *)
(* deque is what `log' holds beyond its first `popped' entries.            *)
(***************************************************************************)
EXTENDS Naturals, Sequences

CONSTANTS
    Limit,     \* RateLimitRule.limit
    Window,    \* RateLimitRule.window
    MaxClock   \* bound on time.monotonic()

ASSUME LimitAssumption == Limit \in Nat /\ Window \in Nat /\ MaxClock \in Nat

VARIABLES
    clock,    \* time.monotonic()
    log,      \* when each request that passed had arrived
    popped    \* how many of those left the deque

limitVars == <<clock, log, popped>>

LimitInit == clock = 0 /\ log = <<>> /\ popped = 0

\* Mutant: a request that lies a whole window back has left it.
OutdatedAtWindow(i) == clock - log[i] >= Window

Outdated(i) == clock - log[i] > Window

\* popleft while the oldest is outdated.
Pops(n) ==
    /\ \A i \in (popped + 1)..n : Outdated(i)
    /\ n < Len(log) => ~Outdated(n + 1)

\* _limiter; a request that is refused has popped all the same.
Arrive ==
    \E n \in popped..Len(log) :
        /\ Pops(n)
        /\ popped' = n
        /\ log' = IF Len(log) - n >= Limit THEN log ELSE Append(log, clock)
        /\ UNCHANGED clock

Pass ==
    /\ clock < MaxClock
    /\ clock' = clock + 1
    /\ UNCHANGED <<log, popped>>

LimitStep == Arrive \/ Pass

LimitSpec == LimitInit /\ [][LimitStep]_limitVars

-----------------------------------------------------------------------------
(* Properties. *)

LimitTypeOK ==
    /\ clock \in Nat
    /\ log \in Seq(Nat)
    /\ popped \in 0..Len(log)

\* However the requests come, any one that passes lies more than a window after
\* the one Limit before it: no window ever sees more than Limit requests pass,
\* although entries are dropped by looking at the oldest only (rate_limit).
WindowHolds ==
    \A i \in 1..Len(log) : i + Limit <= Len(log) => log[i + Limit] - log[i] > Window
=============================================================================
