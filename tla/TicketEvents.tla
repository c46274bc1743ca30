---------------------------- MODULE TicketEvents ----------------------------
(***************************************************************************)
(* What follows the commit of a round on one ticket: run_order_side_effects*)
(* of app/services/order.py logs the order, credits the suggestions the    *)
(* guest took (app/services/analytics.py) and wakes the phones of the      *)
(* staff (app/services/notification.py, push.py).  It runs in a background *)
(* task with a session of its own and is not kept anywhere: a restart      *)
(* loses it.                                                               *)
(***************************************************************************)
EXTENDS Naturals, FiniteSets

CONSTANTS
    Rounds,   \* the rounds guests place on the ticket
    Plates,   \* the dishes
    Phones    \* the push endpoints of the staff

\* A ticket is closed after some rounds.
ASSUME EventsAssumption == IsFiniteSet(Rounds)

Effect == [at : {"off", "queued", "pairs", "due", "notify", "sending", "over"},
           first : BOOLEAN,         \* kind "created", else "items"
           due : SUBSET Plates,     \* the suggestions it is going to credit
           batch : SUBSET Phones]   \* the endpoints it read

VARIABLES
    basket,    \* the dishes on the ticket
    pairing,   \* menu_item_upsells
    effects,   \* the background task of each round
    credits,   \* UPSELL_ACCEPTED events of the ticket, by dish
    phones,    \* push_subscriptions
    dead,      \* endpoints the push service answers 404 or 410 for
    crossed,   \* history: two tasks held the same dish at once
    excused    \* history: tracking failed, the process ended, or the owner
               \* edited the pairs after the first round

eventVars == <<basket, pairing, effects, credits, phones, dead, crossed, excused>>

NoEffect == [at |-> "off", first |-> FALSE, due |-> {}, batch |-> {}]

EventsInit ==
    /\ basket = {}
    /\ pairing \in SUBSET {p \in Plates \X Plates : p[1] # p[2]}
    /\ effects = [r \in Rounds |-> NoEffect]
    /\ credits = [d \in Plates |-> 0]
    /\ phones = {} /\ dead = {}
    /\ crossed = FALSE /\ excused = FALSE

Becomes(r, effect) == effects' = [effects EXCEPT ![r] = effect]

\* create_order and _append_to_order commit, then schedule.
RoundCommits(r) ==
    /\ effects[r].at = "off"
    /\ \E dishes \in SUBSET Plates \ {{}} : basket' = basket \cup dishes
    /\ Becomes(r, [NoEffect EXCEPT !.at = "queued", !.first = (basket = {})])
    /\ UNCHANGED <<pairing, credits, phones, dead, crossed, excused>>

\* upsell_pairs_in_order: both dishes of a pair are on the ticket.
Taken == {p[2] : p \in {q \in pairing : {q[1], q[2]} \subseteq basket}}

ReadPairs(r) ==
    /\ effects[r].at = "queued"
    /\ Becomes(r, [effects[r] EXCEPT !.at = "pairs", !.due = Taken])
    /\ UNCHANGED <<basket, pairing, credits, phones, dead, crossed, excused>>

\* Mutant: every round credits what it finds.
AgainAndAgain(r) == effects[r].due

\* attributed_upsell_targets: without what was already banked.
NotBanked(r) == {d \in effects[r].due : credits[d] = 0}

ReadCredits(r) ==
    /\ effects[r].at = "pairs"
    /\ Becomes(r, [effects[r] EXCEPT !.at = "due", !.due = NotBanked(r)])
    /\ crossed' = (crossed \/ \E q \in Rounds \ {r} :
                       effects[q].at = "due" /\ effects[q].due \cap NotBanked(r) # {})
    /\ UNCHANGED <<basket, pairing, credits, phones, dead, excused>>

\* Mutant: the task of a later round only notifies.
FirstRoundOnly(r) == IF effects[r].first THEN effects[r].due ELSE {}

Credited(r) == effects[r].due

\* log_order_upsells and the commit; the first round logs ORDER_PLACED with it.
CommitCredits(r) ==
    /\ effects[r].at = "due"
    /\ credits' = [d \in Plates |-> IF d \in Credited(r) THEN credits[d] + 1
                                    ELSE credits[d]]
    /\ Becomes(r, [effects[r] EXCEPT !.at = "notify", !.due = {}])
    /\ UNCHANGED <<basket, pairing, phones, dead, crossed, excused>>

\* _safe_track_order and _safe_track_upsells swallow any error.
TrackingFails(r) ==
    /\ effects[r].at \in {"queued", "pairs", "due"}
    /\ Becomes(r, [effects[r] EXCEPT !.at = "notify", !.due = {}])
    /\ excused' = TRUE
    /\ UNCHANGED <<basket, pairing, credits, phones, dead, crossed>>

\* send_to_restaurant reads the endpoints, sends, and deletes those that are gone.
SendPush(r) ==
    /\ effects[r].at = "notify"
    /\ Becomes(r, [effects[r] EXCEPT !.at = "sending", !.batch = phones])
    /\ UNCHANGED <<basket, pairing, credits, phones, dead, crossed, excused>>

PruneGone(r) ==
    /\ effects[r].at = "sending"
    /\ phones' = phones \ (effects[r].batch \cap dead)
    /\ Becomes(r, [NoEffect EXCEPT !.at = "over"])
    /\ UNCHANGED <<basket, pairing, credits, dead, crossed, excused>>

EffectStep(r) ==
    \/ ReadPairs(r)
    \/ ReadCredits(r)
    \/ CommitCredits(r)
    \/ TrackingFails(r)
    \/ SendPush(r)
    \/ PruneGone(r)

\* The process ends between the commit and the end of a task.
LoseEffects ==
    /\ \E r \in Rounds : effects[r].at \notin {"off", "over"}
    /\ effects' = [r \in Rounds |-> IF effects[r].at = "off" THEN NoEffect
                                    ELSE [NoEffect EXCEPT !.at = "over"]]
    /\ excused' = TRUE
    /\ UNCHANGED <<basket, pairing, credits, phones, dead, crossed>>

\* set_upsells, while the guests eat.
EditPairs ==
    /\ basket # {}
    /\ \E d \in Plates, want \in SUBSET Plates :
           pairing' = {p \in pairing : p[1] # d} \cup ({d} \X (want \ {d}))
    /\ excused' = TRUE
    /\ UNCHANGED <<basket, effects, credits, phones, dead, crossed>>

\* PushService.subscribe and unsubscribe; a browser drops a subscription.
Subscribe(p) ==
    /\ p \notin phones \cup dead
    /\ phones' = phones \cup {p}
    /\ UNCHANGED <<basket, pairing, effects, credits, dead, crossed, excused>>

Unsubscribe(p) ==
    /\ p \in phones
    /\ phones' = phones \ {p}
    /\ UNCHANGED <<basket, pairing, effects, credits, dead, crossed, excused>>

PhoneGone(p) ==
    /\ p \notin dead
    /\ dead' = dead \cup {p}
    /\ UNCHANGED <<basket, pairing, effects, credits, phones, crossed, excused>>

EventsStep ==
    \/ \E r \in Rounds : RoundCommits(r) \/ EffectStep(r)
    \/ LoseEffects
    \/ EditPairs
    \/ \E p \in Phones : Subscribe(p) \/ Unsubscribe(p) \/ PhoneGone(p)

EventsSpec == EventsInit /\ [][EventsStep]_eventVars

\* A background task is run by the event loop until it ends.
EffectsRun == \A r \in Rounds : WF_eventVars(EffectStep(r))

-----------------------------------------------------------------------------
(* Properties. *)

EventsTypeOK ==
    /\ basket \subseteq Plates
    /\ pairing \subseteq Plates \X Plates
    /\ effects \in [Rounds -> Effect]
    /\ credits \in [Plates -> 0..Cardinality(Rounds)]
    /\ phones \subseteq Phones /\ dead \subseteq Phones
    /\ crossed \in BOOLEAN /\ excused \in BOOLEAN

\* A suggestion is credited once per ticket over all its rounds, unless the tasks
\* of two rounds had both read before either wrote (attributed_upsell_targets:
\* "without double-counting what was already banked").
AttributedOnce == crossed \/ \A d \in Plates : credits[d] <= 1

\* A suggestion that ends up on the ticket, in whichever round and in whatever
\* order the tasks run, is credited, unless tracking failed, the process ended
\* or the owner edited the pairs (log_order_upsells runs for every round).
SuggestionsAreCredited ==
    \A d \in Plates : d \in Taken ~> (credits[d] > 0 \/ excused)
=============================================================================
