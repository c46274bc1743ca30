-------------------------------- MODULE Bill --------------------------------
(***************************************************************************)
(* The amounts of one ticket: what app/services/order.py computes when a   *)
(* round is placed or added, and app/services/offer_discount.py when it    *)
(* comes with a coupon.  Money is counted in its smallest unit, so that    *)
(* rounding to two places shows only where a percentage is taken.  Sizes   *)
(* and add-ons make one more meal with a price of its own; the tax of a    *)
(* ticket is never set.  A size may lower the price of its dish without    *)
(* bound, so a line may count against the bill; what the database refuses  *)
(* is a ticket with a negative total.                                      *)
(***************************************************************************)
EXTENDS Integers, FiniteSets, FiniteSetsExt, Functions

CONSTANTS
    Meals,     \* what a line can be of: a dish, its size, its add-ons
    Prices,    \* what a meal may cost with its size and add-ons
    MaxPlates, \* bound on the plates of one round
    MaxRounds, \* bound on the rounds of a ticket
    Offers     \* the offers that may be live when a coupon is entered

OfferKind == {"percent", "flat", "bogo", "bundle"}  \* bundle: combo, happy
                                                    \* hour, special day

ASSUME BillAssumption ==
    /\ IsFiniteSet(Meals)
    /\ Prices \subseteq Int /\ MaxPlates \in Nat /\ MaxRounds \in Nat
    /\ \A o \in Offers : /\ o.kind \in OfferKind /\ o.value \in Nat
                         /\ o.minItems \in Nat \ {0} /\ o.minSpend \in Nat

VARIABLES
    price,   \* the menu
    lines,   \* order_items: the snapshot of the price, quantity and subtotal
    bill,    \* the amounts of the orders row
    rounds   \* how many rounds were placed

billVars == <<price, lines, bill, rounds>>

NoLine == [price |-> 0, quantity |-> 0, subtotal |-> 0]

BillInit ==
    /\ price \in [Meals -> Prices]
    /\ lines = [m \in Meals |-> NoLine]
    /\ bill = [subtotal |-> 0, discount |-> 0, total |-> 0]
    /\ rounds = 0

Round == [Meals -> 0..MaxPlates] \ {[m \in Meals |-> 0]}

\* _build_items: the prices of now.
Built(round) ==
    [m \in Meals |-> IF round[m] = 0 THEN NoLine
                     ELSE [price |-> price[m], quantity |-> round[m],
                           subtotal |-> price[m] * round[m]]]

Subtotal(ls) == SumFunction([m \in Meals |-> ls[m].subtotal])
Quantity(ls) == SumFunction([m \in Meals |-> ls[m].quantity])

\* _money rounds half up; a negative amount does not get this far.
Percent(amount, value) == (amount * value + 50) \div 100

Reduction(offer, ls) ==
    CASE offer.kind = "percent" -> Percent(Subtotal(ls), offer.value)
      [] offer.kind \in {"flat", "bundle"} -> offer.value
      [] offer.kind = "bogo" ->
             Min({ls[m].price : m \in {x \in Meals : ls[x].quantity > 0}})

\* compute_discount refuses a coupon that has nothing to say on this round.
Applies(offer, ls) ==
    /\ Quantity(ls) >= offer.minItems
    /\ offer.kind = "bogo" => Quantity(ls) >= 2
    /\ Subtotal(ls) >= offer.minSpend
    /\ Reduction(offer, ls) > 0

Discount(offer, ls) == Min({Reduction(offer, ls), Subtotal(ls)})

Amounts(ls, discount) ==
    [subtotal |-> Subtotal(ls), discount |-> discount,
     total |-> Subtotal(ls) - discount]

\* ck_orders_total_nonneg, on which a round that lowers the bill too far is rolled
\* back.
Accepted(b) == b.total >= 0

\* create_order, with or without a coupon.
PlaceRound(round) ==
    /\ rounds = 0 /\ MaxRounds > 0
    /\ lines' = Built(round)
    /\ \/ bill' = Amounts(lines', 0)
       \/ \E offer \in Offers : /\ Applies(offer, lines')
                                /\ bill' = Amounts(lines', Discount(offer, lines'))
    /\ Accepted(bill')
    /\ rounds' = 1
    /\ UNCHANGED price

\* Mutant: more of a line is added at the price of now.
AddedAtPriceOfNow(round) ==
    LET incoming == Built(round)
    IN  [m \in Meals |->
            IF lines[m].quantity = 0 THEN incoming[m]
            ELSE [lines[m] EXCEPT !.quantity = @ + round[m],
                                  !.subtotal = @ + incoming[m].subtotal]]

\* _merge_items: more of a line is charged at the price of the line.
Merged(round) ==
    LET incoming == Built(round)
    IN  [m \in Meals |->
            IF lines[m].quantity = 0 THEN incoming[m]
            ELSE [lines[m] EXCEPT
                     !.quantity = @ + round[m],
                     !.subtotal = lines[m].price * (lines[m].quantity + round[m])]]

\* _append_to_order: the coupon of a later round is not looked at.
AddRound(round) ==
    /\ rounds \in 1..(MaxRounds - 1)
    /\ lines' = Merged(round)
    /\ bill' = Amounts(lines', bill.discount)
    /\ Accepted(bill')
    /\ rounds' = rounds + 1
    /\ UNCHANGED price

\* update_item.
EditPrice(m) ==
    /\ price' \in {[price EXCEPT ![m] = p] : p \in Prices}
    /\ UNCHANGED <<lines, bill, rounds>>

BillStep ==
    \/ \E round \in Round : PlaceRound(round) \/ AddRound(round)
    \/ \E m \in Meals : EditPrice(m)

BillSpec == BillInit /\ [][BillStep]_billVars

-----------------------------------------------------------------------------
(* Properties. *)

BillTypeOK ==
    /\ price \in [Meals -> Prices]
    /\ lines \in [Meals -> [price : Int, quantity : Nat, subtotal : Int]]
    /\ bill \in [subtotal : Nat, discount : Nat, total : Nat]
    /\ rounds \in 0..MaxRounds

\* The bill adds up whatever the owner changed between two rounds, whatever coupon
\* came with the first and however a cheap size lowered it: every line is charged
\* at the price it was first ordered at, a coupon takes off no more than the bill
\* and never adds to it, and no round makes the venue owe (_merge_items, the tests
\* and min() of compute_discount, ck_orders_total_nonneg).
BillAddsUp ==
    /\ \A m \in Meals : lines[m].subtotal = lines[m].price * lines[m].quantity
    /\ bill.subtotal = Subtotal(lines)
    /\ 0 <= bill.discount /\ bill.discount <= bill.subtotal
    /\ bill.total + bill.discount = bill.subtotal
=============================================================================
