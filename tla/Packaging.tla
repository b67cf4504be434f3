------------------------------- MODULE Packaging -------------------------------
(***************************************************************************)
(* Buying whole packages (cestaplan_engine/packaging.py, pantry.py): what  *)
(* the pantry leaves to buy, how many packages cover it, what they cost    *)
(* and leave over, and which package format is chosen.                     *)
(*                                                                         *)
(* Quantities are in one unit per ingredient and money in one currency;    *)
(* both are naturals, on which Decimal is exact (a quantity that was       *)
(* scaled by a rounded quotient of servings is not one).  A package option *)
(* is a record:                                                            *)
(*   id, quantity, price   product_id, package_quantity, amount            *)
(*   stock                 availability is not "out_of_stock"              *)
(*   priced, expired       has_price; expires_at has passed                *)
(***************************************************************************)
EXTENDS Integers

CONSTANTS
    WWaste,   \* ScoringWeights.waste
    WCost     \* ScoringWeights.cost

ASSUME WeightAssumption == WWaste \in Nat /\ WCost \in Nat

DivUp(pending, quantity) == pending \div quantity + 1   \* fault: rounds up too much

CeilDiv(pending, quantity) ==
    IF pending <= 0 THEN 0 ELSE (pending + quantity - 1) \div quantity

Pending(needed, available) == IF needed <= available THEN 0 ELSE needed - available

(* compute_packages.                                                       *)
Purchase(pending, option) ==
    LET packages == CeilDiv(pending, option.quantity)
    IN [packages |-> packages,
        bought |-> packages * option.quantity,
        leftover |-> packages * option.quantity - pending,
        cost |-> packages * option.price]

PriceKnown(option) == option.priced /\ ~option.expired

PackageScore(pending, option) ==
    WWaste * Purchase(pending, option).leftover + WCost * Purchase(pending, option).cost

(* The key of PackageOptimizer.choose, as numbers compared from the left.  *)
Key(pending, option) ==
    <<IF option.stock THEN 0 ELSE 1, IF PriceKnown(option) THEN 0 ELSE 1,
      PackageScore(pending, option), option.id, option.quantity>>

Before(k, l) == \E n \in DOMAIN k : k[n] < l[n] /\ \A m \in 1 .. n - 1 : k[m] = l[m]

Usable(options) == {o \in options : o.quantity > 0}

(* The first option with the least key; of options with one key, any.      *)
Choose(pending, options) ==
    CHOOSE o \in Usable(options) :
        \A p \in Usable(options) : ~Before(Key(pending, p), Key(pending, o))

=============================================================================
