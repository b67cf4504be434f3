------------------------------- MODULE PlanScore -------------------------------
(***************************************************************************)
(* The arithmetic of the plan engine: what a plan costs, how much of that  *)
(* is known, and its score (cestaplan_engine/provisioning.py, pricing.py,  *)
(* and the scoring half of optimizer.py).                                  *)
(*                                                                         *)
(* Of a problem p (see RecipeFilter) these are used too:                   *)
(*   recipes[r].taste     time and soft preferences less favourites,       *)
(*                        weighted                                         *)
(*   pantry               ingredient -> quantity at home, not expired      *)
(*   rejected             rejected_recipe_ids of the members               *)
(*   amount, margin       the budget; margin is 0 when it is strict        *)
(*   byPrice              priority is "price"                              *)
(* A plan is a sequence of recipes, one per slot.  Quantities and money    *)
(* are whole numbers of a small unit; \div drops what Decimal would keep.  *)
(* Nutrition targets are left out: without one their term is 0.            *)
(***************************************************************************)
EXTENDS Integers, Sequences, FiniteSets, FiniteSetsExt, Packaging, RecipeFilter

CONSTANTS
    WRepetition, WPantry, WRejected,   \* ScoringWeights
    BudgetPenalty                      \* _BUDGET_PENALTY

ASSUME ScoreAssumption ==
    WRepetition \in Int /\ WPantry \in Int /\ WRejected \in Nat /\ BudgetPenalty \in Int

Limit(p) == p.amount + p.margin

-----------------------------------------------------------------------------
(* Provisioner.provision.  A line sums what is bought as one product; its  *)
(* name, and with it the share of the pantry, is that of the first         *)
(* ingredient that asked for the product.                                  *)

Demand(p, plan) == FlattenSeq([n \in DOMAIN plan |-> p.recipes[plan[n]].needs])

LineKey(p, g) ==
    LET match == Match(p, g)
    IN IF match = NoProduct THEN [id |-> 0, name |-> g]
       ELSE [id |-> p.catalog[match].id, name |-> NoProduct]

PantryUsed(p, g, needed) == IF needed <= p.pantry[g] THEN needed ELSE p.pantry[g]

(* A line without a product or a usable package costs nothing.             *)
Priceless == [bought |-> 0, leftover |-> 0, subtotal |-> 0, known |-> FALSE,
              expired |-> FALSE, package |-> 0]

Priced(pending, option) ==
    LET purchase == Purchase(pending, option)
    IN [bought |-> purchase.bought, leftover |-> purchase.leftover,
        subtotal |-> purchase.cost, known |-> PriceKnown(option),
        expired |-> option.expired, package |-> option.quantity]

Entry(g, match, needed, pantry, bill) ==
    [name |-> g, product |-> match, needed |-> needed, pantry |-> pantry,
     bought |-> bill.bought, leftover |-> bill.leftover, subtotal |-> bill.subtotal,
     known |-> bill.known, expired |-> bill.expired, package |-> bill.package]

Line(p, g, needed) ==
    LET match == Match(p, g)
        packages == IF match = NoProduct THEN {} ELSE p.catalog[match].packages
        pantry == IF packages = {} THEN 0 ELSE PantryUsed(p, g, needed)
        pending == Pending(needed, pantry)
    IN Entry(g, match, needed, pantry,
             IF Usable(packages) = {} THEN Priceless
             ELSE Priced(pending, Choose(pending, packages)))

FirstOnly(keys, k, quantity) == quantity[k]   \* fault: a merged line forgets the others

Merged(keys, k, quantity) ==
    MapThenSumSet(LAMBDA j : quantity[j], {j \in DOMAIN keys : keys[j] = keys[k]})

Provision(p, plan) ==
    LET demand == Demand(p, plan)
        keys == [k \in DOMAIN demand |-> LineKey(p, demand[k].name)]
        quantity == [k \in DOMAIN demand |-> demand[k].quantity]
    IN {Line(p, demand[k].name, Merged(keys, k, quantity)) :
            k \in {i \in DOMAIN keys : \A j \in 1 .. i - 1 : keys[j] # keys[i]}}

Total(lines) == MapThenSumSet(LAMBDA l : l.subtotal, lines)

Estimated(lines) == Total({l \in lines : ~l.known})

Cost(p, plan) == Total(Provision(p, plan))

(* compute_coverage and _status.  high, partial and insufficient depend on *)
(* the share of the value that is known.                                   *)
PricedLinesLoose(lines) ==  \* fault: an estimated line counts as priced
    {l \in lines : l.subtotal > 0 \/ l.known}

PricedLines(lines) == {l \in lines : l.known}

KnownShare(lines, tenths) ==
    Total(lines) > 0 /\ 10 * (Total(lines) - Estimated(lines)) >= tenths * Total(lines)

Coverage(lines) ==
    IF lines = {} THEN "complete"
    ELSE IF \E l \in lines : l.expired THEN "stale"
    ELSE IF PricedLines(lines) = {} THEN "none"
    ELSE IF PricedLines(lines) = lines THEN "complete"
    ELSE IF KnownShare(lines, 9) THEN "high"
    ELSE IF KnownShare(lines, 6) THEN "partial"
    ELSE "insufficient"

-----------------------------------------------------------------------------
(* PlanOptimizer._score.                                                   *)

WasteValue(lines) ==
    MapThenSumSet(LAMBDA l : (l.subtotal * l.leftover) \div l.bought,
                  {l \in lines : l.bought > 0})

(* k uses of a recipe count k (k - 1) / 2.                                 *)
Uses(plan, r) == Cardinality({n \in DOMAIN plan : plan[n] = r})
Repetition(p, plan) ==
    MapThenSumSet(LAMBDA r : (Uses(plan, r) * (Uses(plan, r) - 1)) \div 2, DOMAIN p.recipes)

RejectedIn(p, plan) == {n \in DOMAIN plan : plan[n] \in p.rejected}

OverLimitUncounted(p, lines) == 0   \* fault: the cap is not part of the score

OverLimit(p, lines) == IF Total(lines) > Limit(p) THEN Total(lines) - Limit(p) ELSE 0

Score(p, plan) ==
    LET lines == Provision(p, plan)
    IN WWaste * WasteValue(lines) + WRepetition * Repetition(p, plan)
        + MapThenSumSet(LAMBDA n : p.recipes[plan[n]].taste, DOMAIN plan)
        - WPantry * Cardinality({l \in lines : l.pantry > 0})
        + WRejected * Cardinality(RejectedIn(p, plan))
        + (IF p.byPrice THEN WCost * Total(lines) ELSE 0)
        + BudgetPenalty * OverLimit(p, lines)

(* _greedy: slot by slot, the recipe with the least partial cost or score. *)
Metric(p, plan, costOnly) == IF costOnly THEN Cost(p, plan) ELSE Score(p, plan)

Extend(p, plan, fits, costOnly) ==
    LET metric == [r \in fits |-> Metric(p, Append(plan, r), costOnly)]
    IN Append(plan,
        CHOOSE r \in fits : \A q \in fits : ~Before(<<metric[q], q>>, <<metric[r], r>>))

Greedy(p, feasible, costOnly) ==
    LET g[n \in 0 .. Len(feasible)] ==
            IF n = 0 THEN <<>> ELSE Extend(p, g[n - 1], feasible[n], costOnly)
    IN g[Len(feasible)]

Swap(plan, n, r) == [plan EXCEPT ![n] = r]

(* (tscore, recipe_id) < (best_score, current.recipe_id).                  *)
Better(p, plan, n, r) ==
    Before(<<Score(p, Swap(plan, n, r)), r>>, <<Score(p, plan), plan[n]>>)

=============================================================================
