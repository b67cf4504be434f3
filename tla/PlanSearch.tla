------------------------------- MODULE PlanSearch -------------------------------
(***************************************************************************)
(* The deterministic plan engine: generate schedules the slots, keeps the  *)
(* recipes that fit each, seeds a plan greedily, improves it by swapping   *)
(* one recipe at a time, and does so again from a cheap seed when the      *)
(* result is over the budget (cestaplan_engine/facade.py, optimizer.py,    *)
(* provisioning.py, pricing.py).                                           *)
(*                                                                         *)
(* One behaviour is one call of generate on one problem.  A step is one    *)
(* slot of one pass of the search.  The order in which a slot's recipes    *)
(* are tried is a seeded shuffle: any order here.                          *)
(***************************************************************************)
EXTENDS Integers, Sequences, FiniteSets, FiniteSetsExt, PlanScore, MealSchedule

CONSTANTS
    Problems,         \* the problems given to generate_plan
    MaxPasses         \* PlanOptimizer.max_passes

(* A problem is well formed: quantities, prices and identifiers are        *)
(* numbers, the pantry knows every ingredient that a recipe names.         *)
WellFormed(p) ==
    /\ p.requirements \in Seq(Requirement) /\ p.days \in Nat \ {0}
    /\ \A k \in DOMAIN p.requirements : IsFiniteSet(p.requirements[k].selected)
    /\ DOMAIN p.recipes = 1 .. Len(p.recipes) /\ Len(p.recipes) \in Nat
    /\ \A r \in DOMAIN p.recipes :
          /\ p.recipes[r].needs \in Seq([name : DOMAIN p.pantry, quantity : Nat])
          /\ p.recipes[r].taste \in Int
    /\ \A g \in DOMAIN p.pantry : p.pantry[g] \in Nat
    /\ \A g \in DOMAIN p.catalog : \A o \in p.catalog[g].packages :
          o.id \in Nat /\ o.quantity \in Nat /\ o.price \in Nat
    /\ NoProduct \notin DOMAIN p.catalog \cup DOMAIN p.pantry
    /\ p.amount \in Nat /\ p.margin \in Nat

ASSUME SearchAssumption ==
    /\ MaxPasses \in Nat \ {0}
    /\ \A p \in Problems : WellFormed(p)

VARIABLES
    problem,
    slots,      \* what schedule returned
    feasible,   \* slot -> its recipes
    phase,      \* start, variety and budget (the two searches), done
    chosen,     \* the plan of the search under way
    slot,       \* the slot to look at next
    pass,
    improved,   \* a swap was accepted in this pass
    cheapest,   \* _cheapest_assignment; <<>> before the first
    variety,    \* the plan of the first search, while the second runs
    outcome     \* none, missing, over_budget, plan

vars == <<problem, slots, feasible, phase, chosen, slot, pass, improved, cheapest,
          variety, outcome>>

(* _track_cheapest over the plans tried, in some order.                    *)
Track(tried) ==
    IF cheapest # <<>> /\ \A p \in tried : Cost(problem, cheapest) <= Cost(problem, p)
    THEN {cheapest}
    ELSE {p \in tried : \A q \in tried : Cost(problem, p) <= Cost(problem, q)}

-----------------------------------------------------------------------------
Init ==
    /\ problem \in Problems
    /\ slots = Schedule(problem.requirements, problem.days)
    /\ feasible = [n \in DOMAIN slots |-> Fitting(problem, slots[n])]
    /\ phase = "start"
    /\ chosen = <<>>
    /\ slot = 1
    /\ pass = 1
    /\ improved = FALSE
    /\ cheapest = <<>>
    /\ variety = <<>>
    /\ outcome = "none"

Missing == \E n \in DOMAIN slots : feasible[n] = {}

(* A meal type that no recipe fits, or no meals at all (_empty_plan).      *)
Trivial ==
    /\ phase = "start"
    /\ Missing \/ slots = <<>>
    /\ phase' = "done"
    /\ outcome' = IF Missing THEN "missing" ELSE "plan"
    /\ UNCHANGED <<problem, slots, feasible, chosen, slot, pass, improved, cheapest, variety>>

Seed(plan) ==
    /\ chosen' = plan
    /\ cheapest' \in Track({plan})
    /\ slot' = 1
    /\ pass' = 1
    /\ improved' = FALSE

Begin ==
    /\ phase = "start"
    /\ ~Missing /\ slots # <<>>
    /\ phase' = "variety"
    /\ Seed(Greedy(problem, feasible, FALSE))
    /\ UNCHANGED <<problem, slots, feasible, variety, outcome>>

Others(n) == feasible[n] \ {chosen[n]}

(* A slot whose recipes are all tried in vain.                             *)
Keep ==
    /\ phase \in {"variety", "budget"}
    /\ slot <= Len(slots)
    /\ \A r \in Others(slot) : ~Better(problem, chosen, slot, r)
    /\ cheapest' \in Track({Swap(chosen, slot, r) : r \in Others(slot)})
    /\ slot' = slot + 1
    /\ UNCHANGED <<problem, slots, feasible, phase, chosen, pass, improved, variety, outcome>>

(* The first recipe that is better ends the loop over the slot's recipes.  *)
Improve ==
    /\ phase \in {"variety", "budget"}
    /\ slot <= Len(slots)
    /\ \E r \in Others(slot) :
        /\ Better(problem, chosen, slot, r)
        /\ \E before \in SUBSET {q \in Others(slot) : ~Better(problem, chosen, slot, q)} :
              cheapest' \in Track({Swap(chosen, slot, q) : q \in before \cup {r}})
        /\ chosen' = Swap(chosen, slot, r)
    /\ improved' = TRUE
    /\ slot' = slot + 1
    /\ UNCHANGED <<problem, slots, feasible, phase, pass, variety, outcome>>

StopEarly == pass >= 1         \* fault: one pass and no more

LastPass == ~improved \/ pass = MaxPasses

NextPass ==
    /\ phase \in {"variety", "budget"}
    /\ slot > Len(slots)
    /\ ~LastPass
    /\ slot' = 1
    /\ pass' = pass + 1
    /\ improved' = FALSE
    /\ UNCHANGED <<problem, slots, feasible, phase, chosen, cheapest, variety, outcome>>

Finish(plan, result) ==
    /\ phase' = "done"
    /\ chosen' = plan
    /\ outcome' = result
    /\ UNCHANGED <<problem, slots, feasible, slot, pass, improved, cheapest>>

SearchEnds(p) == phase = p /\ slot > Len(slots) /\ LastPass

(* The plan fits the budget.                                               *)
Accept ==
    /\ SearchEnds("variety") \/ SearchEnds("budget")
    /\ Cost(problem, chosen) <= Limit(problem)
    /\ Finish(chosen, "plan")
    /\ variety' = <<>>

(* The second search, from the cheap seed.                                 *)
Reseed ==
    /\ SearchEnds("variety")
    /\ Cost(problem, chosen) > Limit(problem)
    /\ phase' = "budget"
    /\ variety' = chosen
    /\ Seed(Greedy(problem, feasible, TRUE))
    /\ UNCHANGED <<problem, slots, feasible, outcome>>

(* InfeasibleResult, with the cost of cheapest as min_budget_found.        *)
GiveUp ==
    /\ SearchEnds("budget")
    /\ Cost(problem, chosen) > Limit(problem)
    /\ Finish(variety, "over_budget")
    /\ variety' = <<>>

Next == Trivial \/ Begin \/ Keep \/ Improve \/ NextPass \/ Accept \/ Reseed \/ GiveUp

Spec == Init /\ [][Next]_vars

-----------------------------------------------------------------------------
(* Properties.                                                             *)

(* "a feasible plan is never reported infeasible ... (cheapest_cost >      *)
(* limit then)" (optimizer.py) holds of the plans that were tried, unless  *)
(* the cheapest of them has a rejected dish, which weighs more than any    *)
(* excess: min_budget_found is over the limit, and the user is not told    *)
(* that the budget would do.  Tracked plans come from both searches, from  *)
(* seeds and from swaps that were not accepted.                            *)
MinimumIsOverLimit ==
    outcome = "over_budget" /\ RejectedIn(problem, cheapest) = {}
        => Cost(problem, cheapest) > Limit(problem)

(* The plan that is handed out is a local optimum of the score, unless the *)
(* passes ran out: `improved` and the break out of a slot's loop let no    *)
(* better swap slip by, whatever the shuffles.                             *)
LocallyOptimal ==
    outcome = "plan" /\ (~improved \/ pass < MaxPasses) =>
        \A n \in 1 .. Len(slots) : \A r \in Others(n) : ~Better(problem, chosen, n, r)

(* Of every product that can be bought, the packages and the pantry cover  *)
(* what the plan uses, with one package less they would not, and nothing   *)
(* is bought that the pantry has.  Ingredients that are bought as one      *)
(* product share a line: no demand is lost with it.                        *)
WholePackages ==
    LET lines == Provision(problem, chosen)
        demand == Demand(problem, chosen)
    IN /\ \A l \in lines : l.package > 0 =>
            /\ l.bought + l.pantry - l.leftover = l.needed
            /\ l.leftover \in 0 .. l.package - 1
       /\ MapThenSumSet(LAMBDA l : l.needed, lines)
            = MapThenSumSet(LAMBDA k : demand[k].quantity, DOMAIN demand)

(* A coverage of "complete" says that the total is the price of the whole  *)
(* plan: no line is missing, expired or estimated, though the total sums   *)
(* lines that cost nothing because no product was found.                   *)
CompleteIsExact ==
    LET lines == Provision(problem, chosen)
    IN Coverage(lines) = "complete" =>
        /\ Estimated(lines) = 0
        /\ \A l \in lines : l.package > 0 /\ ~l.expired

(* The allergens of the product l is bought as and those of the members    *)
(* are apart, whichever spellings the label and the members use.           *)
SafeLine(l) ==
    \A a \in problem.catalog[l.product].allergens :
        \A m \in problem.members : \A b \in m.allergens :
            Lookup(AllergenCanon, a, a) # Lookup(AllergenCanon, b, b)

(* Allergens are "a HARD, non-relaxable safety constraint" (validators.py).*)
(* Recipes are judged before the search, by the products of their          *)
(* ingredients' own names; products are found after it, and merged into    *)
(* lines.  Nothing that is bought under its own name carries an allergen   *)
(* of a member.                                                            *)
OwnNamesAreSafe ==
    \A l \in Provision(problem, chosen) : l.product = l.name => SafeLine(l)

(* "Produces EXACTLY sum(requested_count) slots" (scheduling.py), though   *)
(* two requirements may name one meal type: of each type as many as its    *)
(* requirements ask for together, in order, each slot on a day that the    *)
(* requirement it comes from allows, and spread over the range evenly when *)
(* nothing else was asked.                                                 *)
Allowed(req, n) ==
    IF req.selected # {} THEN req.selected
    ELSE IF req.preferred \cap (1 .. n) # {} THEN req.preferred \cap (1 .. n)
    ELSE 1 .. n

OnlyOfType(reqs, k) == \A j \in DOMAIN reqs : reqs[j].type = reqs[k].type => j = k

SlotsOn(t, d) == Cardinality({n \in DOMAIN slots : slots[n].type = t /\ slots[n].date = d})

ExactlyRequested ==
    LET reqs == problem.requirements
        count == [k \in DOMAIN reqs |-> reqs[k].count]
    IN /\ \A n \in 2 .. Len(slots) : ~Earlier(slots[n], slots[n - 1])
       /\ \A t \in DOMAIN MealOrder :
             Cardinality({n \in DOMAIN slots : slots[n].type = t})
                = MapThenSumSet(LAMBDA k : count[k], {k \in DOMAIN reqs : reqs[k].type = t})
       /\ \A n \in DOMAIN slots : \E k \in DOMAIN reqs :
             /\ slots[n].type = reqs[k].type /\ slots[n].limit = reqs[k].limit
             /\ slots[n].date \in Allowed(reqs[k], problem.days)
       /\ \A k \in DOMAIN reqs :
             /\ reqs[k].auto /\ reqs[k].selected = {} /\ reqs[k].preferred = {}
             /\ OnlyOfType(reqs, k)
             => \A d, e \in 1 .. problem.days :
                   SlotsOn(reqs[k].type, d) <= SlotsOn(reqs[k].type, e) + 1

=============================================================================
