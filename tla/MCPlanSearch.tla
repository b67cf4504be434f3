----------------------------- MODULE MCPlanSearch -----------------------------
(***************************************************************************)
(* Small problems for PlanSearch: four recipes over four ingredients, two  *)
(* to three meals.  Money and weights are in the same small unit, with the *)
(* proportions of ScoringWeights (waste 1, cost 1.5, repetition 12,        *)
(* pantry 1, here doubled), a budget penalty above all of them and a       *)
(* rejected dish above the penalty.                                        *)
(***************************************************************************)
EXTENDS PlanSearch

CONSTANT binder   \* a substitution group

MCAllergenCanon ==
    "soybeans" :> "soy" @@ "soja" :> "soy" @@ "eggs" :> "egg" @@ "milk" :> "milk"
MCDietAliases == "vegano" :> "vegan" @@ "omnivoro" :> ""
MCRestrictionForbidden == "vegan" :> {"meat", "milk", "egg", "eggs"}
MCCategoryForbids == "huevos" :> {"egg", "eggs"}

Format(id, quantity, price) ==
    [id |-> id, quantity |-> quantity, price |-> price,
     stock |-> TRUE, priced |-> TRUE, expired |-> FALSE]

Product(id, packages, allergens) ==
    [id |-> id, packages |-> packages, allergens |-> allergens]

(* Rice is dear, oil cheap, tofu spelled as its label has it.              *)
Staples ==
    "rice" :> Product(1, {Format(1, 4, 16)}, {}) @@ "oil" :> Product(2, {Format(2, 4, 4)}, {})
Tofu == "tofu" :> Product(5, {Format(5, 3, 9)}, {"soja"})
Egg(packages) == "egg" :> Product(3, packages, {"egg"})

Catalogs == {
    Staples @@ Tofu @@ Egg({Format(3, 6, 12), Format(4, 2, 6)}),    \* two formats
    Staples @@ Tofu @@ Egg({[Format(3, 6, 12) EXCEPT !.priced = FALSE], Format(4, 2, 6)}),
    Staples @@ Tofu @@ Egg({[Format(3, 6, 12) EXCEPT !.expired = TRUE]}),
    Staples @@ Tofu @@ Egg({[Format(3, 6, 12) EXCEPT !.priced = FALSE]}),
    Staples @@ Tofu @@ Egg({[Format(3, 6, 12) EXCEPT !.stock = FALSE], Format(4, 0, 6)}),
    Staples @@ Tofu @@ Egg({Format(4, 0, 6)}),                      \* no usable format
    Staples @@ Tofu,                                                \* tofu for egg
    Staples}                                                        \* neither

Group == "rice" :> NoGroup @@ "oil" :> NoGroup @@ "tofu" :> binder @@ "egg" :> binder
Words == [g \in DOMAIN Group |-> {g}]
Category == [g \in DOMAIN Group |-> IF g = "egg" THEN "huevos" ELSE "otros"]

Need(name, quantity) == [name |-> name, quantity |-> quantity]

Dish(types, minutes, needs, taste) ==
    [types |-> types, minutes |-> minutes, needs |-> needs, taste |-> taste,
     declared |-> {}, tags |-> {}, equipment |-> {}]

Menu == <<
    Dish({"lunch", "dinner"}, 20, <<Need("rice", 3)>>, 0),
    Dish({"lunch", "dinner"}, 20, <<Need("oil", 2), Need("egg", 1)>>, 2),
    [Dish({"dinner"}, 40, <<Need("oil", 2), Need("egg", 2), Need("rice", 2)>>, 1)
        EXCEPT !.equipment = {"oven"}],
    Dish({"lunch", "dinner"}, 20, <<Need("tofu", 2), Need("oil", 1)>>, 5)>>

Meals(type, count) ==
    [type |-> type, count |-> count, selected |-> {}, preferred |-> {}, auto |-> TRUE,
     limit |-> 0]

Requests == {
    <<Meals("dinner", 3)>>,
    <<[Meals("dinner", 2) EXCEPT !.limit = 30], Meals("lunch", 1)>>,
    <<[Meals("dinner", 2) EXCEPT !.auto = FALSE],
      [Meals("lunch", 1) EXCEPT !.preferred = {2, 9}]>>,
    <<[Meals("lunch", 3) EXCEPT !.selected = {2, 4}]>>,
    <<Meals("dinner", 1), [Meals("dinner", 1) EXCEPT !.limit = 30]>>,   \* a type twice
    <<Meals("breakfast", 1)>>,                                      \* no recipe fits
    <<Meals("lunch", 0)>>}

Member == [allergens |-> {}, strict |-> {}, restrictions |-> {}]

Households == {
    {Member},
    {Member, [Member EXCEPT !.allergens = {"soybeans"}]},
    {[Member EXCEPT !.allergens = {"milk"}, !.strict = {"milk"}]},
    {[Member EXCEPT !.restrictions = {"vegano", "omnivoro"}],
     [Member EXCEPT !.restrictions = {"rice"}]}}

Problem(requests, catalogs, pantries, households, rejections, amounts, priorities) ==
    {[requirements |-> requirements, days |-> 2, recipes |-> Menu, catalog |-> catalog,
      group |-> Group, words |-> Words, category |-> Category, unassessed |-> {"oil"},
      members |-> members, equipment |-> {"oven"}, pantry |-> pantry, rejected |-> rejected,
      amount |-> budget[1], margin |-> budget[2], byPrice |-> byPrice] :
        requirements \in requests, catalog \in catalogs, pantry \in pantries,
        members \in households, rejected \in rejections, budget \in amounts,
        byPrice \in priorities}

Pantry(rice, egg, tofu) == "rice" :> rice @@ "oil" :> 0 @@ "egg" :> egg @@ "tofu" :> tofu

(* What a plan costs, and who it is for, do not meet in the code: budgets  *)
(* for one household, households for one budget.                           *)
MCProblems ==
    Problem(Requests, Catalogs, {Pantry(0, 0, 0), Pantry(3, 2, 1)}, {{Member}}, {{}, {2}},
            {<<10, 0>>, <<20, 4>>, <<44, 0>>}, BOOLEAN)
    \cup Problem(Requests, Catalogs, {Pantry(3, 2, 1)}, Households, {{}}, {<<40, 0>>}, {FALSE})

=============================================================================
