------------------------------ MODULE RecipeFilter ------------------------------
(***************************************************************************)
(* Which recipes a household may be served and which product stands for an *)
(* ingredient (cestaplan_engine/validators.py, matching.py, facade.py).    *)
(*                                                                         *)
(* A problem p, the input of generate_plan, is a record; here are used:    *)
(*   recipes      the candidates, in order.  A recipe has needs, a sequence*)
(*                of [name, quantity] for the servings of a slot; types,   *)
(*                the meals it fits; minutes to make it; declared, its     *)
(*                allergens; tags; equipment                               *)
(*   catalog      ingredient -> its product [id, packages, allergens], for *)
(*                the ingredients that have one (_build_catalog)           *)
(*   group        ingredient -> its substitution group or NoGroup          *)
(*   words        ingredient -> the words of its canonical name            *)
(*   category     ingredient -> its category_code                          *)
(*   unassessed   the ingredients whose allergens nobody has looked at     *)
(*   members      of the household: allergens, strict (the serious ones),  *)
(*                restrictions                                             *)
(*   equipment    what the kitchen has                                     *)
(* Names, codes and tokens are lower-case strings already; the tables of   *)
(* validators.py are constants.                                            *)
(***************************************************************************)
EXTENDS Integers, Sequences, SequencesExt

CONSTANTS
    AllergenCanon,         \* _ALLERGEN_CANON: spelling -> code of the catalogue
    DietAliases,           \* _DIET_ALIASES: spelling -> diet
    RestrictionForbidden,  \* _RESTRICTION_FORBIDDEN: diet -> tokens
    CategoryForbids,       \* _CATEGORY_FORBIDS: category -> tokens
    NoGroup,
    NoProduct

(* dict.get(x, default).                                                   *)
Lookup(table, x, default) == IF x \in DOMAIN table THEN table[x] ELSE default

(* The codes of the catalogue are spelled as they are.                     *)
ASSUME CanonAssumption ==
    \A s \in DOMAIN AllergenCanon :
        Lookup(AllergenCanon, AllergenCanon[s], AllergenCanon[s]) = AllergenCanon[s]

Ingredients(recipe) == {recipe.needs[k].name : k \in DOMAIN recipe.needs}

-----------------------------------------------------------------------------
(* Validators.                                                             *)

CanonAsSpelled(codes) == codes     \* fault: plural and Spanish spellings not bridged

Canon(codes) == {Lookup(AllergenCanon, c, c) : c \in codes}

(* Of the product that bears the ingredient's own name.                    *)
OwnAllergens(p, g) == IF g \in DOMAIN p.catalog THEN p.catalog[g].allergens ELSE {}

DerivedAllergens(p, recipe) ==
    Canon(recipe.declared \cup UNION {OwnAllergens(p, g) : g \in Ingredients(recipe)})

HouseholdAllergens(p) == Canon(UNION {m.allergens : m \in p.members})

Serious(p) == \E m \in p.members : m.strict # {}

(* AllergenValidator.validate: fail-closed for serious allergies.          *)
AllergenValid(p, recipe) ==
    /\ DerivedAllergens(p, recipe) \cap HouseholdAllergens(p) = {}
    /\ Serious(p) => Ingredients(recipe) \cap p.unassessed = {}

(* Allergens are not put in their canonical spelling here.                 *)
DietTokens(p, recipe) ==
    recipe.tags \cup recipe.declared
        \cup UNION {{g} \cup p.words[g] \cup OwnAllergens(p, g)
                        \cup Lookup(CategoryForbids, p.category[g], {}) :
                    g \in Ingredients(recipe)}

(* A restriction is a diet, or else an ingredient to exclude.              *)
Allows(restriction, tokens) ==
    LET diet == Lookup(DietAliases, restriction, restriction)
    IN IF diet \in DOMAIN RestrictionForbidden
       THEN tokens \cap RestrictionForbidden[diet] = {}
       ELSE restriction \notin tokens

DietValid(p, recipe) ==
    \A m \in p.members : \A restriction \in m.restrictions :
        Allows(restriction, DietTokens(p, recipe))

Valid(p) ==
    {r \in DOMAIN p.recipes :
        /\ AllergenValid(p, p.recipes[r])
        /\ DietValid(p, p.recipes[r])
        /\ p.recipes[r].equipment \subseteq p.equipment}

(* The valid recipes for a slot; a limit of 0 minutes is none.             *)
Fitting(p, slot) ==
    {r \in Valid(p) :
        /\ slot.type \in p.recipes[r].types
        /\ slot.limit > 0 => p.recipes[r].minutes <= slot.limit}

-----------------------------------------------------------------------------
(* ProductMatcher.match: the ingredient whose product is bought for g.  A  *)
(* substitution group lists the ingredients of all candidates, rejected    *)
(* ones too, in the order in which they first occur (_substitution_groups);*)
(* the first that has a product stands for g.                              *)
Names(p) ==
    FlattenSeq([r \in DOMAIN p.recipes |->
        [k \in DOMAIN p.recipes[r].needs |-> p.recipes[r].needs[k].name]])

Substitutes(p, g, names) ==
    {k \in DOMAIN names :
        /\ p.group[g] # NoGroup /\ p.group[names[k]] = p.group[g]
        /\ names[k] \in DOMAIN p.catalog}

Match(p, g) ==
    LET names == Names(p)
        found == Substitutes(p, g, names)
    IN IF g \in DOMAIN p.catalog THEN g
       ELSE IF found = {} THEN NoProduct
       ELSE names[Min(found)]

=============================================================================
