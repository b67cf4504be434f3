SPECIFICATION Spec
CONSTANTS
    Problems <- MCProblems
    MaxPasses = 4
    WWaste = 2
    WCost = 3
    WRepetition = 24
    WPantry = 2
    WRejected = 10000
    BudgetPenalty = 200
    AllergenCanon <- MCAllergenCanon
    DietAliases <- MCDietAliases
    RestrictionForbidden <- MCRestrictionForbidden
    CategoryForbids <- MCCategoryForbids
    NoGroup = NoGroup
    NoProduct = NoProduct
    binder = binder
INVARIANT MinimumIsOverLimit
INVARIANT LocallyOptimal
INVARIANT WholePackages
INVARIANT CompleteIsExact
INVARIANT ExactlyRequested
INVARIANT OwnNamesAreSafe
CHECK_DEADLOCK FALSE
