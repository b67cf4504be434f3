--------------------------- MODULE PlanSearchProofs ---------------------------
(***************************************************************************)
(* What the plan engine promises for every problem, every weight and every *)
(* number of passes.                                                       *)
(***************************************************************************)
EXTENDS PlanSearch, FoldTheorems

-----------------------------------------------------------------------------
(* Whole packages: those bought cover what is pending, and one package     *)
(* less would not.                                                         *)
LEMMA CeilDivIsLeast ==
  ASSUME NEW pending \in Nat, NEW quantity \in Nat \ {0}
  PROVE  /\ CeilDiv(pending, quantity) \in Nat
         /\ CeilDiv(pending, quantity) * quantity - pending \in 0 .. quantity - 1
<1>1. CASE pending = 0
  BY <1>1 DEF CeilDiv
<1>2. CASE pending > 0
  <2> DEFINE total == pending + quantity - 1
             packages == total \div quantity
  <2>1. CeilDiv(pending, quantity) = packages
    BY <1>2 DEF CeilDiv
  <2>2. total \in Nat
    OBVIOUS
  <2>3. /\ packages \in Nat
        /\ total = quantity * packages + (total % quantity)
        /\ total % quantity \in 0 .. quantity - 1
    <3> HIDE DEF total
    <3> QED
      BY <2>2
  <2>4. packages * quantity = quantity * packages /\ packages * quantity \in Nat
    <3> HIDE DEF packages
    <3> QED
      BY <2>3
  <2>5. packages * quantity = pending + quantity - 1 - (total % quantity)
    <3> DEFINE product == packages * quantity
               rest == total % quantity
    <3>1. total = product + rest /\ product \in Nat /\ rest \in Nat
      BY <2>3, <2>4
    <3> HIDE DEF product, rest, packages
    <3>2. product = pending + quantity - 1 - rest
      BY <3>1
    <3> QED
      BY <3>2 DEF product, rest
  <2> QED
    <3> DEFINE product == packages * quantity
               rest == total % quantity
    <3>1. product = pending + quantity - 1 - rest /\ rest \in 0 .. quantity - 1
      BY <2>3, <2>5
    <3> HIDE DEF product, rest
    <3>2. product - pending \in 0 .. quantity - 1
      BY <3>1
    <3> QED
      BY <2>1, <2>3, <3>2 DEF product
<1> QED
  BY <1>1, <1>2

(* compute_packages: whatever a recipe needs and the pantry has, what is   *)
(* bought, together with the pantry's share, is what is needed and less    *)
(* than a package over.                                                    *)
THEOREM PurchaseIsExact ==
  ASSUME NEW needed \in Nat, NEW available \in Nat,
         NEW option, option.quantity \in Nat \ {0}
  PROVE  LET pending == Pending(needed, available)
             line == Purchase(pending, option)
             used == IF needed <= available THEN needed ELSE available
         IN /\ line.bought + used - line.leftover = needed
            /\ line.leftover \in 0 .. option.quantity - 1
            /\ pending = 0 => line.packages = 0
<1> DEFINE pending == Pending(needed, available)
           used == IF needed <= available THEN needed ELSE available
           packages == CeilDiv(pending, option.quantity)
           bought == packages * option.quantity
<1>1. pending \in Nat /\ pending + used = needed /\ used \in Nat
  BY DEF Pending
<1>2. packages \in Nat /\ bought - pending \in 0 .. option.quantity - 1
  BY <1>1, CeilDivIsLeast
<1>3. pending = 0 => packages = 0
  BY DEF CeilDiv
<1>4. bought \in Nat
  <2> HIDE DEF packages
  <2> QED
    BY <1>2
<1>5. bought + used - (bought - pending) = needed
  <2> HIDE DEF bought, used, pending
  <2> QED
    BY <1>1, <1>4
<1> QED
  BY <1>2, <1>3, <1>5 DEF Purchase

-----------------------------------------------------------------------------
(* What the filters let through.  None of the recipe's ingredients has a   *)
(* product of its own name with an allergen of a member, in any spelling,  *)
(* and none is unassessed if somebody's allergy is serious.                *)
SafeRecipe(p, r) ==
    \A g \in Ingredients(p.recipes[r]) :
        /\ g \in DOMAIN p.catalog =>
              \A a \in p.catalog[g].allergens : \A m \in p.members : \A b \in m.allergens :
                  Lookup(AllergenCanon, a, a) # Lookup(AllergenCanon, b, b)
        /\ (\E m \in p.members : m.strict # {}) => g \notin p.unassessed

LEMMA ValidIsSafe ==
  ASSUME NEW p, NEW r \in Valid(p)
  PROVE  SafeRecipe(p, r)
<1> SUFFICES ASSUME NEW g \in Ingredients(p.recipes[r])
             PROVE  /\ g \in DOMAIN p.catalog =>
                          \A a \in p.catalog[g].allergens :
                            \A m \in p.members : \A b \in m.allergens :
                              Lookup(AllergenCanon, a, a) # Lookup(AllergenCanon, b, b)
                    /\ (\E m \in p.members : m.strict # {}) => g \notin p.unassessed
  BY DEF SafeRecipe
<1>1. AllergenValid(p, p.recipes[r])
  BY DEF Valid
<1>2. (\E m \in p.members : m.strict # {}) => g \notin p.unassessed
  BY <1>1 DEF AllergenValid, Serious
<1>3. ASSUME g \in DOMAIN p.catalog, NEW a \in p.catalog[g].allergens,
             NEW m \in p.members, NEW b \in m.allergens
      PROVE  Lookup(AllergenCanon, a, a) # Lookup(AllergenCanon, b, b)
  <2>1. Lookup(AllergenCanon, a, a) \in DerivedAllergens(p, p.recipes[r])
    BY <1>3 DEF DerivedAllergens, OwnAllergens, Canon
  <2>2. Lookup(AllergenCanon, b, b) \in HouseholdAllergens(p)
    BY DEF HouseholdAllergens, Canon
  <2> QED
    BY <2>1, <2>2, <1>1 DEF AllergenValid
<1> QED
  BY <1>2, <1>3

(* At every moment of a search, whatever was tried and accepted, the       *)
(* recipes it may put in a slot are safe in that sense, and fit the slot's *)
(* meal and its limit of minutes.                                          *)
Servable ==
    \A n \in DOMAIN slots : \A r \in feasible[n] :
        /\ SafeRecipe(problem, r)
        /\ slots[n].type \in problem.recipes[r].types
        /\ slots[n].limit > 0 => problem.recipes[r].minutes <= slots[n].limit

(* generate_plan filters before the search and the search only takes from  *)
(* what was let through: for every problem, Servable always holds.         *)
THEOREM CandidatesAreSafe == Spec => []Servable
<1>1. Init => Servable
  BY ValidIsSafe DEF Init, Servable, Fitting
<1>2. Servable /\ [Next]_vars => Servable'
  <2> SUFFICES ASSUME Servable, [Next]_vars PROVE Servable'
    OBVIOUS
  <2>1. UNCHANGED <<problem, slots, feasible>>
    BY DEF Next, vars, Trivial, Begin, Keep, Improve, NextPass, Accept, Reseed, GiveUp,
           Finish
  <2> QED
    BY <2>1 DEF Servable, SafeRecipe
<1> QED
  BY <1>1, <1>2, PTL DEF Spec

-----------------------------------------------------------------------------
(* The schedule.                                                           *)

Slots == [date : Int, type : DOMAIN MealOrder, limit : Nat]

LEMMA NthIsDate ==
  ASSUME NEW dates, dates \subseteq Int, IsFiniteSet(dates),
         NEW n \in Nat, n < Cardinality(dates)
  PROVE  Nth(dates, n) \in dates
<1>1. PICK R : \A d, e \in dates : <<d, e>> \in R <=> d < e
  <2> DEFINE R == {d \in dates \X dates : d[1] < d[2]}
  <2>1. \A d, e \in dates : <<d, e>> \in R <=> d < e
    OBVIOUS
  <2> QED
    BY <2>1
<1>2. IsOrder(R, dates)
  BY <1>1 DEF IsOrder
<1>3. PICK d \in dates : Rank(R, dates, d) = n
  BY ONLY <1>2, IsFiniteSet(dates), n < Cardinality(dates), RankIsTaken
<1>4. {e \in dates : e < d} = {e \in dates : <<e, d>> \in R}
  BY <1>1
<1>5. Cardinality({e \in dates : e < d}) = n
  BY <1>3, <1>4 DEF Rank
<1> QED
  BY <1>5 DEF Nth

LEMMA CycleDates ==
  ASSUME NEW dates \in SUBSET Int, IsFiniteSet(dates), dates # {}, NEW count \in Nat,
         NEW i \in 1 .. count
  PROVE  Cycle(dates, count)[i] \in dates
<1>1. Cardinality(dates) \in Nat \ {0}
  BY FS_CardinalityType, FS_EmptySet
<1>2. (i - 1) % Cardinality(dates) \in Nat /\ (i - 1) % Cardinality(dates) < Cardinality(dates)
  BY <1>1
<1>3. Nth(dates, (i - 1) % Cardinality(dates)) \in dates
  BY <1>2, NthIsDate
<1> QED
  BY <1>3 DEF Cycle

LEMMA SpreadDates ==
  ASSUME NEW n \in Nat \ {0}, NEW count \in Nat, NEW i \in 1 .. count
  PROVE  Spread(n, count)[i] \in 1 .. n
<1> DEFINE m == (i - 1) * n
           d == m \div count
<1>1. m \in Nat /\ count \in Nat \ {0} /\ i - 1 \in Nat /\ i - 1 < count
  OBVIOUS
<1>2. m < n * count
  <2> DEFINE j == i - 1
  <2>1. j \in Nat /\ j < count /\ m = j * n
    BY <1>1
  <2> HIDE DEF j, m
  <2>2. j * n < count * n
    BY <2>1
  <2> QED
    BY <2>1, <2>2
<1>3. d \in Nat /\ d * count <= m
  <2> HIDE DEF m
  <2> QED
    BY <1>1
<1>4. d < n
  <2> HIDE DEF m, d
  <2> SUFFICES ASSUME n <= d PROVE FALSE
    BY <1>3
  <2>1. n * count <= d * count
    BY <1>1, <1>3
  <2> QED
    BY <1>1, <1>2, <1>3, <2>1
<1>5. Spread(n, count)[i] = d + 1
  BY DEF Spread
<1> HIDE DEF d
<1> QED
  BY <1>3, <1>4, <1>5

(* Every meal is on a day that the requirement allows.                     *)
LEMMA PickedIsAllowed ==
  ASSUME NEW req \in Requirement, IsFiniteSet(req.selected), NEW n \in Nat \ {0},
         NEW i \in 1 .. req.count
  PROVE  PickDates(req, n)[i] \in Allowed(req, n) /\ Allowed(req, n) \subseteq Int
<1> DEFINE wanted == req.preferred \cap (1 .. n)
<1>1. /\ req.count \in Nat /\ req.count # 0
      /\ req.selected \in SUBSET Int /\ req.preferred \in SUBSET Int
  BY DEF Requirement
<1>2. IsFiniteSet(1 .. n) /\ 1 .. n # {} /\ 1 .. n \in SUBSET Int
  <2>1. 1 \in Int /\ n \in Int /\ 1 \in 1 .. n /\ \A d \in 1 .. n : d \in Int
    OBVIOUS
  <2>2. IsFiniteSet(1 .. n)
    BY <2>1, FS_Interval
  <2> QED
    BY <2>1, <2>2
<1>3. IsFiniteSet(wanted) /\ wanted \in SUBSET Int
  BY <1>2, FS_Subset
<1>4. Allowed(req, n) \subseteq Int
  BY <1>1 DEF Allowed
<1>5. CASE req.selected # {}
  <2>1. PickDates(req, n) = Cycle(req.selected, req.count)
    BY <1>1, <1>5 DEF PickDates
  <2> QED
    BY <1>1, <1>4, <1>5, <2>1, CycleDates DEF Allowed
<1>6. CASE req.selected = {} /\ wanted # {}
  <2>1. PickDates(req, n) = Cycle(wanted, req.count) /\ Allowed(req, n) = wanted
    BY <1>1, <1>6 DEF PickDates, Allowed
  <2> HIDE DEF wanted
  <2> QED
    BY <1>1, <1>3, <1>4, <1>6, <2>1, CycleDates
<1>7. CASE req.selected = {} /\ wanted = {}
  <2>1. \/ PickDates(req, n) = Spread(n, req.count)
        \/ PickDates(req, n) = Cycle(1 .. n, req.count)
    BY <1>1, <1>7 DEF PickDates
  <2>2. Allowed(req, n) = 1 .. n
    BY <1>7 DEF Allowed
  <2>3. Spread(n, req.count)[i] \in 1 .. n /\ Cycle(1 .. n, req.count)[i] \in 1 .. n
    BY <1>1, <1>2, SpreadDates, CycleDates
  <2> QED
    BY <1>4, <2>1, <2>2, <2>3
<1> QED
  BY <1>5, <1>6, <1>7

LEMMA RequiredSlots ==
  ASSUME NEW req \in Requirement, IsFiniteSet(req.selected), NEW n \in Nat \ {0}
  PROVE  /\ SlotsOf(req, n) \in Seq(Slots) /\ DOMAIN SlotsOf(req, n) = 1 .. req.count
         /\ \A i \in 1 .. req.count :
               /\ SlotsOf(req, n)[i].type = req.type /\ SlotsOf(req, n)[i].limit = req.limit
               /\ SlotsOf(req, n)[i].date = PickDates(req, n)[i]
<1>1. req.count \in Nat /\ req.type \in DOMAIN MealOrder /\ req.limit \in Nat
  BY DEF Requirement
<1>2. \A i \in 1 .. req.count : PickDates(req, n)[i] \in Int
  BY PickedIsAllowed
<1>3. SlotsOf(req, n) \in [1 .. req.count -> Slots]
  BY <1>1, <1>2 DEF SlotsOf, Slots
<1>4. SlotsOf(req, n) \in Seq(Slots)
  BY <1>1, <1>3
<1> QED
  BY <1>3, <1>4 DEF SlotsOf

(* The sort key: the date, then the order of the meals.                    *)
LEMMA EarlierIsOrder ==
  /\ \A a \in Slots : ~Earlier(a, a)
  /\ \A a, b \in Slots : Earlier(a, b) => ~Earlier(b, a)
  /\ \A a, b, c \in Slots : Earlier(a, b) /\ Earlier(b, c) => Earlier(a, c)
  /\ \A a, b, c \in Slots : Earlier(a, c) => Earlier(a, b) \/ Earlier(b, c)
<1>1. \A t \in DOMAIN MealOrder : MealOrder[t] \in Int
  BY DEF MealOrder
<1>2. \A a \in Slots : a.date \in Int /\ MealOrder[a.type] \in Int
  BY <1>1 DEF Slots
<1> QED
  BY <1>2 DEF Earlier

LEMMA PlacesAreOrder ==
  ASSUME NEW s \in Seq(Slots)
  PROVE  \E R : /\ IsOrder(R, DOMAIN s)
                /\ \A i, j \in DOMAIN s : <<i, j>> \in R <=> Precedes(s, i, j)
                /\ \A i \in DOMAIN s : Place(s, i) = Rank(R, DOMAIN s, i) + 1
<1>1. \A i \in DOMAIN s : i \in Nat /\ s[i] \in Slots
  OBVIOUS
<1>2. PICK R : \A i, j \in DOMAIN s : <<i, j>> \in R <=> Precedes(s, i, j)
  <2> DEFINE R == {d \in (DOMAIN s) \X (DOMAIN s) : Precedes(s, d[1], d[2])}
  <2>1. \A i, j \in DOMAIN s : <<i, j>> \in R <=> Precedes(s, i, j)
    OBVIOUS
  <2> QED
    BY <2>1
<1>3. \A i \in DOMAIN s : ~Precedes(s, i, i)
  BY <1>1, EarlierIsOrder DEF Precedes
<1>4. ASSUME NEW i \in DOMAIN s, NEW j \in DOMAIN s, NEW k \in DOMAIN s,
             Precedes(s, i, j), Precedes(s, j, k)
      PROVE  Precedes(s, i, k)
  <2>1. s[i] \in Slots /\ s[j] \in Slots /\ s[k] \in Slots
    BY <1>1
  <2>2. CASE Earlier(s[i], s[j]) \/ Earlier(s[j], s[k])
    <3>1. Earlier(s[i], s[k])
      BY <1>4, <2>1, <2>2, EarlierIsOrder DEF Precedes
    <3> QED
      BY <3>1 DEF Precedes
  <2>3. CASE ~Earlier(s[i], s[j]) /\ ~Earlier(s[j], s[k])
    <3>1. ~Earlier(s[j], s[i]) /\ i < j /\ ~Earlier(s[k], s[j]) /\ j < k
      BY <1>4, <2>3 DEF Precedes
    <3>2. ~Earlier(s[k], s[i])
      BY <2>1, <3>1, EarlierIsOrder
    <3>3. i < k
      BY <1>1, <3>1
    <3> QED
      BY <3>2, <3>3 DEF Precedes
  <2> QED
    BY <2>2, <2>3
<1>5. \A i, j \in DOMAIN s : i # j => Precedes(s, i, j) \/ Precedes(s, j, i)
  <2>1. \A i, j \in Nat : i # j => i < j \/ j < i
    OBVIOUS
  <2> QED
    BY <1>1, <2>1 DEF Precedes
<1>6. IsOrder(R, DOMAIN s)
  BY <1>2, <1>3, <1>4, <1>5 DEF IsOrder
<1>7. ASSUME NEW i \in DOMAIN s PROVE Place(s, i) = Rank(R, DOMAIN s, i) + 1
  <2>1. {j \in DOMAIN s : Precedes(s, j, i)} = {j \in DOMAIN s : <<j, i>> \in R}
    BY <1>2
  <2> QED
    BY <2>1 DEF Place, Rank
<1> QED
  BY <1>2, <1>6, <1>7

(* The sort moves every slot to a place of its own, none after a later     *)
(* one.                                                                    *)
LEMMA SortMoves ==
  ASSUME NEW s \in Seq(Slots)
  PROVE  \E f \in Bijection(DOMAIN s, DOMAIN s) :
            /\ \A n \in DOMAIN s : Sorted(s)[n] = s[f[n]]
            /\ \A m, n \in DOMAIN s : m < n => ~Earlier(s[f[n]], s[f[m]])
<1> DEFINE D == DOMAIN s
           f == [n \in D |-> CHOOSE i \in D : Place(s, i) = n]
<1>1. /\ D = 1 .. Len(s) /\ Len(s) \in Nat /\ IsFiniteSet(D) /\ Cardinality(D) = Len(s)
      /\ \A n \in D : n \in Nat
  <2>1. D = 1 .. Len(s) /\ Len(s) \in Nat
    OBVIOUS
  <2>2. IsFiniteSet(1 .. Len(s)) /\ Cardinality(1 .. Len(s)) = Len(s)
    BY <2>1, FS_Interval
  <2> QED
    BY <2>1, <2>2
<1>2. PICK R : /\ IsOrder(R, D)
               /\ \A i, j \in D : <<i, j>> \in R <=> Precedes(s, i, j)
               /\ \A i \in D : Place(s, i) = Rank(R, D, i) + 1
  BY PlacesAreOrder
<1>3. \A i \in D : Rank(R, D, i) \in 0 .. Cardinality(D) - 1
  <2> HIDE DEF D
  <2> QED
    BY ONLY <1>1, <1>2, RanksAreOrder
<1>4. \A i, j \in D : <<i, j>> \in R => Rank(R, D, i) < Rank(R, D, j)
  <2> HIDE DEF D
  <2> QED
    BY ONLY <1>1, <1>2, RanksAreOrder
<1>5. ASSUME NEW n \in D PROVE f[n] \in D /\ Place(s, f[n]) = n
  <2>1. n - 1 \in Nat /\ n - 1 < Cardinality(D) /\ (n - 1) + 1 = n
    BY <1>1
  <2>2. \E i \in D : Rank(R, D, i) = n - 1
    <3> HIDE DEF D
    <3> QED
      BY ONLY <1>1, <1>2, <2>1, RankIsTaken
  <2>3. \E i \in D : Place(s, i) = n
    BY <1>2, <2>1, <2>2
  <2> QED
    BY <2>3
<1> HIDE DEF D, f
<1>6. f \in [D -> D]
  BY <1>5 DEF f
<1>7. \A m, n \in D : f[m] = f[n] => m = n
  BY <1>5
<1>8. f \in Injection(D, D)
  BY <1>6, <1>7 DEF Injection, IsInjective
<1>9. f \in Bijection(D, D)
  <2>1. f \in Surjection(D, D)
    BY <1>1, <1>8, FS_Injection
  <2> QED
    BY <1>8, <2>1 DEF Bijection
<1>10. ASSUME NEW m \in D, NEW n \in D, m < n PROVE ~Earlier(s[f[n]], s[f[m]])
  <2> SUFFICES ASSUME Earlier(s[f[n]], s[f[m]]) PROVE FALSE
    OBVIOUS
  <2>1. f[m] \in D /\ f[n] \in D /\ Place(s, f[m]) = m /\ Place(s, f[n]) = n
    BY <1>5
  <2>2. <<f[n], f[m]>> \in R
    BY <1>2, <2>1 DEF Precedes
  <2>3. Rank(R, D, f[n]) < Rank(R, D, f[m])
    BY <1>4, <2>1, <2>2
  <2>4. m = Rank(R, D, f[m]) + 1 /\ n = Rank(R, D, f[n]) + 1
    BY <1>2, <2>1
  <2>5. Rank(R, D, f[m]) \in Int /\ Rank(R, D, f[n]) \in Int
    BY <1>1, <1>3, <2>1
  <2> QED
    BY <1>10, <2>3, <2>4, <2>5
<1>11. \A n \in D : Sorted(s)[n] = s[f[n]]
  BY DEF Sorted, f, D
<1> QED
  BY <1>9, <1>10, <1>11 DEF D

LEMMA SortedIsSequence ==
  ASSUME NEW s \in Seq(Slots)
  PROVE  Sorted(s) \in Seq(Slots) /\ DOMAIN Sorted(s) = DOMAIN s
<1>1. PICK f \in Bijection(DOMAIN s, DOMAIN s) : \A n \in DOMAIN s : Sorted(s)[n] = s[f[n]]
  BY SortMoves
<1>2. f \in [DOMAIN s -> DOMAIN s]
  BY <1>1 DEF Bijection, Injection
<1>3. DOMAIN s = 1 .. Len(s) /\ Len(s) \in Nat /\ \A i \in DOMAIN s : s[i] \in Slots
  OBVIOUS
<1>4. Sorted(s) = [n \in DOMAIN s |-> s[f[n]]]
  <2>1. DOMAIN Sorted(s) = DOMAIN s /\ Sorted(s) = [n \in DOMAIN s |-> Sorted(s)[n]]
    BY DEF Sorted
  <2> QED
    BY <1>1, <2>1
<1>5. Sorted(s) \in [1 .. Len(s) -> Slots]
  BY <1>2, <1>3, <1>4
<1> QED
  BY <1>3, <1>4, <1>5

LEMMA SortedCounts ==
  ASSUME NEW s \in Seq(Slots), NEW X
  PROVE  Count(Sorted(s), X) = Count(s, X)
<1>1. PICK f \in Bijection(DOMAIN s, DOMAIN s) : \A n \in DOMAIN s : Sorted(s)[n] = s[f[n]]
  BY SortMoves
<1> DEFINE A == {n \in DOMAIN s : s[f[n]] \in X}
           B == {i \in DOMAIN s : s[i] \in X}
           g == [n \in A |-> f[n]]
<1>2. /\ f \in [DOMAIN s -> DOMAIN s]
      /\ \A m, n \in DOMAIN s : f[m] = f[n] => m = n
      /\ \A i \in DOMAIN s : \E n \in DOMAIN s : f[n] = i
  BY <1>1 DEF Bijection, Injection, IsInjective, Surjection
<1>3. /\ g \in [A -> B] /\ \A m, n \in A : g[m] = g[n] => m = n
      /\ \A i \in B : \E n \in A : g[n] = i
  BY <1>2
<1>4. IsFiniteSet(A)
  <2>1. IsFiniteSet(1 .. Len(s)) /\ DOMAIN s = 1 .. Len(s)
    BY FS_Interval
  <2>2. A \in SUBSET (DOMAIN s)
    OBVIOUS
  <2> HIDE DEF A
  <2> QED
    BY <2>1, <2>2, FS_Subset
<1>5. Cardinality(A) = Cardinality(B)
  <2> HIDE DEF A, B, g
  <2>1. g \in Bijection(A, B)
    BY <1>3 DEF Bijection, Injection, IsInjective, Surjection
  <2> QED
    BY <1>4, <2>1, FS_Bijection DEF ExistsBijection
<1>6. {n \in DOMAIN Sorted(s) : Sorted(s)[n] \in X} = A
  BY <1>1, SortedIsSequence
<1> HIDE DEF A
<1> QED
  BY <1>5, <1>6 DEF Count

(* Of m meals in steps of n, RoundedUp of them come before the next step.  *)
RoundedUp(m, n) == (m + n - 1) \div n

LEMMA RoundedUpIsLeast ==
  ASSUME NEW m \in Nat, NEW n \in Nat \ {0}
  PROVE  /\ RoundedUp(m, n) \in Nat
         /\ m <= RoundedUp(m, n) * n /\ RoundedUp(m, n) * n < m + n
         /\ \A j \in Int : m <= j * n <=> RoundedUp(m, n) <= j
<1> DEFINE u == RoundedUp(m, n)
<1>1. u \in Nat /\ u * n \in Int /\ u * n <= m + n - 1 /\ m + n - 1 < u * n + n
  <2> DEFINE total == m + n - 1
             rest == total % n
             full == total \div n
  <2>1. total \in Nat /\ n \in Nat /\ n > 0
    OBVIOUS
  <2>2. full \in Nat /\ total = n * full + rest /\ rest \in 0 .. n - 1
    <3> HIDE DEF total
    <3> QED
      BY <2>1
  <2>3. full * n = n * full /\ full * n \in Int
    <3> HIDE DEF full
    <3> QED
      BY <2>1, <2>2
  <2>4. full * n <= total /\ total < full * n + n
    <3> DEFINE product == full * n
    <3>1. total = product + rest /\ product \in Int
      BY <2>2, <2>3
    <3> HIDE DEF product, rest, total
    <3> QED
      BY <2>1, <2>2, <3>1 DEF product
  <2> QED
    BY <2>2, <2>3, <2>4 DEF RoundedUp
<1> HIDE DEF u
<1>2. m <= u * n /\ u * n < m + n
  <2> DEFINE product == u * n
  <2>1. product \in Int /\ product <= m + n - 1 /\ m + n - 1 < product + n
    BY <1>1
  <2> HIDE DEF product
  <2>2. m <= product /\ product < m + n
    BY <2>1
  <2> QED
    BY <2>2 DEF product
<1>3. ASSUME NEW j \in Int, u <= j PROVE m <= j * n
  <2>1. u * n <= j * n /\ u * n \in Int /\ j * n \in Int
    BY <1>1, <1>3
  <2> QED
    BY <1>2, <2>1
<1>4. ASSUME NEW j \in Int, ~(u <= j) PROVE ~(m <= j * n)
  <2>1. (j + 1) * n <= u * n
    BY <1>1, <1>4
  <2>2. (j + 1) * n = j * n + n /\ j * n \in Int /\ u * n \in Int
    BY <1>1
  <2> QED
    BY <1>2, <2>1, <2>2
<1> QED
  BY <1>1, <1>2, <1>3, <1>4 DEF u

(* The meals on day d, the i-th on day (i - 1) * n \div count + 1.         *)
LEMMA SpreadDay ==
  ASSUME NEW n \in Nat \ {0}, NEW count \in Nat, NEW d \in 1 .. n
  PROVE  /\ {i \in 1 .. count : Spread(n, count)[i] = d}
               = RoundedUp((d - 1) * count, n) + 1 .. RoundedUp(d * count, n)
         /\ RoundedUp((d - 1) * count, n) <= RoundedUp(d * count, n)
<1> DEFINE low == (d - 1) * count
           high == d * count
           u == RoundedUp(low, n)
           v == RoundedUp(high, n)
<1>1. low \in Nat /\ high \in Nat /\ high = low + count /\ high <= n * count
  BY DEF low, high
<1>2. /\ u \in Nat /\ \A j \in Int : low <= j * n <=> u <= j
      /\ v \in Nat /\ \A j \in Int : high <= j * n <=> v <= j
      /\ high <= v * n
  <2> HIDE DEF low, high
  <2> QED
    BY <1>1, RoundedUpIsLeast
<1>3. v <= count
  <2>1. count * n = n * count /\ count \in Int
    OBVIOUS
  <2> HIDE DEF v, high
  <2>2. high <= count * n
    BY ONLY <1>1, <2>1
  <2> QED
    BY ONLY <1>2, <2>1, <2>2
<1>4. u <= v
  <2>1. v * n \in Int
    BY <1>2
  <2> HIDE DEF low, high, u, v
  <2>2. low <= v * n
    BY <1>1, <1>2, <2>1
  <2> QED
    BY <1>2, <2>2
<1>5. ASSUME NEW i \in 1 .. count
      PROVE  Spread(n, count)[i] = d <=> low <= (i - 1) * n /\ (i - 1) * n < high
  <2> DEFINE m == (i - 1) * n
             q == m \div count
             r == m % count
  <2>1. m \in Nat /\ count \in Nat /\ count > 0
    <3>1. i - 1 \in Nat
      OBVIOUS
    <3> QED
      BY <3>1
  <2>2. q \in Nat /\ m = count * q + r /\ r \in 0 .. count - 1
    <3> HIDE DEF m
    <3> QED
      BY <2>1
  <2>3. Spread(n, count)[i] = q + 1
    BY DEF Spread
  <2>4. ASSUME q = d - 1 PROVE low <= m /\ m < high
    <3>1. count * q = low
      BY <2>1, <2>4
    <3> HIDE DEF low, high, m, q, r
    <3> QED
      BY <1>1, <2>1, <2>2, <3>1
  <2>5. ASSUME q < d - 1 PROVE m < low
    <3>1. q + 1 <= d - 1 /\ count \in Nat /\ q \in Nat /\ d - 1 \in Nat
      BY <2>1, <2>2, <2>5
    <3> DEFINE e == d - 1
    <3>2. count * (q + 1) <= count * e
      <4> HIDE DEF q, e
      <4>1. e \in Nat /\ q + 1 <= e
        BY <3>1 DEF e
      <4> QED
        BY <3>1, <4>1
    <3>3. count * (q + 1) = count * q + count /\ count * q \in Int
      <4> HIDE DEF q
      <4> QED
        BY <3>1
    <3>4. count * e = low
      BY <3>1
    <3> HIDE DEF low, m, q, r, e
    <3> QED
      BY <1>1, <2>1, <2>2, <3>2, <3>3, <3>4
  <2>6. ASSUME q > d - 1 PROVE high <= m
    <3>1. d <= q /\ d \in Nat /\ q \in Nat
      BY <2>2, <2>6
    <3>2. count * d <= count * q /\ count * q \in Int
      <4> HIDE DEF q
      <4> QED
        BY <2>1, <3>1
    <3>3. count * d = high
      BY <2>1
    <3> HIDE DEF high, m, q, r
    <3> QED
      BY <1>1, <2>1, <2>2, <3>2, <3>3
  <2> HIDE DEF m, q, low, high
  <2>7. q + 1 = d <=> q = d - 1
    BY <2>2
  <2>8. low <= m /\ m < high <=> q = d - 1
    BY <1>1, <2>1, <2>2, <2>4, <2>5, <2>6
  <2> QED
    BY <2>3, <2>7, <2>8 DEF m
<1>6. ASSUME NEW i \in 1 .. count
      PROVE  Spread(n, count)[i] = d <=> u <= i - 1 /\ i - 1 < v
  <2>1. i - 1 \in Int /\ (i - 1) * n \in Int
    OBVIOUS
  <2>2. low <= (i - 1) * n <=> u <= i - 1
    BY <1>2, <2>1
  <2>3. high <= (i - 1) * n <=> v <= i - 1
    BY <1>2, <2>1
  <2> DEFINE m == (i - 1) * n
  <2> HIDE DEF low, high, u, v
  <2>4. (m < high <=> ~(high <= m)) /\ (i - 1 < v <=> ~(v <= i - 1))
    BY <1>1, <1>2, <2>1
  <2> QED
    BY <1>5, <2>2, <2>3, <2>4
<1> HIDE DEF low, high, u, v
<1>7. {i \in 1 .. count : Spread(n, count)[i] = d} = u + 1 .. v
  <2>1. \A i \in 1 .. count : (u <= i - 1 /\ i - 1 < v) <=> i \in u + 1 .. v
    BY <1>2
  <2>2. u + 1 .. v \subseteq 1 .. count
    BY <1>2, <1>3
  <2> QED
    BY <1>6, <2>1, <2>2
<1> QED
  BY <1>4, <1>7 DEF u, v, low, high

LEMMA SpreadIsEven ==
  ASSUME NEW n \in Nat \ {0}, NEW count \in Nat, NEW d \in 1 .. n, NEW e \in 1 .. n
  PROVE  Cardinality({i \in 1 .. count : Spread(n, count)[i] = d})
            <= Cardinality({i \in 1 .. count : Spread(n, count)[i] = e}) + 1
<1> DEFINE up(k) == RoundedUp(k * count, n)
           day(k) == {i \in 1 .. count : Spread(n, count)[i] = k}
<1>1. ASSUME NEW k \in 1 .. n
      PROVE  /\ Cardinality(day(k)) = up(k) - up(k - 1)
             /\ up(k) - up(k - 1) \in Nat
             /\ (up(k) - up(k - 1)) * n < count + n
             /\ count < (up(k) - up(k - 1)) * n + n
  <2> DEFINE low == (k - 1) * count
             high == k * count
             u == RoundedUp(low, n)
             v == RoundedUp(high, n)
  <2>1. low \in Nat /\ high \in Nat /\ high = low + count
    OBVIOUS
  <2>2. /\ u \in Nat /\ low <= u * n /\ u * n < low + n
        /\ v \in Nat /\ high <= v * n /\ v * n < high + n
    <3> HIDE DEF low, high
    <3> QED
      BY <2>1, RoundedUpIsLeast
  <2>3. day(k) = u + 1 .. v /\ u <= v
    BY SpreadDay
  <2> HIDE DEF low, high, u, v, day
  <2>4. Cardinality(u + 1 .. v) = v - u
    <3>1. u + 1 \in Int /\ v \in Int
      BY <2>2
    <3>2. Cardinality(u + 1 .. v) = IF u + 1 > v THEN 0 ELSE v - (u + 1) + 1
      BY <3>1, FS_Interval
    <3> QED
      BY <2>2, <2>3, <3>2
  <2>5. v - u \in Nat /\ (v - u) * n = v * n - u * n /\ v * n \in Int /\ u * n \in Int
    BY <2>2, <2>3
  <2>6. (v - u) * n < count + n /\ count < (v - u) * n + n
    <3> DEFINE vn == v * n
               un == u * n
    <3>1. vn \in Int /\ un \in Int /\ (v - u) * n = vn - un
      BY <2>5
    <3>2. low <= un /\ un < low + n /\ high <= vn /\ vn < high + n
      BY <2>2
    <3> HIDE DEF vn, un
    <3>3. vn - un < count + n /\ count < vn - un + n
      BY <2>1, <3>1, <3>2
    <3> QED
      BY <3>1, <3>3
  <2> QED
    BY <2>3, <2>4, <2>5, <2>6 DEF u, v, low, high
<1> DEFINE x == up(d) - up(d - 1)
           y == up(e) - up(e - 1)
<1>2. /\ Cardinality(day(d)) = x /\ x \in Nat /\ x * n < count + n
      /\ Cardinality(day(e)) = y /\ y \in Nat /\ count < y * n + n
  BY <1>1
<1> HIDE DEF x, y, up, day
<1>3. x <= y + 1
  <2> SUFFICES ASSUME y + 2 <= x PROVE FALSE
    BY <1>2
  <2>1. (y + 2) * n <= x * n /\ x * n \in Int
    BY <1>2
  <2>2. (y + 2) * n = y * n + n + n /\ y * n \in Int
    BY <1>2
  <2> QED
    BY <1>2, <2>1, <2>2
<1> QED
  BY <1>2, <1>3 DEF day

LEMMA FlattenedSlots ==
  ASSUME NEW p, WellFormed(p)
  PROVE  LET reqs == p.requirements
             parts == [k \in DOMAIN reqs |-> SlotsOf(reqs[k], p.days)]
         IN /\ parts \in Seq(Seq(Slots)) /\ DOMAIN parts = DOMAIN reqs
            /\ IsFiniteSet(DOMAIN reqs) /\ FlattenSeq(parts) \in Seq(Slots)
<1> DEFINE reqs == p.requirements
           parts == [k \in DOMAIN reqs |-> SlotsOf(reqs[k], p.days)]
           flat == FlattenSeq(parts)
<1>1. /\ reqs \in Seq(Requirement) /\ p.days \in Nat \ {0}
      /\ \A k \in DOMAIN reqs : IsFiniteSet(reqs[k].selected)
  BY DEF WellFormed
<1>2. /\ DOMAIN reqs = 1 .. Len(reqs) /\ Len(reqs) \in Nat
      /\ \A k \in DOMAIN reqs : reqs[k] \in Requirement
  <2> HIDE DEF reqs
  <2> QED
    BY <1>1
<1>3. \A k \in DOMAIN reqs : SlotsOf(reqs[k], p.days) \in Seq(Slots)
  <2> HIDE DEF reqs
  <2> QED
    BY <1>1, <1>2, RequiredSlots
<1>4. parts \in Seq(Seq(Slots)) /\ DOMAIN parts = DOMAIN reqs
  <2>1. parts \in [1 .. Len(reqs) -> Seq(Slots)]
    BY <1>2, <1>3
  <2> HIDE DEF parts, reqs
  <2> QED
    BY <1>2, <2>1
<1>5. flat \in Seq(Slots)
  <2> HIDE DEF parts
  <2> QED
    BY <1>4, FlattenIsSequence
<1>6. IsFiniteSet(DOMAIN reqs)
  BY <1>2, FS_Interval
<1> QED
  BY <1>4, <1>5, <1>6

(* The schedule's slots are those of the requirements.                     *)
LEMMA ScheduledSlots ==
  ASSUME NEW p, WellFormed(p), NEW X
  PROVE  LET s == Schedule(p.requirements, p.days)
         IN /\ s \in Seq(Slots) /\ IsFiniteSet(DOMAIN p.requirements)
            /\ Count(s, X) = SumOver([k \in DOMAIN p.requirements |->
                                        Count(SlotsOf(p.requirements[k], p.days), X)],
                                     DOMAIN p.requirements)
<1> DEFINE reqs == p.requirements
           parts == [k \in DOMAIN reqs |-> SlotsOf(reqs[k], p.days)]
           flat == FlattenSeq(parts)
           w == [k \in DOMAIN reqs |-> Count(SlotsOf(reqs[k], p.days), X)]
<1>1. /\ parts \in Seq(Seq(Slots)) /\ DOMAIN parts = DOMAIN reqs
      /\ IsFiniteSet(DOMAIN reqs) /\ flat \in Seq(Slots)
  BY FlattenedSlots
<1>2. Count(flat, X) = SumOver([k \in DOMAIN parts |-> Count(parts[k], X)], DOMAIN parts)
  <2> HIDE DEF parts
  <2> QED
    BY <1>1, FlattenCounts
<1>3. [k \in DOMAIN parts |-> Count(parts[k], X)] = w
  BY <1>1
<1>4. Schedule(reqs, p.days) = Sorted(flat)
  BY DEF Schedule
<1> HIDE DEF flat, w, parts
<1>5. Count(Sorted(flat), X) = SumOver(w, DOMAIN reqs) /\ Sorted(flat) \in Seq(Slots)
  BY <1>1, <1>2, <1>3, SortedCounts, SortedIsSequence
<1> QED
  BY <1>1, <1>4, <1>5 DEF w

(* A requirement gives as many slots as it asks for, of its meal type.     *)
LEMMA RequiredOfType ==
  ASSUME NEW req \in Requirement, IsFiniteSet(req.selected), NEW n \in Nat \ {0},
         NEW t \in DOMAIN MealOrder
  PROVE  Count(SlotsOf(req, n), {s \in Slots : s.type = t})
            = IF req.type = t THEN req.count ELSE 0
<1> DEFINE part == SlotsOf(req, n)
           A == {i \in DOMAIN part : part[i] \in {s \in Slots : s.type = t}}
<1>1. /\ part \in Seq(Slots) /\ DOMAIN part = 1 .. req.count /\ req.count \in Nat
      /\ \A i \in 1 .. req.count : part[i].type = req.type
  BY RequiredSlots DEF Requirement
<1> HIDE DEF part
<1>2. \A i \in DOMAIN part : part[i] \in Slots
  BY <1>1
<1>3. CASE req.type = t
  <2>1. A = 1 .. req.count
    BY <1>1, <1>2, <1>3
  <2>2. Cardinality(1 .. req.count) = req.count
    <3>1. 1 \in Int /\ req.count \in Int
      BY <1>1
    <3>2. Cardinality(1 .. req.count) = IF 1 > req.count THEN 0 ELSE req.count - 1 + 1
      BY <3>1, FS_Interval
    <3> QED
      BY <1>1, <3>2
  <2> QED
    BY <1>3, <2>1, <2>2 DEF Count, part
<1>4. CASE req.type # t
  <2>1. A = {}
    BY <1>1, <1>4
  <2> QED
    BY <1>4, <2>1, FS_EmptySet DEF Count, part
<1> QED
  BY <1>3, <1>4

LEMMA CountedOfType ==
  ASSUME NEW p, WellFormed(p), NEW t \in DOMAIN MealOrder
  PROVE  LET reqs == p.requirements
             s == Schedule(reqs, p.days)
             count == [k \in DOMAIN reqs |-> reqs[k].count]
         IN Cardinality({n \in DOMAIN s : s[n].type = t})
              = MapThenSumSet(LAMBDA k : count[k], {k \in DOMAIN reqs : reqs[k].type = t})
<1> DEFINE reqs == p.requirements
           s == Schedule(reqs, p.days)
           count == [k \in DOMAIN reqs |-> reqs[k].count]
           X == {e \in Slots : e.type = t}
           w == [k \in DOMAIN reqs |-> Count(SlotsOf(reqs[k], p.days), X)]
           A == {k \in DOMAIN reqs : reqs[k].type = t}
           B == {k \in DOMAIN reqs : reqs[k].type # t}
<1>1. /\ s \in Seq(Slots) /\ IsFiniteSet(DOMAIN reqs)
      /\ Count(s, X) = SumOver(w, DOMAIN reqs)
  <2> HIDE DEF X
  <2> QED
    BY ScheduledSlots
<1>2. \A k \in DOMAIN reqs :
         /\ reqs[k] \in Requirement /\ IsFiniteSet(reqs[k].selected)
         /\ p.days \in Nat \ {0}
  BY DEF WellFormed
<1>3. \A k \in DOMAIN reqs : w[k] = IF reqs[k].type = t THEN count[k] ELSE 0
  <2> SUFFICES ASSUME NEW k \in DOMAIN reqs
               PROVE  w[k] = IF reqs[k].type = t THEN count[k] ELSE 0
    OBVIOUS
  <2>1. Count(SlotsOf(reqs[k], p.days), X) = IF reqs[k].type = t THEN reqs[k].count ELSE 0
    BY <1>2, RequiredOfType
  <2> QED
    BY <2>1
<1>4. \A k \in DOMAIN reqs : count[k] \in Nat
  BY <1>2 DEF Requirement
<1>5. {n \in DOMAIN s : s[n].type = t} = {n \in DOMAIN s : s[n] \in X}
  <2>1. \A n \in DOMAIN s : s[n] \in Slots
    <3> HIDE DEF s
    <3> QED
      BY <1>1
  <2> QED
    BY <2>1
<1> HIDE DEF s, w, count, X
<1>6. DOMAIN reqs = A \cup B /\ A \cap B = {}
  OBVIOUS
<1>7. IsFiniteSet(A) /\ IsFiniteSet(B)
  <2>1. A \in SUBSET (DOMAIN reqs) /\ B \in SUBSET (DOMAIN reqs)
    OBVIOUS
  <2> HIDE DEF A, B
  <2> QED
    BY <1>1, <2>1, FS_Subset
<1>8. /\ \A k \in A : w[k] = count[k]
      /\ \A k \in B : w[k] = 0
      /\ \A k \in A \cup B : w[k] \in Int
  BY <1>3, <1>4
<1> HIDE DEF A, B
<1>9. SumOver(w, A \cup B) = SumOver(w, A) + SumOver(w, B)
  BY <1>6, <1>7, <1>8, SumDisjoint
<1>10. SumOver(w, B) = 0 /\ SumOver(w, A) = SumOver(count, A) /\ SumOver(w, A) \in Int
  <2>1. SumOver(w, B) = 0
    BY <1>7, <1>8, SumZero
  <2>2. SumOver(w, A) = SumOver(count, A)
    BY <1>7, <1>8, SumSame
  <2>3. SumOver(w, A) \in Int
    BY <1>7, <1>8, SumInteger
  <2> QED
    BY <2>1, <2>2, <2>3
<1>11. Count(s, X) = SumOver(count, A)
  BY <1>1, <1>6, <1>9, <1>10
<1>12. MapThenSumSet(LAMBDA k : count[k], A) = SumOver(count, A)
  BY <1>7, FoldIsSum
<1>13. Cardinality({n \in DOMAIN s : s[n].type = t}) = MapThenSumSet(LAMBDA k : count[k], A)
  BY <1>5, <1>11, <1>12 DEF Count
<1> QED
  BY <1>13 DEF s, count, A

(* Every slot of the schedule is one of a requirement.                     *)
LEMMA ScheduledForRequirement ==
  ASSUME NEW p, WellFormed(p), NEW n \in DOMAIN Schedule(p.requirements, p.days)
  PROVE  \E k \in DOMAIN p.requirements : \E i \in 1 .. p.requirements[k].count :
            Schedule(p.requirements, p.days)[n] = SlotsOf(p.requirements[k], p.days)[i]
<1> DEFINE reqs == p.requirements
           s == Schedule(reqs, p.days)
           w == [k \in DOMAIN reqs |-> Count(SlotsOf(reqs[k], p.days), {s[n]})]
<1>1. /\ s \in Seq(Slots) /\ IsFiniteSet(DOMAIN reqs)
      /\ Count(s, {s[n]}) = SumOver(w, DOMAIN reqs)
  BY ScheduledSlots
<1>2. Count(s, {s[n]}) # 0
  <2>1. IsFiniteSet(DOMAIN s)
    <3>1. DOMAIN s = 1 .. Len(s) /\ Len(s) \in Nat
      <4> HIDE DEF s
      <4> QED
        BY <1>1
    <3> QED
      BY <3>1, FS_Interval
  <2>2. {m \in DOMAIN s : s[m] \in {s[n]}} \in SUBSET (DOMAIN s)
    OBVIOUS
  <2>3. n \in {m \in DOMAIN s : s[m] \in {s[n]}}
    OBVIOUS
  <2> HIDE DEF s
  <2>4. IsFiniteSet({m \in DOMAIN s : s[m] \in {s[n]}})
    BY <2>1, <2>2, FS_Subset
  <2> QED
    BY <2>3, <2>4, FS_EmptySet DEF Count
<1>3. PICK k \in DOMAIN reqs : w[k] # 0
  <2> HIDE DEF w, s
  <2> QED
    BY <1>1, <1>2, SumZero
<1> DEFINE part == SlotsOf(reqs[k], p.days)
<1>4. {i \in DOMAIN part : part[i] \in {s[n]}} # {}
  BY <1>3, FS_EmptySet DEF Count
<1>5. DOMAIN part = 1 .. reqs[k].count
  <2>1. reqs[k] \in Requirement /\ IsFiniteSet(reqs[k].selected) /\ p.days \in Nat \ {0}
    BY DEF WellFormed
  <2> QED
    BY <2>1, RequiredSlots
<1> QED
  BY <1>4, <1>5

(* What the only requirement of a meal type puts on a day.                 *)
MealsOn(s, t, d) == Cardinality({n \in DOMAIN s : s[n].type = t /\ s[n].date = d})

PickedOn(req, n, d) == Cardinality({i \in 1 .. req.count : PickDates(req, n)[i] = d})

LEMMA CountedOnDay ==
  ASSUME NEW p, WellFormed(p), NEW k \in DOMAIN p.requirements,
         OnlyOfType(p.requirements, k), NEW d
  PROVE  MealsOn(Schedule(p.requirements, p.days), p.requirements[k].type, d)
            = PickedOn(p.requirements[k], p.days, d)
<1> DEFINE reqs == p.requirements
           s == Schedule(reqs, p.days)
           X == {e \in Slots : e.type = reqs[k].type /\ e.date = d}
           w == [j \in DOMAIN reqs |-> Count(SlotsOf(reqs[j], p.days), X)]
<1>1. /\ s \in Seq(Slots) /\ IsFiniteSet(DOMAIN reqs)
      /\ Count(s, X) = SumOver(w, DOMAIN reqs)
  <2> HIDE DEF X
  <2> QED
    BY ScheduledSlots
<1>2. ASSUME NEW j \in DOMAIN reqs
      PROVE  LET part == SlotsOf(reqs[j], p.days)
             IN /\ part \in Seq(Slots) /\ DOMAIN part = 1 .. reqs[j].count
                /\ \A i \in DOMAIN part :
                      /\ part[i] \in Slots /\ part[i].type = reqs[j].type
                      /\ part[i].date = PickDates(reqs[j], p.days)[i]
  <2> DEFINE part == SlotsOf(reqs[j], p.days)
  <2>1. reqs[j] \in Requirement /\ IsFiniteSet(reqs[j].selected) /\ p.days \in Nat \ {0}
    BY DEF WellFormed
  <2>2. /\ part \in Seq(Slots) /\ DOMAIN part = 1 .. reqs[j].count
        /\ \A i \in 1 .. reqs[j].count :
              /\ part[i].type = reqs[j].type
              /\ part[i].date = PickDates(reqs[j], p.days)[i]
    BY <2>1, RequiredSlots
  <2> HIDE DEF part
  <2>3. \A i \in DOMAIN part : part[i] \in Slots
    <3>1. part \in Seq(Slots)
      BY <2>2
    <3> QED
      BY ONLY <3>1
  <2> QED
    BY <2>2, <2>3 DEF part
<1>3. ASSUME NEW j \in DOMAIN reqs, j # k PROVE w[j] = 0
  <2> DEFINE part == SlotsOf(reqs[j], p.days)
  <2>1. {i \in DOMAIN part : part[i] \in X} = {}
    <3>1. reqs[j].type # reqs[k].type
      BY <1>3 DEF OnlyOfType
    <3>2. \A i \in DOMAIN part : part[i].type = reqs[j].type
      BY <1>2
    <3> HIDE DEF part
    <3> QED
      BY <3>1, <3>2
  <2> QED
    BY <2>1, FS_EmptySet DEF Count
<1>4. w[k] = Cardinality({i \in 1 .. reqs[k].count : PickDates(reqs[k], p.days)[i] = d})
  <2> DEFINE part == SlotsOf(reqs[k], p.days)
  <2>1. /\ DOMAIN part = 1 .. reqs[k].count
        /\ \A i \in DOMAIN part :
              /\ part[i] \in Slots /\ part[i].type = reqs[k].type
              /\ part[i].date = PickDates(reqs[k], p.days)[i]
    BY <1>2
  <2>2. {i \in DOMAIN part : part[i] \in X}
           = {i \in 1 .. reqs[k].count : PickDates(reqs[k], p.days)[i] = d}
    <3> HIDE DEF part
    <3> QED
      BY <2>1
  <2>3. w[k] = Cardinality({i \in DOMAIN part : part[i] \in X})
    BY DEF Count
  <2> QED
    BY <2>2, <2>3
<1>5. \A j \in DOMAIN reqs : w[j] \in Int
  <2> SUFFICES ASSUME NEW j \in DOMAIN reqs PROVE w[j] \in Int
    OBVIOUS
  <2>1. SlotsOf(reqs[j], p.days) \in Seq(Slots)
    BY <1>2
  <2> HIDE DEF X
  <2>2. Count(SlotsOf(reqs[j], p.days), X) \in Nat
    BY <2>1, CountConcat
  <2> QED
    BY <2>2
<1>6. {n \in DOMAIN s : s[n].type = reqs[k].type /\ s[n].date = d}
         = {n \in DOMAIN s : s[n] \in X}
  <2>1. \A n \in DOMAIN s : s[n] \in Slots
    <3> HIDE DEF s
    <3> QED
      BY <1>1
  <2> QED
    BY <2>1
<1> HIDE DEF s, w, X
<1>7. SumOver(w, DOMAIN reqs) = w[k] + SumOver(w, DOMAIN reqs \ {k})
  BY <1>1, <1>5, SumRemove
<1>8. SumOver(w, DOMAIN reqs \ {k}) = 0
  <2>1. IsFiniteSet(DOMAIN reqs \ {k})
    BY <1>1, FS_RemoveElement
  <2>2. \A j \in DOMAIN reqs \ {k} : w[j] = 0
    BY <1>3
  <2> QED
    BY <2>1, <2>2, SumZero
<1>9. Count(s, X) = w[k]
  BY <1>1, <1>5, <1>7, <1>8
<1> QED
  BY <1>4, <1>6, <1>9 DEF Count, s, MealsOn, PickedOn

(* The schedule keeps its promise to every well-formed problem.            *)
LEMMA ScheduleIsExact ==
  ASSUME WellFormed(problem), slots = Schedule(problem.requirements, problem.days)
  PROVE  ExactlyRequested
<1> DEFINE reqs == problem.requirements
<1>1. slots \in Seq(Slots)
  BY ScheduledSlots
<1>2. /\ problem.days \in Nat \ {0}
      /\ \A k \in DOMAIN reqs : reqs[k] \in Requirement /\ IsFiniteSet(reqs[k].selected)
  BY DEF WellFormed
<1>3. ASSUME NEW n \in 2 .. Len(slots) PROVE ~Earlier(slots[n], slots[n - 1])
  <2> DEFINE flat == FlattenSeq([k \in DOMAIN reqs |-> SlotsOf(reqs[k], problem.days)])
  <2>1. slots = Sorted(flat)
    BY DEF Schedule
  <2>2. flat \in Seq(Slots)
    BY FlattenedSlots
  <2> HIDE DEF flat
  <2>3. PICK f \in Bijection(DOMAIN flat, DOMAIN flat) :
          /\ \A m \in DOMAIN flat : Sorted(flat)[m] = flat[f[m]]
          /\ \A l, m \in DOMAIN flat : l < m => ~Earlier(flat[f[m]], flat[f[l]])
    BY <2>2, SortMoves
  <2>4. DOMAIN flat = 1 .. Len(slots) /\ Len(slots) \in Nat
    BY <1>1, <2>1, <2>2, SortedIsSequence
  <2>5. n \in DOMAIN flat /\ n - 1 \in DOMAIN flat /\ n - 1 < n
    BY <2>4
  <2> QED
    BY <2>1, <2>3, <2>5
<1>4. ASSUME NEW n \in DOMAIN slots
      PROVE  \E k \in DOMAIN reqs :
                /\ slots[n].type = reqs[k].type /\ slots[n].limit = reqs[k].limit
                /\ slots[n].date \in Allowed(reqs[k], problem.days)
  <2>1. PICK k \in DOMAIN reqs : \E i \in 1 .. reqs[k].count :
           slots[n] = SlotsOf(reqs[k], problem.days)[i]
    BY ScheduledForRequirement
  <2>2. PICK i \in 1 .. reqs[k].count : slots[n] = SlotsOf(reqs[k], problem.days)[i]
    BY <2>1
  <2>3. /\ slots[n].type = reqs[k].type /\ slots[n].limit = reqs[k].limit
        /\ slots[n].date = PickDates(reqs[k], problem.days)[i]
    BY <1>2, <2>2, RequiredSlots
  <2>4. PickDates(reqs[k], problem.days)[i] \in Allowed(reqs[k], problem.days)
    BY <1>2, <2>2, PickedIsAllowed
  <2> QED
    BY <2>3, <2>4
<1>5. ASSUME NEW k \in DOMAIN reqs,
             reqs[k].auto, reqs[k].selected = {}, reqs[k].preferred = {},
             OnlyOfType(reqs, k), NEW d \in 1 .. problem.days, NEW e \in 1 .. problem.days
      PROVE  SlotsOn(reqs[k].type, d) <= SlotsOn(reqs[k].type, e) + 1
  <2> DEFINE spread(day) ==
               {i \in 1 .. reqs[k].count : Spread(problem.days, reqs[k].count)[i] = day}
  <2>1. reqs[k].count \in Nat
    BY <1>2 DEF Requirement
  <2>2. ASSUME NEW day PROVE SlotsOn(reqs[k].type, day) = Cardinality(spread(day))
    <3>1. MealsOn(slots, reqs[k].type, day) = PickedOn(reqs[k], problem.days, day)
      BY <1>5, CountedOnDay
    <3>2. {i \in 1 .. reqs[k].count : PickDates(reqs[k], problem.days)[i] = day} = spread(day)
      <4>1. CASE reqs[k].count = 0
        BY <4>1
      <4>2. CASE reqs[k].count # 0
        <5>1. PickDates(reqs[k], problem.days) = Spread(problem.days, reqs[k].count)
          BY <1>5, <4>2 DEF PickDates
        <5> QED
          BY <5>1
      <4> QED
        BY <4>1, <4>2
    <3> HIDE DEF spread
    <3> QED
      BY <3>1, <3>2 DEF SlotsOn, MealsOn, PickedOn
  <2>3. Cardinality(spread(d)) <= Cardinality(spread(e)) + 1
    BY <1>2, <2>1, SpreadIsEven
  <2> QED
    BY <2>2, <2>3
<1> DEFINE count == [k \in DOMAIN reqs |-> reqs[k].count]
<1>6. ASSUME NEW t \in DOMAIN MealOrder
      PROVE  Cardinality({n \in DOMAIN slots : slots[n].type = t})
                = MapThenSumSet(LAMBDA k : count[k], {k \in DOMAIN reqs : reqs[k].type = t})
  BY CountedOfType, ZenonT(60)
<1> QED
  BY <1>3, <1>4, <1>5, <1>6 DEF ExactlyRequested

(* The slots do not change while they are filled: for every well-formed    *)
(* problem the plan has, from its schedule to its end, exactly the meals   *)
(* that were asked for.                                                    *)
THEOREM SlotsAreExactlyRequested == Spec => []ExactlyRequested
<1> DEFINE Scheduled ==
             problem \in Problems /\ slots = Schedule(problem.requirements, problem.days)
<1>1. Init => Scheduled
  BY DEF Init
<1>2. Scheduled /\ [Next]_vars => Scheduled'
  BY DEF Next, vars, Trivial, Begin, Keep, Improve, NextPass, Accept, Reseed, GiveUp, Finish
<1>3. Scheduled => ExactlyRequested
  BY SearchAssumption, ScheduleIsExact
<1> QED
  BY <1>1, <1>2, <1>3, PTL DEF Spec

-----------------------------------------------------------------------------
(* While a search runs, the slots behind it in this pass have no better    *)
(* recipe, unless a swap in this pass has changed what is better.          *)
Settled(n) == \A r \in Others(n) : ~Better(problem, chosen, n, r)

SearchInv ==
    /\ problem \in Problems
    /\ slots = Schedule(problem.requirements, problem.days)
    /\ slot \in Nat /\ pass \in Nat
    /\ phase # "done" => outcome = "none"
    /\ phase # "done" /\ ~improved => \A n \in 1 .. slot - 1 : Settled(n)

IInv == SearchInv /\ LocallyOptimal

LEMMA SlotsCounted == SearchInv => Len(slots) \in Nat
<1> SUFFICES ASSUME SearchInv PROVE Len(slots) \in Nat
  OBVIOUS
<1>1. slots \in Seq(Slots)
  BY SearchAssumption, ScheduledSlots DEF SearchInv
<1> QED
  BY <1>1

(* A step that leaves the plan of the search alone.                        *)
LEMMA SettledKept ==
  ASSUME UNCHANGED <<problem, slots, feasible, chosen>>, NEW n
  PROVE  Settled(n)' <=> Settled(n)
  BY DEF Settled, Others

LEMMA SearchStep ==
  ASSUME IInv, [Next]_vars
  PROVE  IInv'
<1>1. SearchInv /\ LocallyOptimal /\ Len(slots) \in Nat
  BY SlotsCounted DEF IInv
<1>2. ASSUME outcome' # "plan" PROVE LocallyOptimal'
  BY <1>2 DEF LocallyOptimal
<1>3. CASE Begin \/ Reseed
  <2>1. /\ slot' = 1 /\ pass' = 1 /\ phase' # "done" /\ phase # "done"
        /\ UNCHANGED <<problem, slots, feasible, outcome>>
    BY <1>3 DEF Begin, Reseed, Seed, SearchEnds
  <2>2. SearchInv'
    BY <1>1, <2>1 DEF SearchInv
  <2>3. outcome' # "plan"
    BY <1>1, <2>1 DEF SearchInv
  <2> QED
    BY <1>2, <2>2, <2>3 DEF IInv
<1>4. CASE Keep
  <2>1. /\ slot' = slot + 1 /\ phase # "done"
        /\ UNCHANGED <<problem, slots, feasible, phase, chosen, pass, improved, outcome>>
    BY <1>4 DEF Keep
  <2>2. Settled(slot)
    BY <1>4 DEF Keep, Settled
  <2>3. ASSUME ~improved, NEW n \in 1 .. slot' - 1 PROVE Settled(n)'
    <3>1. n = slot \/ n \in 1 .. slot - 1
      BY <1>1, <2>1 DEF SearchInv
    <3>2. Settled(n)
      BY <1>1, <2>1, <2>2, <2>3, <3>1 DEF SearchInv
    <3> QED
      BY <2>1, <3>2, SettledKept
  <2>4. SearchInv'
    BY <1>1, <2>1, <2>3 DEF SearchInv
  <2>5. outcome' # "plan"
    BY <1>1, <2>1 DEF SearchInv
  <2> QED
    BY <1>2, <2>4, <2>5 DEF IInv
<1>5. CASE Improve
  <2>1. /\ slot' = slot + 1 /\ improved' /\ phase # "done"
        /\ UNCHANGED <<problem, slots, feasible, phase, pass, outcome>>
    BY <1>5 DEF Improve
  <2>2. SearchInv' /\ outcome' # "plan"
    BY <1>1, <2>1 DEF SearchInv
  <2> QED
    BY <1>2, <2>2 DEF IInv
<1>6. CASE NextPass
  <2>1. /\ slot' = 1 /\ pass' = pass + 1 /\ phase # "done"
        /\ UNCHANGED <<problem, slots, feasible, phase, outcome>>
    BY <1>6 DEF NextPass
  <2>2. SearchInv' /\ outcome' # "plan"
    BY <1>1, <2>1 DEF SearchInv
  <2> QED
    BY <1>2, <2>2 DEF IInv
<1>7. CASE Accept
  <2>1. /\ phase # "done" /\ phase' = "done" /\ slot > Len(slots) /\ LastPass
        /\ UNCHANGED <<problem, slots, feasible, chosen, slot, pass, improved>>
    BY <1>7 DEF Accept, SearchEnds, Finish
  <2>2. SearchInv'
    BY <1>1, <2>1 DEF SearchInv
  <2>3. ASSUME ~improved \/ pass < MaxPasses, NEW n \in 1 .. Len(slots)
        PROVE  Settled(n)'
    <3>1. ~improved
      BY <1>1, <2>1, <2>3, SearchAssumption DEF LastPass, SearchInv
    <3>2. n \in 1 .. slot - 1
      BY <1>1, <2>1 DEF SearchInv
    <3>3. Settled(n)
      BY <1>1, <2>1, <3>1, <3>2 DEF SearchInv
    <3> QED
      BY <2>1, <3>3, SettledKept
  <2>4. LocallyOptimal'
    BY <2>1, <2>3 DEF LocallyOptimal, Settled
  <2> QED
    BY <2>2, <2>4 DEF IInv
<1>8. CASE GiveUp
  <2>1. /\ phase' = "done" /\ outcome' = "over_budget"
        /\ UNCHANGED <<problem, slots, feasible, slot, pass>>
    BY <1>8 DEF GiveUp, Finish
  <2>2. SearchInv' /\ outcome' # "plan"
    BY <1>1, <2>1 DEF SearchInv
  <2> QED
    BY <1>2, <2>2 DEF IInv
<1>9. CASE Trivial
  <2>1. /\ phase' = "done" /\ (outcome' = "plan" => slots = <<>>)
        /\ UNCHANGED <<problem, slots, feasible, slot, pass>>
    BY <1>9 DEF Trivial
  <2>2. SearchInv'
    BY <1>1, <2>1 DEF SearchInv
  <2>3. slots = <<>> => Len(slots) = 0
    OBVIOUS
  <2>4. LocallyOptimal'
    BY <2>1, <2>3 DEF LocallyOptimal
  <2> QED
    BY <2>2, <2>4 DEF IInv
<1>10. CASE UNCHANGED vars
  <2>1. UNCHANGED vars /\ UNCHANGED <<problem, slots, feasible, chosen>>
    BY <1>10 DEF vars
  <2>2. \A n : Settled(n)' <=> Settled(n)
    BY <2>1, SettledKept
  <2>3. SearchInv'
    BY <1>1, <2>1, <2>2 DEF vars, SearchInv
  <2>4. LocallyOptimal'
    BY <1>1, <2>1, <2>2 DEF vars, LocallyOptimal, Settled
  <2> QED
    BY <2>3, <2>4 DEF IInv
<1> QED
  BY <1>3, <1>4, <1>5, <1>6, <1>7, <1>8, <1>9, <1>10 DEF Next

(* LocallyOptimal: a plan is never handed out while one swap would improve *)
(* it, unless max_passes cut the search short, whatever the problem, the   *)
(* weights and the order in which recipes are tried.                       *)
THEOREM PlanIsLocallyOptimal == Spec => []LocallyOptimal
<1>1. Init => IInv
  BY DEF Init, IInv, SearchInv, LocallyOptimal
<1>2. IInv /\ [Next]_vars => IInv'
  BY SearchStep
<1>3. IInv => LocallyOptimal
  BY DEF IInv
<1> QED
  BY <1>1, <1>2, <1>3, PTL DEF Spec

=============================================================================
