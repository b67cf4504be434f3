-------------------------- MODULE PlanShoppingProofs --------------------------
(***************************************************************************)
(* What the plan engine promises about the plan it hands out and what is   *)
(* bought for it, for every well-formed problem: every slot has a recipe   *)
(* that was let through for it, nothing bought under its own name carries  *)
(* an allergen of a member, the packages cover the demand, and a complete  *)
(* coverage is one.                                                        *)
(***************************************************************************)
EXTENDS PlanSearchProofs, FoldTheorems

-----------------------------------------------------------------------------
(* Keys compared from the left.                                            *)

(* Of some keys of one length, one is the least, if in every component     *)
(* any of them have a least value.                                         *)
LEMMA LeastKey ==
  ASSUME NEW N \in Nat, NEW S, S # {}, NEW K,
         \A x \in S : DOMAIN K[x] = 1 .. N,
         \A n \in 1 .. N : \A X \in SUBSET S : X # {} =>
            \E x \in X : \A y \in X : ~(K[y][n] < K[x][n])
  PROVE  \E x \in S : \A y \in S : ~Before(K[y], K[x])
<1> DEFINE Same(x, y, n) == \A i \in 1 .. n : K[x][i] = K[y][i]
           Beats(y, x, m) == K[y][m] < K[x][m] /\ Same(y, x, m - 1)
           Best(x, n) == \A y \in S : \A m \in 1 .. n : ~Beats(y, x, m)
           T == {n \in Nat : n > N \/ \E x \in S : Best(x, n)}
<1>1. 0 \in T
  <2>1. \A x \in S : Best(x, 0)
    OBVIOUS
  <2> HIDE DEF Best
  <2> QED
    BY <2>1
<1>2. ASSUME NEW n \in Nat, n \in T PROVE n + 1 \in T
  <2>1. CASE n + 1 > N
    BY <2>1
  <2>2. CASE n + 1 <= N
    <3>1. PICK x \in S : Best(x, n)
      <4> HIDE DEF Best
      <4> QED
        BY <1>2, <2>2
    <3> DEFINE X == {y \in S : Same(y, x, n)}
    <3>2. n + 1 \in 1 .. N /\ X \in SUBSET S /\ x \in X
      BY <2>2
    <3>3. PICK z \in X : \A y \in X : ~(K[y][n + 1] < K[z][n + 1])
      <4> HIDE DEF X
      <4> QED
        BY <3>2
    <3>4. ASSUME NEW y \in S, NEW m \in 1 .. n + 1, Beats(y, z, m) PROVE FALSE
      <4>1. CASE m = n + 1
        <5>1. Same(y, z, n) /\ K[y][n + 1] < K[z][n + 1]
          BY <3>4, <4>1
        <5>2. Same(y, x, n)
          BY <3>3, <5>1
        <5> QED
          BY <3>3, <5>1, <5>2
      <4>2. CASE m \in 1 .. n
        <5>1. \A i \in 1 .. m : K[z][i] = K[x][i]
          BY <3>3, <4>2
        <5>2. Beats(y, x, m)
          BY <3>4, <4>2, <5>1
        <5> QED
          BY <3>1, <4>2, <5>2
      <4> QED
        BY <4>1, <4>2
    <3>5. Best(z, n + 1)
      BY <3>4
    <3> HIDE DEF Best
    <3> QED
      BY <3>3, <3>5
  <2> QED
    BY <2>1, <2>2
<1>3. N \in T
  <2> HIDE DEF T
  <2> QED
    BY <1>1, <1>2, NaturalSetInduction
<1>4. PICK x \in S : Best(x, N)
  <2> HIDE DEF Best
  <2> QED
    BY <1>3
<1>5. \A y \in S : ~Before(K[y], K[x])
  BY <1>4 DEF Before
<1> QED
  BY <1>5

(* Some integers in a finite set of keys have a least one.                 *)
LEMMA LeastInteger ==
  ASSUME NEW S, IsFiniteSet(S), S # {}, NEW v, \A x \in S : v[x] \in Int
  PROVE  \E x \in S : \A y \in S : ~(v[y] < v[x])
<1> DEFINE HasMin(X) == \E x \in X : \A y \in X : ~(v[y] < v[x])
           T == {X \in SUBSET S : X = {} \/ HasMin(X)}
<1>1. ASSUME NEW X \in SUBSET S, \A Y \in SUBSET X : Y # X => Y \in T
      PROVE  X \in T
  <2>1. CASE X = {}
    BY <2>1
  <2>2. CASE X # {}
    <3>1. PICK x : x \in X
      BY <2>2
    <3>2. X \ {x} \in T
      BY <1>1, <3>1
    <3>3. CASE X \ {x} = {}
      <4>1. X = {x} /\ v[x] \in Int
        BY <3>1, <3>3
      <4>2. HasMin(X)
        BY <4>1
      <4> QED
        BY <4>2
    <3>4. CASE HasMin(X \ {x})
      <4>1. PICK m \in X \ {x} : \A y \in X \ {x} : ~(v[y] < v[m])
        BY <3>4
      <4>2. CASE v[x] < v[m]
        <5>1. \A y \in X : ~(v[y] < v[x])
          BY <3>1, <4>1, <4>2
        <5> QED
          BY <3>1, <5>1
      <4>3. CASE ~(v[x] < v[m])
        <5>1. \A y \in X : ~(v[y] < v[m])
          BY <4>1, <4>3
        <5> QED
          BY <4>1, <5>1
      <4> QED
        BY <4>2, <4>3
    <3> QED
      BY <3>2, <3>3, <3>4
  <2> QED
    BY <2>1, <2>2
<1>2. SUBSET S \subseteq T
  <2> HIDE DEF T
  <2> QED
    BY <1>1, SubsetInduction
<1> QED
  BY <1>2

(* Naturals have one in any case.                                          *)
LEMMA LeastValue ==
  ASSUME NEW S, S # {}, NEW v, \A x \in S : v[x] \in Nat
  PROVE  \E x \in S : \A y \in S : ~(v[y] < v[x])
<1> DEFINE V == {v[x] : x \in S}
<1>1. V \subseteq Nat /\ V # {}
  OBVIOUS
<1>2. \E n \in V : \A m \in V : n <= m
  <2> HIDE DEF V
  <2> QED
    BY <1>1, LeastNatural
<1>3. PICK x \in S : \A y \in S : v[x] <= v[y]
  BY <1>2
<1> QED
  BY <1>3

-----------------------------------------------------------------------------
(* Packages.                                                               *)

Numbers(o) == o.id \in Nat /\ o.quantity \in Nat /\ o.price \in Nat

LEMMA PurchaseNumbers ==
  ASSUME NEW pending \in Nat, NEW o, Numbers(o), o.quantity > 0
  PROVE  /\ Purchase(pending, o).bought \in Nat
         /\ Purchase(pending, o).leftover \in 0 .. o.quantity - 1
         /\ Purchase(pending, o).bought - Purchase(pending, o).leftover = pending
         /\ Purchase(pending, o).cost \in Nat
<1> DEFINE packages == CeilDiv(pending, o.quantity)
           bought == packages * o.quantity
           cost == packages * o.price
<1>1. o.quantity \in Nat \ {0} /\ o.price \in Nat
  BY DEF Numbers
<1>2. packages \in Nat /\ bought - pending \in 0 .. o.quantity - 1
  BY <1>1, CeilDivIsLeast
<1>3. bought \in Nat /\ cost \in Nat
  <2> HIDE DEF packages
  <2> QED
    BY <1>1, <1>2
<1>4. /\ Purchase(pending, o).bought = bought /\ Purchase(pending, o).cost = cost
      /\ Purchase(pending, o).leftover = bought - pending
  BY DEF Purchase
<1> HIDE DEF bought, cost
<1> QED
  BY <1>1, <1>2, <1>3, <1>4

LEMMA KeyNumbers ==
  ASSUME NEW pending \in Nat, NEW o, Numbers(o), o.quantity > 0
  PROVE  DOMAIN Key(pending, o) = 1 .. 5 /\ \A n \in 1 .. 5 : Key(pending, o)[n] \in Nat
<1> DEFINE left == Purchase(pending, o).leftover
           cost == Purchase(pending, o).cost
           score == PackageScore(pending, o)
<1>1. left \in Nat /\ cost \in Nat
  BY PurchaseNumbers DEF Numbers
<1>2. score \in Nat
  <2>1. score = WWaste * left + WCost * cost
    BY DEF PackageScore
  <2> HIDE DEF left, cost, score
  <2> QED
    BY <1>1, <2>1, WeightAssumption
<1>3. o.id \in Nat /\ o.quantity \in Nat
  BY DEF Numbers
<1> DEFINE stock == IF o.stock THEN 0 ELSE 1
           known == IF PriceKnown(o) THEN 0 ELSE 1
<1>4. Key(pending, o) = <<stock, known, score, o.id, o.quantity>>
  BY DEF Key
<1>5. stock \in Nat /\ known \in Nat
  OBVIOUS
<1> HIDE DEF score, stock, known
<1> QED
  BY <1>2, <1>3, <1>4, <1>5

(* PackageOptimizer.choose: a usable package is chosen whenever there is   *)
(* one.                                                                    *)
LEMMA ChooseIsUsable ==
  ASSUME NEW pending \in Nat, NEW options, \A o \in options : Numbers(o),
         Usable(options) # {}
  PROVE  Choose(pending, options) \in Usable(options)
<1> DEFINE S == Usable(options)
           K == [o \in S |-> Key(pending, o)]
<1>1. \A o \in S : Numbers(o) /\ o.quantity > 0
  BY DEF Usable
<1>2. \A o \in S : DOMAIN K[o] = 1 .. 5 /\ \A n \in 1 .. 5 : K[o][n] \in Nat
  BY <1>1, KeyNumbers
<1>3. ASSUME NEW n \in 1 .. 5, NEW X \in SUBSET S, X # {}
      PROVE  \E x \in X : \A y \in X : ~(K[y][n] < K[x][n])
  <2> DEFINE v == [x \in X |-> K[x][n]]
  <2>1. \A x \in X : v[x] \in Nat
    <3> HIDE DEF K
    <3> QED
      BY <1>2, <1>3
  <2>2. \E x \in X : \A y \in X : ~(v[y] < v[x])
    <3> HIDE DEF v
    <3> QED
      BY <1>3, <2>1, LeastValue
  <2> HIDE DEF K
  <2> QED
    BY <2>2
<1>4. \E x \in S : \A y \in S : ~Before(K[y], K[x])
  <2> HIDE DEF K, S
  <2>1. S # {}
    BY DEF S
  <2> QED
    BY <1>2, <1>3, <2>1, LeastKey
<1>5. \E o \in S : \A p \in S : ~Before(Key(pending, p), Key(pending, o))
  BY <1>4
<1> QED
  BY <1>5 DEF Choose

-----------------------------------------------------------------------------
(* Products.                                                               *)

(* The recipes' ingredients, one after the other.                          *)
LEMMA NamesAreKnown ==
  ASSUME NEW p, WellFormed(p)
  PROVE  Names(p) \in Seq(DOMAIN p.pantry)
<1> DEFINE G == DOMAIN p.pantry
           of == [r \in DOMAIN p.recipes |->
                    [k \in DOMAIN p.recipes[r].needs |-> p.recipes[r].needs[k].name]]
<1>1. ASSUME NEW r \in DOMAIN p.recipes PROVE of[r] \in Seq(G)
  <2>1. p.recipes[r].needs \in Seq([name : G, quantity : Nat])
    BY DEF WellFormed
  <2> DEFINE needs == p.recipes[r].needs
  <2>2. of[r] = [k \in DOMAIN needs |-> needs[k].name]
    OBVIOUS
  <2>3. DOMAIN needs = 1 .. Len(needs) /\ Len(needs) \in Nat
        /\ \A k \in 1 .. Len(needs) : needs[k].name \in G
    <3> DEFINE R == [name : G, quantity : Nat]
    <3>1. needs \in Seq(R) /\ \A e \in R : e.name \in G
      BY <2>1
    <3> HIDE DEF needs, R
    <3> QED
      BY <3>1
  <2> HIDE DEF needs, of, G
  <2> QED
    BY <2>2, <2>3
<1>2. of \in Seq(Seq(G))
  <2>1. DOMAIN of = 1 .. Len(p.recipes) /\ Len(p.recipes) \in Nat
    BY DEF WellFormed
  <2>2. \A r \in 1 .. Len(p.recipes) : of[r] \in Seq(G)
    BY <1>1 DEF WellFormed
  <2>3. of = [r \in 1 .. Len(p.recipes) |-> of[r]]
    BY <2>1
  <2> HIDE DEF of, G
  <2> QED
    BY <2>1, <2>2, <2>3
<1>3. FlattenSeq(of) \in Seq(G)
  <2> HIDE DEF of, G
  <2> QED
    BY <1>2, FlattenIsSequence
<1> QED
  BY <1>3 DEF Names

(* ProductMatcher.match finds a product or none.                           *)
LEMMA MatchIsProduct ==
  ASSUME NEW p, WellFormed(p), NEW g
  PROVE  Match(p, g) \in DOMAIN p.catalog \cup {NoProduct}
<1> DEFINE names == Names(p)
           found == Substitutes(p, g, names)
<1>1. CASE g \in DOMAIN p.catalog
  BY <1>1 DEF Match
<1>2. CASE g \notin DOMAIN p.catalog /\ found = {}
  BY <1>2 DEF Match
<1>3. CASE g \notin DOMAIN p.catalog /\ found # {}
  <2>1. DOMAIN names \subseteq Nat
    <3> HIDE DEF names
    <3>1. names \in Seq(DOMAIN p.pantry)
      BY NamesAreKnown DEF names
    <3> QED
      BY <3>1
  <2>2. found \subseteq Nat
    BY <2>1 DEF Substitutes
  <2>3. \E n \in found : \A m \in found : n <= m
    <3> HIDE DEF found
    <3> QED
      BY <1>3, <2>2, LeastNatural
  <2>4. Min(found) \in found
    <3> HIDE DEF found
    <3> QED
      BY <2>3 DEF Min
  <2>5. names[Min(found)] \in DOMAIN p.catalog
    <3>1. \A k \in found : names[k] \in DOMAIN p.catalog
      BY DEF Substitutes
    <3> HIDE DEF found, names
    <3> QED
      BY <2>4, <3>1
  <2>6. Match(p, g) = names[Min(found)]
    BY <1>3 DEF Match
  <2> QED
    BY <2>5, <2>6
<1> QED
  BY <1>1, <1>2, <1>3

-----------------------------------------------------------------------------
(* Lines.                                                                  *)

(* What is bought and what the pantry gives cover what is needed, with     *)
(* less than a package over.                                               *)
Covers(l) == l.bought + l.pantry - l.leftover = l.needed /\ l.leftover \in 0 .. l.package - 1

SoundLine(l) ==
    /\ l.needed \in Nat /\ l.pantry \in Nat /\ l.bought \in Nat /\ l.leftover \in Nat
    /\ l.subtotal \in Nat /\ l.package \in Nat
    /\ l.known => l.package > 0 /\ ~l.expired
    /\ l.package > 0 => Covers(l)

(* _build_line, for an ingredient that the pantry knows.                   *)
LEMMA LineIsSound ==
  ASSUME NEW p, WellFormed(p), NEW g \in DOMAIN p.pantry, NEW needed \in Nat
  PROVE  /\ SoundLine(Line(p, g, needed))
         /\ Line(p, g, needed).name = g
         /\ Line(p, g, needed).product = Match(p, g)
         /\ Line(p, g, needed).needed = needed
<1> DEFINE match == Match(p, g)
           packages == IF match = NoProduct THEN {} ELSE p.catalog[match].packages
           pantry == IF packages = {} THEN 0 ELSE PantryUsed(p, g, needed)
           pending == Pending(needed, pantry)
           option == Choose(pending, packages)
           bill == IF Usable(packages) = {} THEN Priceless ELSE Priced(pending, option)
           l == Line(p, g, needed)
<1>1. l = [name |-> g, product |-> match, needed |-> needed, pantry |-> pantry,
           bought |-> bill.bought, leftover |-> bill.leftover,
           subtotal |-> bill.subtotal, known |-> bill.known,
           expired |-> bill.expired, package |-> bill.package]
  BY Zenon DEF Line, Entry
<1>2. \A o \in packages : Numbers(o)
  <2>1. CASE match = NoProduct
    BY <2>1
  <2>2. CASE match # NoProduct
    <3>1. match \in DOMAIN p.catalog
      BY <2>2, MatchIsProduct
    <3>2. packages = p.catalog[match].packages
      BY <2>2
    <3> HIDE DEF match, packages
    <3> QED
      BY <3>1, <3>2 DEF WellFormed, Numbers
  <2> QED
    BY <2>1, <2>2
<1>3. pantry \in Nat /\ pending \in Nat /\ pending + pantry = needed
  <2>1. p.pantry[g] \in Nat
    BY DEF WellFormed
  <2>2. pantry \in Nat /\ pantry <= needed
    <3> HIDE DEF packages
    <3> QED
      BY <2>1 DEF PantryUsed
  <2> HIDE DEF pantry
  <2> QED
    BY <2>2 DEF Pending
<1>4. /\ l.name = g /\ l.product = match /\ l.needed = needed /\ l.pantry = pantry
      /\ l.bought = bill.bought /\ l.leftover = bill.leftover
      /\ l.subtotal = bill.subtotal /\ l.known = bill.known
      /\ l.expired = bill.expired /\ l.package = bill.package
  <2> HIDE DEF match, pantry, bill, l
  <2> QED
    BY <1>1
<1>5. SoundLine(l)
  <2>1. CASE Usable(packages) = {}
    <3>1. bill = Priceless
      BY <2>1
    <3>2. /\ bill.bought = 0 /\ bill.leftover = 0 /\ bill.subtotal = 0
          /\ bill.known = FALSE /\ bill.package = 0
      <4> HIDE DEF bill
      <4> QED
        BY <3>1 DEF Priceless
    <3> HIDE DEF bill, pantry, l
    <3> QED
      BY <1>3, <1>4, <3>2 DEF SoundLine
  <2>2. CASE Usable(packages) # {}
    <3>1. option \in Usable(packages)
      <4> HIDE DEF packages, pending
      <4> QED
        BY <1>2, <1>3, <2>2, ChooseIsUsable
    <3>2. Numbers(option) /\ option.quantity > 0 /\ option.quantity \in Nat
      <4> HIDE DEF packages, option
      <4> QED
        BY <1>2, <3>1 DEF Usable, Numbers
    <3> DEFINE purchase == Purchase(pending, option)
    <3>3. /\ purchase.bought \in Nat /\ purchase.cost \in Nat
          /\ purchase.leftover \in 0 .. option.quantity - 1
          /\ purchase.bought - purchase.leftover = pending
      <4> HIDE DEF option, pending
      <4> QED
        BY <1>3, <3>2, PurchaseNumbers
    <3>4. bill = Priced(pending, option)
      BY <2>2
    <3>5. /\ bill.bought = purchase.bought /\ bill.leftover = purchase.leftover
          /\ bill.subtotal = purchase.cost /\ bill.package = option.quantity
          /\ bill.known = PriceKnown(option) /\ bill.expired = option.expired
      <4> HIDE DEF bill, option, pending
      <4> QED
        BY <3>4 DEF Priced
    <3>6. l.known => l.package > 0 /\ ~l.expired
      <4>1. bill.known => ~bill.expired
        <5> HIDE DEF bill, option, pending
        <5> QED
          BY <3>5, Zenon DEF PriceKnown
      <4> HIDE DEF bill, option, pending, l
      <4> QED
        BY <1>4, <3>2, <3>5, <4>1
    <3> HIDE DEF bill, option, pending, l, purchase, pantry
    <3> QED
      BY <1>3, <1>4, <3>2, <3>3, <3>5, <3>6 DEF SoundLine, Covers
  <2> QED
    BY <2>1, <2>2
<1> QED
  BY <1>4, <1>5

-----------------------------------------------------------------------------
(* The model's sums (MapThenSumSet of an operator) as sums of a function.  *)

LEMMA NeededSum ==
  ASSUME NEW S, IsFiniteSet(S)
  PROVE  MapThenSumSet(LAMBDA l : l.needed, S)
            = SumOver([l \in S |-> l.needed], S)
<1> DEFINE q == [l \in S |-> l.needed]
           Steps(f) == f = [s \in SUBSET S |->
               IF s = {} THEN 0
               ELSE Pick(s).needed + f[s \ {Pick(s)}]]
           sum == CHOOSE f : Steps(f)
<1>1. MapThenSumSet(LAMBDA l : l.needed, S) = sum[S]
  BY DEF MapThenSumSet, MapThenFoldSet, Pick
<1>2. \A f : Steps(f) <=> IsSum(f, q, S)
  <2>1. \A s \in SUBSET S : s # {} => q[Pick(s)] = Pick(s).needed
    BY PickIsElement
  <2> QED
    BY <2>1 DEF IsSum
<1>3. sum[S] = SumOver(q, S)
  <2> HIDE DEF Steps, q
  <2>1. Steps(sum)
    BY <1>2, SumExists
  <2> QED
    BY <1>2, <2>1, SumOfPart
<1> QED
  BY <1>1, <1>3

LEMMA SubtotalSum ==
  ASSUME NEW S, IsFiniteSet(S)
  PROVE  MapThenSumSet(LAMBDA l : l.subtotal, S)
            = SumOver([l \in S |-> l.subtotal], S)
<1> DEFINE q == [l \in S |-> l.subtotal]
           Steps(f) == f = [s \in SUBSET S |->
               IF s = {} THEN 0
               ELSE Pick(s).subtotal + f[s \ {Pick(s)}]]
           sum == CHOOSE f : Steps(f)
<1>1. MapThenSumSet(LAMBDA l : l.subtotal, S) = sum[S]
  BY DEF MapThenSumSet, MapThenFoldSet, Pick
<1>2. \A f : Steps(f) <=> IsSum(f, q, S)
  <2>1. \A s \in SUBSET S : s # {} => q[Pick(s)] = Pick(s).subtotal
    BY PickIsElement
  <2> QED
    BY <2>1 DEF IsSum
<1>3. sum[S] = SumOver(q, S)
  <2> HIDE DEF Steps, q
  <2>1. Steps(sum)
    BY <1>2, SumExists
  <2> QED
    BY <1>2, <2>1, SumOfPart
<1> QED
  BY <1>1, <1>3

LEMMA DemandSum ==
  ASSUME NEW demand, NEW S, IsFiniteSet(S)
  PROVE  MapThenSumSet(LAMBDA k : demand[k].quantity, S)
            = SumOver([k \in S |-> demand[k].quantity], S)
<1> DEFINE q == [k \in S |-> demand[k].quantity]
           Steps(f) == f = [s \in SUBSET S |->
               IF s = {} THEN 0
               ELSE demand[Pick(s)].quantity + f[s \ {Pick(s)}]]
           sum == CHOOSE f : Steps(f)
<1>1. MapThenSumSet(LAMBDA k : demand[k].quantity, S) = sum[S]
  BY DEF MapThenSumSet, MapThenFoldSet, Pick
<1>2. \A f : Steps(f) <=> IsSum(f, q, S)
  <2>1. \A s \in SUBSET S : s # {} => q[Pick(s)] = demand[Pick(s)].quantity
    BY PickIsElement
  <2> QED
    BY <2>1 DEF IsSum
<1>3. sum[S] = SumOver(q, S)
  <2> HIDE DEF Steps, q
  <2>1. Steps(sum)
    BY <1>2, SumExists
  <2> QED
    BY <1>2, <2>1, SumOfPart
<1> QED
  BY <1>1, <1>3

LEMMA WasteSum ==
  ASSUME NEW S, IsFiniteSet(S)
  PROVE  MapThenSumSet(LAMBDA l : (l.subtotal * l.leftover) \div l.bought, S)
            = SumOver([l \in S |-> (l.subtotal * l.leftover) \div l.bought], S)
<1> DEFINE q == [l \in S |-> (l.subtotal * l.leftover) \div l.bought]
           Steps(f) == f = [s \in SUBSET S |->
               IF s = {} THEN 0
               ELSE (Pick(s).subtotal * Pick(s).leftover) \div Pick(s).bought + f[s \ {Pick(s)}]]
           sum == CHOOSE f : Steps(f)
<1>1. MapThenSumSet(LAMBDA l : (l.subtotal * l.leftover) \div l.bought, S) = sum[S]
  BY DEF MapThenSumSet, MapThenFoldSet, Pick
<1>2. \A f : Steps(f) <=> IsSum(f, q, S)
  <2>1. \A s \in SUBSET S : s # {} => q[Pick(s)] = (Pick(s).subtotal * Pick(s).leftover) \div Pick(s).bought
    BY PickIsElement
  <2> QED
    BY <2>1 DEF IsSum
<1>3. sum[S] = SumOver(q, S)
  <2> HIDE DEF Steps, q
  <2>1. Steps(sum)
    BY <1>2, SumExists
  <2> QED
    BY <1>2, <2>1, SumOfPart
<1> QED
  BY <1>1, <1>3

LEMMA UsesSum ==
  ASSUME NEW plan, NEW S, IsFiniteSet(S)
  PROVE  MapThenSumSet(LAMBDA r : (Uses(plan, r) * (Uses(plan, r) - 1)) \div 2, S)
            = SumOver([r \in S |-> (Uses(plan, r) * (Uses(plan, r) - 1)) \div 2], S)
<1> DEFINE q == [r \in S |-> (Uses(plan, r) * (Uses(plan, r) - 1)) \div 2]
           Steps(f) == f = [s \in SUBSET S |->
               IF s = {} THEN 0
               ELSE (Uses(plan, Pick(s)) * (Uses(plan, Pick(s)) - 1)) \div 2 + f[s \ {Pick(s)}]]
           sum == CHOOSE f : Steps(f)
<1>1. MapThenSumSet(LAMBDA r : (Uses(plan, r) * (Uses(plan, r) - 1)) \div 2, S) = sum[S]
  BY DEF MapThenSumSet, MapThenFoldSet, Pick
<1>2. \A f : Steps(f) <=> IsSum(f, q, S)
  <2>1. \A s \in SUBSET S : s # {} => q[Pick(s)] = (Uses(plan, Pick(s)) * (Uses(plan, Pick(s)) - 1)) \div 2
    BY PickIsElement
  <2> QED
    BY <2>1 DEF IsSum
<1>3. sum[S] = SumOver(q, S)
  <2> HIDE DEF Steps, q
  <2>1. Steps(sum)
    BY <1>2, SumExists
  <2> QED
    BY <1>2, <2>1, SumOfPart
<1> QED
  BY <1>1, <1>3

LEMMA TasteSum ==
  ASSUME NEW p, NEW plan, NEW S, IsFiniteSet(S)
  PROVE  MapThenSumSet(LAMBDA n : p.recipes[plan[n]].taste, S)
            = SumOver([n \in S |-> p.recipes[plan[n]].taste], S)
<1> DEFINE q == [n \in S |-> p.recipes[plan[n]].taste]
           Steps(f) == f = [s \in SUBSET S |->
               IF s = {} THEN 0
               ELSE p.recipes[plan[Pick(s)]].taste + f[s \ {Pick(s)}]]
           sum == CHOOSE f : Steps(f)
<1>1. MapThenSumSet(LAMBDA n : p.recipes[plan[n]].taste, S) = sum[S]
  BY DEF MapThenSumSet, MapThenFoldSet, Pick
<1>2. \A f : Steps(f) <=> IsSum(f, q, S)
  <2>1. \A s \in SUBSET S : s # {} => q[Pick(s)] = p.recipes[plan[Pick(s)]].taste
    BY PickIsElement
  <2> QED
    BY <2>1 DEF IsSum
<1>3. sum[S] = SumOver(q, S)
  <2> HIDE DEF Steps, q
  <2>1. Steps(sum)
    BY <1>2, SumExists
  <2> QED
    BY <1>2, <2>1, SumOfPart
<1> QED
  BY <1>1, <1>3

-----------------------------------------------------------------------------
(* What a plan asks for and the lines it is bought in.                     *)

Plans(p) == Seq(DOMAIN p.recipes)

(* The ingredients of every recipe of the plan are in A.                   *)
AsksFor(p, plan, A) == \A n \in DOMAIN plan : Ingredients(p.recipes[plan[n]]) \subseteq A

LEMMA DemandIsSequence ==
  ASSUME NEW p, WellFormed(p), NEW plan \in Plans(p), NEW A, AsksFor(p, plan, A)
  PROVE  Demand(p, plan) \in Seq([name : DOMAIN p.pantry \cap A, quantity : Nat])
<1> DEFINE G == DOMAIN p.pantry
           R == [name : G, quantity : Nat]
           E == [name : G \cap A, quantity : Nat]
           of == [n \in DOMAIN plan |-> p.recipes[plan[n]].needs]
<1>1. DOMAIN plan = 1 .. Len(plan) /\ Len(plan) \in Nat
      /\ \A n \in 1 .. Len(plan) : plan[n] \in DOMAIN p.recipes
  <2> DEFINE D == DOMAIN p.recipes
  <2>1. plan \in Seq(D)
    BY DEF Plans
  <2> HIDE DEF D
  <2>2. DOMAIN plan = 1 .. Len(plan) /\ Len(plan) \in Nat
        /\ \A n \in 1 .. Len(plan) : plan[n] \in D
    BY <2>1
  <2> QED
    BY <2>2 DEF D
<1>2. ASSUME NEW n \in 1 .. Len(plan) PROVE of[n] \in Seq(E)
  <2> DEFINE needs == p.recipes[plan[n]].needs
  <2>1. needs \in Seq(R)
    BY <1>1 DEF WellFormed
  <2>2. \A k \in DOMAIN needs : needs[k].name \in A
    BY <1>1 DEF AsksFor, Ingredients
  <2>3. \A e \in R : e.name \in A => e \in E
    OBVIOUS
  <2>4. of[n] = needs
    BY <1>1
  <2> HIDE DEF needs, R, E, of
  <2>5. /\ DOMAIN needs = 1 .. Len(needs) /\ Len(needs) \in Nat
        /\ \A k \in 1 .. Len(needs) : needs[k] \in R
        /\ needs = [k \in 1 .. Len(needs) |-> needs[k]]
    BY <2>1
  <2>6. \A k \in 1 .. Len(needs) : needs[k] \in E
    BY <2>2, <2>3, <2>5
  <2>7. needs \in Seq(E)
    BY <2>5, <2>6
  <2> QED
    BY <2>4, <2>7
<1>3. of \in Seq(Seq(E))
  <2>1. of = [n \in 1 .. Len(plan) |-> of[n]]
    BY <1>1
  <2> HIDE DEF of, E
  <2> QED
    BY <1>1, <1>2, <2>1
<1>4. FlattenSeq(of) \in Seq(E)
  <2> HIDE DEF of, E
  <2> QED
    BY <1>3, FlattenIsSequence
<1> QED
  BY <1>4 DEF Demand

(* The names and the quantities of the demand, position by position.       *)
Keys(p, plan) == [k \in DOMAIN Demand(p, plan) |-> LineKey(p, Demand(p, plan)[k].name)]
Quantity(p, plan) == [k \in DOMAIN Demand(p, plan) |-> Demand(p, plan)[k].quantity]
Firsts(keys) == {i \in DOMAIN keys : \A j \in 1 .. i - 1 : keys[j] # keys[i]}
LineAt(p, plan, k) ==
    Line(p, Demand(p, plan)[k].name, Merged(Keys(p, plan), k, Quantity(p, plan)))

LEMMA ProvisionByKey ==
  \A p, plan : Provision(p, plan) = {LineAt(p, plan, k) : k \in Firsts(Keys(p, plan))}
BY DEF Provision, LineAt, Keys, Quantity, Firsts

LEMMA DemandParts ==
  ASSUME NEW p, WellFormed(p), NEW plan \in Plans(p), NEW A, AsksFor(p, plan, A)
  PROVE  /\ IsFiniteSet(DOMAIN Demand(p, plan))
         /\ DOMAIN Demand(p, plan) = 1 .. Len(Demand(p, plan)) /\ Len(Demand(p, plan)) \in Nat
         /\ DOMAIN Keys(p, plan) = DOMAIN Demand(p, plan)
         /\ \A k \in DOMAIN Demand(p, plan) :
               /\ Demand(p, plan)[k].name \in DOMAIN p.pantry \cap A
               /\ Demand(p, plan)[k].quantity \in Nat
               /\ Keys(p, plan)[k] = LineKey(p, Demand(p, plan)[k].name)
               /\ Quantity(p, plan)[k] = Demand(p, plan)[k].quantity
<1> DEFINE demand == Demand(p, plan)
           G == DOMAIN p.pantry \cap A
           E == [name : G, quantity : Nat]
<1>1. demand \in Seq(E)
  BY DemandIsSequence
<1>2. \A e \in E : e.name \in G /\ e.quantity \in Nat
  OBVIOUS
<1>3. DOMAIN demand = 1 .. Len(demand) /\ Len(demand) \in Nat
      /\ \A k \in 1 .. Len(demand) : demand[k] \in E
  <2> HIDE DEF demand, E
  <2> QED
    BY <1>1
<1>4. IsFiniteSet(DOMAIN demand)
  <2> HIDE DEF demand
  <2> QED
    BY <1>3, FS_Interval
<1>5. \A k \in DOMAIN demand : demand[k].name \in G /\ demand[k].quantity \in Nat
  <2> HIDE DEF demand, G, E
  <2> QED
    BY <1>2, <1>3
<1>6. /\ DOMAIN Keys(p, plan) = DOMAIN demand
      /\ \A k \in DOMAIN demand : /\ Keys(p, plan)[k] = LineKey(p, demand[k].name)
                                  /\ Quantity(p, plan)[k] = demand[k].quantity
  <2> HIDE DEF demand
  <2> QED
    BY DEF Keys, Quantity, demand
<1> QED
  BY <1>3, <1>4, <1>5, <1>6

(* What a line sums is a sum of what was asked for.                        *)
LEMMA MergedIsSum ==
  ASSUME NEW p, WellFormed(p), NEW plan \in Plans(p), NEW A, AsksFor(p, plan, A),
         NEW k \in DOMAIN Demand(p, plan)
  PROVE  /\ Merged(Keys(p, plan), k, Quantity(p, plan))
              = SumOver(Quantity(p, plan),
                        {j \in DOMAIN Demand(p, plan) :
                            Keys(p, plan)[j] = Keys(p, plan)[k]})
         /\ Merged(Keys(p, plan), k, Quantity(p, plan)) \in Nat
<1> DEFINE keys == Keys(p, plan)
           quantity == Quantity(p, plan)
           D == DOMAIN Demand(p, plan)
           J == {j \in D : keys[j] = keys[k]}
<1>1. IsFiniteSet(J) /\ \A j \in J : quantity[j] \in Nat
  <2>1. IsFiniteSet(D) /\ \A j \in D : quantity[j] \in Nat
    BY DemandParts
  <2>2. J \subseteq D
    OBVIOUS
  <2> HIDE DEF J, D, quantity
  <2> QED
    BY <2>1, <2>2, FS_Subset
<1>2. MapThenSumSet(LAMBDA j : quantity[j], J) = SumOver(quantity, J)
      /\ SumOver(quantity, J) \in Nat
  <2> HIDE DEF J, quantity
  <2> QED
    BY <1>1, FoldIsSum, SumNatural
<1>3. DOMAIN keys = D
  BY DemandParts
<1>4. Merged(keys, k, quantity) = MapThenSumSet(LAMBDA j : quantity[j], J)
  BY <1>3 DEF Merged
<1> QED
  BY <1>2, <1>4

(* Every line of a plan is sound, and is named for an ingredient of it.    *)
LEMMA ProvisionIsSound ==
  ASSUME NEW p, WellFormed(p), NEW plan \in Plans(p), NEW A, AsksFor(p, plan, A)
  PROVE  /\ \A l \in Provision(p, plan) :
               /\ SoundLine(l) /\ l.name \in A /\ l.name \in DOMAIN p.pantry
               /\ l.product = Match(p, l.name)
         /\ IsFiniteSet(Provision(p, plan))
<1> DEFINE keys == Keys(p, plan)
           R == Firsts(keys)
           merged(k) == Merged(keys, k, Quantity(p, plan))
<1>1. R \subseteq DOMAIN Demand(p, plan) /\ IsFiniteSet(R)
  <2>1. R \subseteq DOMAIN keys
    BY DEF Firsts
  <2>2. DOMAIN keys = DOMAIN Demand(p, plan) /\ IsFiniteSet(DOMAIN Demand(p, plan))
    BY DemandParts
  <2> HIDE DEF R, keys
  <2> QED
    BY <2>1, <2>2, FS_Subset
<1>2. ASSUME NEW k \in R
      PROVE  /\ SoundLine(LineAt(p, plan, k)) /\ LineAt(p, plan, k).name \in A
             /\ LineAt(p, plan, k).name \in DOMAIN p.pantry
             /\ LineAt(p, plan, k).product = Match(p, LineAt(p, plan, k).name)
  <2> DEFINE g == Demand(p, plan)[k].name
  <2>1. g \in DOMAIN p.pantry /\ g \in A
    BY <1>1, DemandParts
  <2>2. merged(k) \in Nat
    BY <1>1, MergedIsSum
  <2>3. LineAt(p, plan, k) = Line(p, g, merged(k))
    BY DEF LineAt
  <2> HIDE DEF g, merged
  <2> QED
    BY <2>1, <2>2, <2>3, LineIsSound
<1>3. IsFiniteSet({LineAt(p, plan, k) : k \in R})
  <2> DEFINE L == {LineAt(p, plan, k) : k \in R}
             f == [k \in R |-> LineAt(p, plan, k)]
  <2>1. f \in Surjection(R, L)
    BY DEF Surjection
  <2> HIDE DEF f, L, R
  <2>2. IsFiniteSet(L)
    BY <1>1, <2>1, FS_Surjection
  <2> QED
    BY <2>2 DEF L
<1> QED
  BY <1>2, <1>3, ProvisionByKey

(* No two lines are of one key, and every ingredient asked for has a line. *)
LEMMA FirstsAreOfAllKeys ==
  ASSUME NEW p, WellFormed(p), NEW plan \in Plans(p)
  PROVE  LET keys == Keys(p, plan)
         IN /\ Firsts(keys) \subseteq DOMAIN Demand(p, plan)
            /\ \A r, t \in Firsts(keys) : keys[r] = keys[t] => r = t
            /\ \A j \in DOMAIN Demand(p, plan) : \E r \in Firsts(keys) : keys[j] = keys[r]
<1> DEFINE keys == Keys(p, plan)
           N == Len(Demand(p, plan))
<1>1. AsksFor(p, plan, UNION {Ingredients(p.recipes[plan[n]]) : n \in DOMAIN plan})
  BY DEF AsksFor
<1>2. DOMAIN Demand(p, plan) = 1 .. N /\ N \in Nat /\ DOMAIN keys = 1 .. N
  <2> DEFINE A == UNION {Ingredients(p.recipes[plan[n]]) : n \in DOMAIN plan}
  <2>1. AsksFor(p, plan, A)
    BY <1>1
  <2> HIDE DEF A
  <2> QED
    BY <2>1, DemandParts
<1> HIDE DEF keys, N
<1>3. \A r, t \in Firsts(keys) : keys[r] = keys[t] => r = t
  <2> SUFFICES ASSUME NEW r \in Firsts(keys), NEW t \in Firsts(keys), keys[r] = keys[t],
                      r < t \/ t < r
               PROVE  FALSE
    BY <1>2 DEF Firsts
  <2>1. r \in 1 .. N /\ t \in 1 .. N
    BY <1>2 DEF Firsts
  <2>2. CASE r < t
    <3>1. r \in 1 .. t - 1
      BY <1>2, <2>1, <2>2
    <3> QED
      BY <3>1 DEF Firsts
  <2>3. CASE t < r
    <3>1. t \in 1 .. r - 1
      BY <1>2, <2>1, <2>3
    <3> QED
      BY <3>1 DEF Firsts
  <2> QED
    BY <2>2, <2>3
<1>4. ASSUME NEW j \in 1 .. N PROVE \E r \in Firsts(keys) : keys[j] = keys[r]
  <2> DEFINE C == {i \in 1 .. N : keys[i] = keys[j]}
  <2>1. C \subseteq Nat /\ j \in C
    BY <1>2
  <2>2. PICK r \in C : \A i \in C : r <= i
    <3> HIDE DEF C
    <3> QED
      BY <2>1, LeastNatural
  <2>3. \A i \in 1 .. r - 1 : i \in 1 .. N /\ ~(r <= i)
    BY <1>2, <2>2
  <2>4. \A i \in 1 .. r - 1 : keys[i] # keys[r]
    BY <2>2, <2>3
  <2>5. r \in Firsts(keys)
    BY <1>2, <2>2, <2>4 DEF Firsts
  <2> QED
    BY <2>2, <2>5
<1>5. Firsts(keys) \subseteq 1 .. N
  BY <1>2 DEF Firsts
<1> QED
  BY <1>2, <1>3, <1>4, <1>5 DEF keys

(* No demand is lost when ingredients share a line, and none counts twice. *)
LEMMA NothingIsLost ==
  ASSUME NEW p, WellFormed(p), NEW plan \in Plans(p)
  PROVE  MapThenSumSet(LAMBDA l : l.needed, Provision(p, plan))
            = MapThenSumSet(LAMBDA k : Demand(p, plan)[k].quantity, DOMAIN Demand(p, plan))
<1> DEFINE A == UNION {Ingredients(p.recipes[plan[n]]) : n \in DOMAIN plan}
           demand == Demand(p, plan)
           D == DOMAIN demand
           keys == Keys(p, plan)
           quantity == Quantity(p, plan)
           R == Firsts(keys)
           lines == Provision(p, plan)
           line == [r \in R |-> LineAt(p, plan, r)]
           needed == [l \in lines |-> l.needed]
           sameKey == [r \in R |-> {j \in D : keys[j] = keys[r]}]
           byKey == [r \in R |-> SumOver(quantity, sameKey[r])]
<1>1. AsksFor(p, plan, A)
  BY DEF AsksFor
<1> HIDE DEF A
<1>2. /\ IsFiniteSet(D) /\ D = 1 .. Len(demand)
      /\ \A j \in D : /\ quantity[j] \in Nat /\ demand[j].name \in DOMAIN p.pantry
                      /\ keys[j] = LineKey(p, demand[j].name)
  BY <1>1, DemandParts
<1>3. /\ R \subseteq D
      /\ \A r, t \in R : keys[r] = keys[t] => r = t
      /\ \A j \in D : \E r \in R : keys[j] = keys[r]
  BY FirstsAreOfAllKeys
<1>4. IsFiniteSet(R) /\ IsFiniteSet(lines) /\ lines = {line[r] : r \in R}
  <2>1. IsFiniteSet(lines)
    BY <1>1, ProvisionIsSound
  <2>2. lines = {line[r] : r \in R}
    BY ProvisionByKey
  <2> HIDE DEF R, D, lines, line
  <2> QED
    BY <1>2, <1>3, <2>1, <2>2, FS_Subset
<1>5. ASSUME NEW r \in R
      PROVE  /\ line[r].name = demand[r].name /\ line[r].needed \in Int
             /\ needed[line[r]] = byKey[r]
  <2> DEFINE merged == Merged(keys, r, quantity)
  <2>1. r \in D
    BY <1>3
  <2>2. line[r] = Line(p, demand[r].name, merged)
    BY DEF LineAt
  <2>3. merged \in Nat /\ merged = byKey[r]
    BY <1>1, <2>1, MergedIsSum
  <2>4. line[r].name = demand[r].name /\ line[r].needed = merged
    <3> HIDE DEF line, merged, demand
    <3> QED
      BY <1>2, <2>1, <2>2, <2>3, LineIsSound DEF demand
  <2>5. needed[line[r]] = line[r].needed
    <3> HIDE DEF line, lines, R
    <3>1. line[r] \in lines
      BY <1>4
    <3> QED
      BY <3>1
  <2> QED
    BY <2>3, <2>4, <2>5
<1>6. \A r, t \in R : line[r] = line[t] => r = t
  <2> SUFFICES ASSUME NEW r \in R, NEW t \in R, line[r] = line[t] PROVE keys[r] = keys[t]
    BY <1>3
  <2>1. demand[r].name = demand[t].name
    <3> HIDE DEF line, demand, needed, byKey, lines, R
    <3>1. \A u \in R : line[u].name = demand[u].name
      BY <1>5
    <3> QED
      BY <3>1
  <2> QED
    <3> HIDE DEF keys, demand, R, D
    <3> QED
      BY <1>2, <1>3, <2>1
<1>7. \A r \in R : needed[line[r]] \in Int
  <2>1. \A r \in R : needed[line[r]] = line[r].needed
    BY <1>4
  <2> HIDE DEF needed, line, R
  <2> QED
    BY <1>5, <2>1
<1>8. SumOver(needed, lines) = SumOver(byKey, R)
  <2> DEFINE at == [r \in R |-> needed[line[r]]]
  <2>1. SumOver(needed, {line[r] : r \in R}) = SumOver(at, R)
    <3> HIDE DEF R, line, needed
    <3> QED
      BY <1>4, <1>6, <1>7, SumOfImage
  <2>2. \A r \in R : at[r] = byKey[r]
    <3>1. \A r \in R : at[r] = needed[line[r]]
      BY Zenon
    <3> HIDE DEF at, byKey, needed, line, R
    <3> QED
      BY <1>5, <3>1
  <2>3. SumOver(at, R) = SumOver(byKey, R)
    <3> HIDE DEF at, byKey, R
    <3> QED
      BY <1>4, <2>2, SumSame
  <2> HIDE DEF at, byKey, needed, line, lines, R
  <2> QED
    BY <1>4, <2>1, <2>3
<1>9. SumOver(byKey, R) = SumOver(quantity, D)
  <2>1. \A j \in D : quantity[j] \in Int
    <3> HIDE DEF D, quantity
    <3> QED
      BY <1>2
  <2>2. \A r \in R : \A j : j \in sameKey[r] <=> j \in D /\ keys[j] = keys[r]
    <3> HIDE DEF D, R, keys
    <3> QED
      OBVIOUS
  <2>3. \A r \in R : byKey[r] = SumOver(quantity, sameKey[r])
    <3> HIDE DEF R, quantity, sameKey
    <3> QED
      OBVIOUS
  <2> HIDE DEF D, R, keys, quantity, sameKey, byKey
  <2>4. Grouped(byKey, R, sameKey, keys, quantity, D)
    BY <1>3, <2>2, <2>3 DEF Grouped
  <2> QED
    BY <1>2, <2>1, <2>4, SumByKey
<1>10. MapThenSumSet(LAMBDA l : l.needed, lines) = SumOver(needed, lines)
  <2> HIDE DEF lines
  <2> QED
    BY <1>4, NeededSum
<1>11. MapThenSumSet(LAMBDA k : demand[k].quantity, D) = SumOver(quantity, D)
  <2>1. quantity = [k \in D |-> demand[k].quantity]
    BY DEF Quantity
  <2> HIDE DEF D, demand, quantity
  <2> QED
    BY <1>2, <2>1, DemandSum
<1> QED
  BY <1>8, <1>9, <1>10, <1>11

(* compute_coverage says "complete" of a plan only if it has no line that  *)
(* is estimated, expired or without a package.                             *)
LEMMA CompletePlan ==
  ASSUME NEW p, WellFormed(p), NEW plan \in Plans(p), NEW A, AsksFor(p, plan, A),
         Coverage(Provision(p, plan)) = "complete"
  PROVE  /\ Estimated(Provision(p, plan)) = 0
         /\ \A l \in Provision(p, plan) : l.package > 0 /\ ~l.expired
<1> DEFINE lines == Provision(p, plan)
<1>1. \A l \in lines : l.known => l.package > 0 /\ ~l.expired
  BY ProvisionIsSound DEF SoundLine
<1> HIDE DEF lines
<1>2. lines = {} \/ PricedLines(lines) = lines
  BY Zenon DEF Coverage, lines
<1>3. \A l \in lines : l.known
  BY <1>2 DEF PricedLines
<1>4. {l \in lines : ~l.known} = {}
  BY <1>3
<1>5. Estimated(lines) = 0
  <2>1. IsFiniteSet({})
    BY FS_EmptySet
  <2>2. Estimated(lines) = Total({})
    BY <1>4 DEF Estimated
  <2> DEFINE none == [l \in {} |-> l.subtotal]
  <2>3. Total({}) = SumOver(none, {})
    BY <2>1, SubtotalSum DEF Total
  <2> HIDE DEF none
  <2> QED
    BY <2>2, <2>3, SumEmpty
<1> QED
  BY <1>1, <1>3, <1>5 DEF lines

(* A plan's score, and what it costs, are numbers.                         *)
LEMMA TotalIsNatural ==
  ASSUME NEW p, WellFormed(p), NEW plan \in Plans(p), NEW A, AsksFor(p, plan, A)
  PROVE  Total(Provision(p, plan)) \in Nat
<1> DEFINE lines == Provision(p, plan)
           subtotal == [l \in lines |-> l.subtotal]
<1>1. IsFiniteSet(lines) /\ \A l \in lines : l.subtotal \in Nat
  BY ProvisionIsSound DEF SoundLine
<1>2. SumOver(subtotal, lines) \in Nat
  <2>1. \A l \in lines : subtotal[l] \in Nat
    BY <1>1
  <2> HIDE DEF subtotal, lines
  <2> QED
    BY <1>1, <2>1, SumNatural
<1>3. Total(lines) = SumOver(subtotal, lines)
  <2> HIDE DEF lines
  <2> QED
    BY <1>1, SubtotalSum DEF Total
<1> QED
  BY <1>2, <1>3

LEMMA WasteIsInteger ==
  ASSUME NEW p, WellFormed(p), NEW plan \in Plans(p), NEW A, AsksFor(p, plan, A)
  PROVE  WasteValue(Provision(p, plan)) \in Int
<1> DEFINE S == {l \in Provision(p, plan) : l.bought > 0}
           waste == [l \in S |-> (l.subtotal * l.leftover) \div l.bought]
<1>1. IsFiniteSet(S)
  <2>1. IsFiniteSet(Provision(p, plan)) /\ S \subseteq Provision(p, plan)
    BY ProvisionIsSound
  <2> HIDE DEF S
  <2> QED
    BY <2>1, FS_Subset
<1>2. ASSUME NEW l \in S PROVE waste[l] \in Int
  <2> DEFINE value == l.subtotal * l.leftover
  <2>1. l.subtotal \in Nat /\ l.leftover \in Nat /\ l.bought \in Nat /\ l.bought > 0
    BY ProvisionIsSound DEF SoundLine
  <2>2. value \in Nat
    BY <2>1
  <2>3. value \div l.bought \in Int
    <3> HIDE DEF value
    <3> QED
      BY <2>1, <2>2
  <2>4. waste[l] = value \div l.bought
    OBVIOUS
  <2> QED
    BY <2>3, <2>4
<1>3. SumOver(waste, S) \in Int
  <2> HIDE DEF waste, S
  <2> QED
    BY <1>1, <1>2, SumInteger
<1>4. WasteValue(Provision(p, plan)) = SumOver(waste, S)
  <2>1. WasteValue(Provision(p, plan))
          = MapThenSumSet(LAMBDA l : (l.subtotal * l.leftover) \div l.bought, S)
    BY DEF WasteValue
  <2> HIDE DEF S
  <2> QED
    BY <1>1, <2>1, WasteSum
<1> QED
  BY <1>3, <1>4

LEMMA RepetitionIsInteger ==
  ASSUME NEW p, WellFormed(p), NEW plan \in Plans(p)
  PROVE  Repetition(p, plan) \in Int
<1> DEFINE S == DOMAIN p.recipes
           twice == [r \in S |-> (Uses(plan, r) * (Uses(plan, r) - 1)) \div 2]
<1>1. IsFiniteSet(S) /\ IsFiniteSet(DOMAIN plan)
  <2>1. S = 1 .. Len(p.recipes) /\ Len(p.recipes) \in Nat
    BY DEF WellFormed
  <2>2. DOMAIN plan = 1 .. Len(plan) /\ Len(plan) \in Nat
    <3> HIDE DEF S
    <3>1. plan \in Seq(S)
      BY DEF Plans, S
    <3> QED
      BY <3>1
  <2> HIDE DEF S
  <2> QED
    BY <2>1, <2>2, FS_Interval
<1>2. ASSUME NEW r \in S PROVE twice[r] \in Int
  <2> DEFINE U == {n \in DOMAIN plan : plan[n] = r}
             u == Uses(plan, r)
             product == u * (u - 1)
  <2>1. u \in Nat
    <3>1. U \subseteq DOMAIN plan /\ u = Cardinality(U)
      BY DEF Uses
    <3> HIDE DEF U, u
    <3> QED
      BY <1>1, <3>1, FS_Subset, FS_CardinalityType
  <2>2. product \in Int
    <3> HIDE DEF u
    <3> QED
      BY <2>1
  <2>3. product \div 2 \in Int
    <3> HIDE DEF product
    <3> QED
      BY <2>2
  <2>4. twice[r] = product \div 2
    OBVIOUS
  <2> QED
    BY <2>3, <2>4
<1>3. SumOver(twice, S) \in Int
  <2> HIDE DEF twice, S
  <2> QED
    BY <1>1, <1>2, SumInteger
<1>4. Repetition(p, plan) = SumOver(twice, S)
  <2>1. Repetition(p, plan)
          = MapThenSumSet(LAMBDA r : (Uses(plan, r) * (Uses(plan, r) - 1)) \div 2, S)
    BY DEF Repetition
  <2> HIDE DEF S
  <2> QED
    BY <1>1, <2>1, UsesSum
<1> QED
  BY <1>3, <1>4

Tastes(p, plan) == MapThenSumSet(LAMBDA n : p.recipes[plan[n]].taste, DOMAIN plan)

LEMMA TasteIsInteger ==
  ASSUME NEW p, WellFormed(p), NEW plan \in Plans(p)
  PROVE  IsFiniteSet(DOMAIN plan) /\ Tastes(p, plan) \in Int
<1> DEFINE S == DOMAIN plan
           taste == [n \in S |-> p.recipes[plan[n]].taste]
           D == DOMAIN p.recipes
<1>1. /\ S = 1 .. Len(plan) /\ Len(plan) \in Nat
      /\ \A n \in S : plan[n] \in D
  <2> HIDE DEF D
  <2>1. plan \in Seq(D)
    BY DEF Plans, D
  <2> QED
    BY <2>1
<1>2. IsFiniteSet(S)
  <2> HIDE DEF S
  <2> QED
    BY <1>1, FS_Interval
<1>3. \A n \in S : taste[n] \in Int
  BY <1>1 DEF WellFormed
<1>4. SumOver(taste, S) \in Int
  <2> HIDE DEF taste, S
  <2> QED
    BY <1>2, <1>3, SumInteger
<1>5. MapThenSumSet(LAMBDA n : p.recipes[plan[n]].taste, S) = SumOver(taste, S)
  <2> HIDE DEF S
  <2> QED
    BY <1>2, TasteSum
<1> QED
  BY <1>2, <1>4, <1>5 DEF Tastes

LEMMA MetricIsInteger ==
  ASSUME NEW p, WellFormed(p), NEW plan \in Plans(p), NEW costOnly
  PROVE  Metric(p, plan, costOnly) \in Int
<1> DEFINE A == UNION {Ingredients(p.recipes[plan[n]]) : n \in DOMAIN plan}
           lines == Provision(p, plan)
           total == Total(lines)
           waste == WasteValue(lines)
           repetition == Repetition(p, plan)
           taste == Tastes(p, plan)
           P == {l \in lines : l.pantry > 0}
           pantry == Cardinality(P)
           X == RejectedIn(p, plan)
           rejected == Cardinality(X)
           over == OverLimit(p, lines)
<1>1. AsksFor(p, plan, A)
  BY DEF AsksFor
<1> HIDE DEF A
<1>2. total \in Nat /\ waste \in Int /\ IsFiniteSet(lines)
  BY <1>1, TotalIsNatural, WasteIsInteger, ProvisionIsSound
<1>3. repetition \in Int /\ taste \in Int
  BY RepetitionIsInteger, TasteIsInteger
<1>4. pantry \in Nat
  <2>1. P \subseteq lines
    OBVIOUS
  <2> HIDE DEF P, lines
  <2> QED
    BY <1>2, <2>1, FS_Subset, FS_CardinalityType
<1>5. rejected \in Nat
  <2>1. X \subseteq DOMAIN plan /\ IsFiniteSet(DOMAIN plan)
    BY TasteIsInteger DEF RejectedIn
  <2> HIDE DEF X
  <2> QED
    BY <2>1, FS_Subset, FS_CardinalityType
<1>6. over \in Int
  <2>1. Limit(p) \in Nat
    BY DEF WellFormed, Limit
  <2>2. over = IF total > Limit(p) THEN total - Limit(p) ELSE 0
    BY DEF OverLimit
  <2> HIDE DEF total, over
  <2> QED
    BY <1>2, <2>1, <2>2
<1>7. Score(p, plan) = WWaste * waste + WRepetition * repetition + taste
                        - WPantry * pantry + WRejected * rejected
                        + (IF p.byPrice THEN WCost * total ELSE 0)
                        + BudgetPenalty * over
  BY DEF Score, Tastes
<1>8. Score(p, plan) \in Int
  <2> HIDE DEF total, waste, repetition, taste, pantry, rejected, over
  <2> DEFINE a == WWaste * waste
             b == WRepetition * repetition
             c == WPantry * pantry
             d == WRejected * rejected
             e == IF p.byPrice THEN WCost * total ELSE 0
             f == BudgetPenalty * over
  <2>1. a \in Int /\ b \in Int /\ c \in Int /\ d \in Int /\ e \in Int /\ f \in Int
    <3>1. WWaste \in Int /\ WCost \in Int
      BY WeightAssumption
    <3>2. a \in Int
      BY <1>2, <3>1
    <3>3. b \in Int
      BY <1>3, ScoreAssumption
    <3>4. c \in Int
      BY <1>4, ScoreAssumption
    <3>5. d \in Int
      BY <1>5, ScoreAssumption
    <3>6. e \in Int
      BY <1>2, <3>1
    <3>7. f \in Int
      BY <1>6, ScoreAssumption
    <3> QED
      BY <3>2, <3>3, <3>4, <3>5, <3>6, <3>7
  <2>2. Score(p, plan) = a + b + taste - c + d + e + f
    BY <1>7
  <2> HIDE DEF a, b, c, d, e, f
  <2> QED
    BY <1>3, <2>1, <2>2
<1>9. Cost(p, plan) \in Int
  BY <1>2 DEF Cost
<1> QED
  BY <1>8, <1>9 DEF Metric

-----------------------------------------------------------------------------
(* The greedy seed.                                                        *)

(* A recipe from the slot's own, whatever the others cost.                 *)
LEMMA ExtendServes ==
  ASSUME NEW p, WellFormed(p), NEW plan \in Plans(p), NEW costOnly,
         NEW fits, fits \subseteq DOMAIN p.recipes, fits # {}
  PROVE  \E r \in fits : Extend(p, plan, fits, costOnly) = Append(plan, r)
<1> DEFINE metric == [r \in fits |-> Metric(p, Append(plan, r), costOnly)]
           K == [r \in fits |-> <<metric[r], r>>]
           D == DOMAIN p.recipes
<1>1. D = 1 .. Len(p.recipes) /\ Len(p.recipes) \in Nat
  BY DEF WellFormed
<1>2. IsFiniteSet(fits) /\ \A r \in fits : r \in Int
  <2>1. IsFiniteSet(D) /\ fits \subseteq D /\ D \subseteq Int
    <3> HIDE DEF D
    <3> QED
      BY <1>1, FS_Interval DEF D
  <2> HIDE DEF D
  <2> QED
    BY <2>1, FS_Subset
<1>3. ASSUME NEW r \in fits PROVE metric[r] \in Int
  <2> DEFINE longer == Append(plan, r)
  <2>1. longer \in Plans(p)
    <3>1. r \in D
      OBVIOUS
    <3> HIDE DEF D
    <3>2. plan \in Seq(D)
      BY DEF Plans, D
    <3>3. longer \in Seq(D)
      BY <3>1, <3>2
    <3> QED
      BY <3>3 DEF Plans, D
  <2>2. metric[r] = Metric(p, longer, costOnly)
    OBVIOUS
  <2> HIDE DEF longer, metric
  <2> QED
    BY <2>1, <2>2, MetricIsInteger
<1>4. \A r \in fits : /\ DOMAIN K[r] = 1 .. 2
                      /\ K[r][1] = metric[r] /\ K[r][2] = r
                      /\ \A n \in 1 .. 2 : K[r][n] \in Int
  <2> HIDE DEF metric
  <2> QED
    BY <1>2, <1>3
<1>5. ASSUME NEW n \in 1 .. 2, NEW X \in SUBSET fits, X # {}
      PROVE  \E x \in X : \A y \in X : ~(K[y][n] < K[x][n])
  <2> DEFINE v == [x \in X |-> K[x][n]]
  <2>1. \A x \in X : v[x] \in Int
    <3> HIDE DEF K
    <3> QED
      BY <1>4, <1>5
  <2>2. IsFiniteSet(X)
    BY <1>2, FS_Subset
  <2>3. \E x \in X : \A y \in X : ~(v[y] < v[x])
    <3> HIDE DEF v
    <3> QED
      BY <1>5, <2>1, <2>2, LeastInteger
  <2> HIDE DEF K
  <2> QED
    BY <2>3
<1>6. \E x \in fits : \A y \in fits : ~Before(K[y], K[x])
  <2>1. 2 \in Nat /\ \A x \in fits : DOMAIN K[x] = 1 .. 2
    BY <1>4
  <2>2. \A n \in 1 .. 2 : \A X \in SUBSET fits : X # {} =>
           \E x \in X : \A y \in X : ~(K[y][n] < K[x][n])
    BY <1>5
  <2> HIDE DEF K
  <2> QED
    BY <2>1, <2>2, LeastKey
<1>7. \E r \in fits : \A q \in fits : ~Before(<<metric[q], q>>, <<metric[r], r>>)
  <2> HIDE DEF metric
  <2> QED
    BY <1>6
<1> QED
  <2> DEFINE best == CHOOSE r \in fits :
                        \A q \in fits : ~Before(<<metric[q], q>>, <<metric[r], r>>)
  <2>1. best \in fits
    <3> HIDE DEF metric
    <3> QED
      BY <1>7
  <2>2. Extend(p, plan, fits, costOnly) = Append(plan, best)
    BY Zenon DEF Extend
  <2> HIDE DEF best
  <2> QED
    BY <2>1, <2>2

(* A recipe for every slot, from the slot's own.                           *)
Serves(plan, feasibles) ==
    Len(plan) = Len(feasibles) /\ \A n \in DOMAIN plan : plan[n] \in feasibles[n]

LEMMA GreedyServes ==
  ASSUME NEW p, WellFormed(p), NEW costOnly, NEW fits \in Seq(SUBSET (DOMAIN p.recipes)),
         \A n \in DOMAIN fits : fits[n] # {}
  PROVE  Greedy(p, fits, costOnly) \in Plans(p) /\ Serves(Greedy(p, fits, costOnly), fits)
<1> DEFINE Part(f, n) == f = [i \in 0 .. n |->
                            IF i = 0 THEN <<>> ELSE Extend(p, f[i - 1], fits[i], costOnly)]
           T == {n \in Nat : \E f : Part(f, n)}
           N == Len(fits)
           D == DOMAIN p.recipes
<1>1. /\ N \in Nat /\ DOMAIN fits = 1 .. N
      /\ \A i \in 1 .. N : fits[i] \subseteq D /\ fits[i] # {}
  <2> DEFINE R == SUBSET D
  <2>1. fits \in Seq(R)
    OBVIOUS
  <2> HIDE DEF R
  <2>2. N \in Nat /\ DOMAIN fits = 1 .. N /\ \A i \in 1 .. N : fits[i] \in R
    BY <2>1
  <2> QED
    BY <2>2 DEF R
<1>2. 0 \in T
  <2>1. Part([i \in 0 .. 0 |-> <<>>], 0)
    OBVIOUS
  <2>2. \E f : Part(f, 0)
    BY <2>1
  <2> HIDE DEF Part
  <2> QED
    BY <2>2
<1>3. ASSUME NEW n \in Nat, n \in T PROVE n + 1 \in T
  <2>1. PICK f : Part(f, n)
    BY <1>3
  <2> DEFINE g == [i \in 0 .. n + 1 |->
                    IF i = 0 THEN <<>> ELSE Extend(p, f[i - 1], fits[i], costOnly)]
  <2>2. \A i \in 0 .. n : g[i] = f[i]
    <3>1. \A i \in 0 .. n :
             f[i] = IF i = 0 THEN <<>> ELSE Extend(p, f[i - 1], fits[i], costOnly)
      BY <2>1, Zenon
    <3>2. \A i \in 0 .. n + 1 :
             g[i] = IF i = 0 THEN <<>> ELSE Extend(p, f[i - 1], fits[i], costOnly)
      BY Zenon
    <3>3. \A i \in 0 .. n : i \in 0 .. n + 1
      OBVIOUS
    <3> HIDE DEF g
    <3> QED
      BY <3>1, <3>2, <3>3, Zenon
  <2>3. \A i \in 0 .. n + 1 : i = 0 \/ i - 1 \in 0 .. n
    OBVIOUS
  <2>4. Part(g, n + 1)
    BY <2>2, <2>3
  <2>5. \E h : Part(h, n + 1)
    BY <2>4
  <2> HIDE DEF Part
  <2> QED
    BY <2>5
<1>4. N \in T
  <2> HIDE DEF T, N
  <2> QED
    BY <1>1, <1>2, <1>3, NaturalSetInduction
<1> DEFINE seed == CHOOSE f : Part(f, N)
<1>5. Part(seed, N)
  BY <1>4
<1>6. Greedy(p, fits, costOnly) = seed[N]
  BY DEF Greedy
<1> HIDE DEF seed
<1>7. seed[0] = <<>> /\ \A i \in 1 .. N :
         seed[i] = Extend(p, seed[i - 1], fits[i], costOnly)
  <2>1. \A i \in 0 .. N :
           seed[i] = IF i = 0 THEN <<>> ELSE Extend(p, seed[i - 1], fits[i], costOnly)
    BY <1>5, Zenon
  <2> QED
    BY <1>1, <2>1
<1> DEFINE Served(plan, n) ==
             plan \in Seq(D) /\ Len(plan) = n /\ \A i \in 1 .. n : plan[i] \in fits[i]
           U == {n \in Nat : n > N \/ Served(seed[n], n)}
<1>8. ASSUME NEW n \in Nat, n \in U PROVE n + 1 \in U
  <2>1. CASE n + 1 > N
    BY <2>1
  <2>2. CASE n + 1 <= N
    <3> DEFINE plan == seed[n]
    <3>1. n + 1 \in 1 .. N /\ (n + 1) - 1 = n /\ Served(plan, n)
      BY <1>1, <1>8, <2>2
    <3>2. seed[n + 1] = Extend(p, plan, fits[n + 1], costOnly)
          /\ fits[n + 1] \subseteq D /\ fits[n + 1] # {}
      BY <1>1, <1>7, <3>1
    <3> HIDE DEF plan
    <3>3. PICK r \in fits[n + 1] : seed[n + 1] = Append(plan, r)
      BY <3>1, <3>2, ExtendServes DEF Plans
    <3>4. Served(Append(plan, r), n + 1)
      <4> DEFINE longer == Append(plan, r)
      <4>1. r \in D
        BY <3>2
      <4> HIDE DEF D
      <4>2. /\ longer \in Seq(D) /\ Len(longer) = n + 1
            /\ \A i \in 1 .. n + 1 : longer[i] = IF i = n + 1 THEN r ELSE plan[i]
        BY <3>1, <4>1
      <4>3. \A i \in 1 .. n + 1 : i = n + 1 \/ i \in 1 .. n
        OBVIOUS
      <4> HIDE DEF longer
      <4>4. \A i \in 1 .. n + 1 : longer[i] \in fits[i]
        BY <3>1, <4>2, <4>3
      <4> QED
        BY <4>2, <4>4 DEF longer
    <3>5. Served(seed[n + 1], n + 1)
      BY <3>3, <3>4
    <3> HIDE DEF Served
    <3> QED
      BY <3>5
  <2> QED
    BY <1>1, <2>1, <2>2
<1>9. N \in U
  <2>1. 0 \in U
    <3>1. Served(<<>>, 0)
      OBVIOUS
    <3> HIDE DEF Served
    <3> QED
      BY <1>7, <3>1
  <2> HIDE DEF U, N
  <2> QED
    BY <1>1, <1>8, <2>1, NaturalSetInduction
<1>10. Served(seed[N], N)
  <2> HIDE DEF Served
  <2> QED
    BY <1>1, <1>9
<1> DEFINE plan == seed[N]
<1>11. plan \in Plans(p) /\ Len(plan) = N /\ \A n \in DOMAIN plan : plan[n] \in fits[n]
  <2>1. DOMAIN plan = 1 .. Len(plan)
    <3> HIDE DEF plan, D
    <3>1. plan \in Seq(D)
      BY <1>10 DEF plan
    <3> QED
      BY <3>1
  <2> QED
    BY <1>10, <2>1 DEF Plans
<1> QED
  BY <1>6, <1>11 DEF Serves

-----------------------------------------------------------------------------
(* The search.                                                             *)

Served(plan) == plan \in Plans(problem) /\ Serves(plan, feasible)

(* The plan of either search has for every slot a recipe that fits it; the *)
(* first search's plan is kept while the second runs.                      *)
PlanInv ==
    /\ problem \in Problems
    /\ slots = Schedule(problem.requirements, problem.days)
    /\ feasible = [n \in DOMAIN slots |-> Fitting(problem, slots[n])]
    /\ phase \in {"start", "variety", "budget", "done"}
    /\ slot \in Nat \ {0}
    /\ phase # "done" => outcome = "none"
    /\ chosen = <<>> \/ Served(chosen)
    /\ phase \in {"variety", "budget"} => ~Missing /\ Served(chosen)
    /\ phase = "budget" => Served(variety)
    /\ outcome \in {"plan", "over_budget"} => Served(chosen)

LEMMA SearchIsWellFormed ==
  ASSUME PlanInv
  PROVE  /\ WellFormed(problem)
         /\ Len(slots) \in Nat /\ Len(feasible) = Len(slots)
         /\ DOMAIN feasible = 1 .. Len(slots) /\ DOMAIN slots = 1 .. Len(slots)
         /\ feasible \in Seq(SUBSET (DOMAIN problem.recipes))
<1>1. WellFormed(problem) /\ Len(slots) \in Nat /\ DOMAIN slots = 1 .. Len(slots)
  <2>1. WellFormed(problem) /\ slots \in Seq(Slots)
    BY SearchAssumption, ScheduledSlots DEF PlanInv
  <2> QED
    BY <2>1
<1> DEFINE R == SUBSET (DOMAIN problem.recipes)
           N == Len(slots)
<1>2. DOMAIN feasible = 1 .. N /\ feasible = [n \in 1 .. N |-> Fitting(problem, slots[n])]
  BY <1>1 DEF PlanInv
<1>3. \A n \in 1 .. N : Fitting(problem, slots[n]) \in R
  BY DEF Fitting, Valid
<1>4. feasible \in Seq(R) /\ Len(feasible) = N
  <2> HIDE DEF R, N
  <2> QED
    BY <1>1, <1>2, <1>3 DEF N
<1> QED
  BY <1>1, <1>2, <1>4

LEMMA SeedIsServed ==
  ASSUME PlanInv, ~Missing, NEW costOnly
  PROVE  Served(Greedy(problem, feasible, costOnly))
<1>1. \A n \in DOMAIN feasible : feasible[n] # {}
  BY SearchIsWellFormed DEF Missing
<1> QED
  BY <1>1, SearchIsWellFormed, GreedyServes DEF Served

LEMMA SwapIsServed ==
  ASSUME PlanInv, NEW plan, Served(plan), NEW n \in 1 .. Len(slots), NEW r \in feasible[n]
  PROVE  Served(Swap(plan, n, r))
<1> DEFINE D == DOMAIN problem.recipes
           N == Len(slots)
           swapped == [plan EXCEPT ![n] = r]
<1>1. /\ plan \in Seq(D) /\ Len(plan) = N /\ N \in Nat /\ Len(feasible) = N
      /\ \A i \in DOMAIN plan : plan[i] \in feasible[i]
  BY SearchIsWellFormed DEF Served, Plans, Serves
<1>2. r \in D
  <2>1. feasible[n] \in SUBSET D
    <3> DEFINE R == SUBSET D
    <3>1. feasible \in Seq(R) /\ n \in 1 .. Len(feasible)
      BY SearchIsWellFormed
    <3> HIDE DEF R
    <3>2. feasible[n] \in R
      BY <3>1
    <3> QED
      BY <3>2 DEF R
  <2> QED
    BY <2>1
<1>3. DOMAIN plan = 1 .. N
  <2> HIDE DEF D, N
  <2> QED
    BY <1>1
<1>4. /\ swapped \in Seq(D) /\ Len(swapped) = N /\ DOMAIN swapped = 1 .. N
      /\ \A i \in 1 .. N : swapped[i] = IF i = n THEN r ELSE plan[i]
  <2> HIDE DEF D
  <2> QED
    BY <1>1, <1>2, <1>3
<1>5. \A i \in 1 .. N : swapped[i] \in feasible[i]
  <2> HIDE DEF swapped, D, N
  <2> QED
    BY <1>1, <1>3, <1>4
<1> QED
  BY <1>1, <1>4, <1>5 DEF Swap, Served, Plans, Serves

LEMMA PlanStep ==
  ASSUME PlanInv, [Next]_vars
  PROVE  PlanInv'
<1>1. UNCHANGED <<problem, slots, feasible>>
  BY DEF Next, vars, Trivial, Begin, Keep, Improve, NextPass, Accept, Reseed, GiveUp,
         Finish
<1>2. /\ Missing' <=> Missing
      /\ Served(chosen)' <=> Served(chosen')
      /\ Served(variety)' <=> Served(variety')
  BY <1>1 DEF Missing, Served
<1>3. slot' \in Nat \ {0}
  <2>1. slot' = slot \/ slot' = slot + 1 \/ slot' = 1
    BY DEF Next, vars, Trivial, Begin, Keep, Improve, NextPass, Accept, Reseed, GiveUp,
           Finish, Seed
  <2>2. slot \in Nat \ {0}
    BY DEF PlanInv
  <2> QED
    BY <2>1, <2>2
<1>4. CASE Trivial
  <2>1. /\ phase = "start" /\ phase' = "done" /\ UNCHANGED chosen
        /\ outcome' = IF Missing THEN "missing" ELSE "plan"
        /\ Missing \/ slots = <<>>
    BY <1>4 DEF Trivial
  <2>2. ~Missing => Served(<<>>)
    <3>1. ~Missing => Len(slots) = 0
      BY <2>1
    <3>2. <<>> \in Plans(problem) /\ Len(<<>>) = 0 /\ DOMAIN <<>> = {}
      BY DEF Plans
    <3> QED
      BY <3>1, <3>2, SearchIsWellFormed DEF Served, Serves
  <2>3. ~Missing => Served(chosen)
    <3>1. chosen = <<>> \/ Served(chosen)
      BY DEF PlanInv
    <3> QED
      BY <2>2, <3>1
  <2> QED
    BY <1>1, <1>2, <1>3, <2>1, <2>3 DEF PlanInv
<1>5. CASE Begin
  <2>1. /\ phase' = "variety" /\ ~Missing /\ UNCHANGED outcome /\ outcome = "none"
        /\ chosen' = Greedy(problem, feasible, FALSE)
    BY <1>5 DEF Begin, Seed, PlanInv
  <2>2. Served(chosen')
    BY <2>1, SeedIsServed
  <2> QED
    BY <1>1, <1>2, <1>3, <2>1, <2>2 DEF PlanInv
<1>6. CASE Keep \/ NextPass
  <2>1. UNCHANGED <<phase, chosen, variety, outcome>>
    BY <1>6 DEF Keep, NextPass
  <2> QED
    BY <1>1, <1>2, <1>3, <2>1 DEF PlanInv
<1>7. CASE Improve
  <2>1. /\ UNCHANGED <<phase, variety, outcome>> /\ slot <= Len(slots)
        /\ phase \in {"variety", "budget"}
    BY <1>7 DEF Improve
  <2>2. PICK r \in Others(slot) : chosen' = Swap(chosen, slot, r)
    BY <1>7 DEF Improve
  <2>3. r \in feasible[slot] /\ slot \in 1 .. Len(slots) /\ Served(chosen)
    BY <2>1, SearchIsWellFormed DEF Others, PlanInv
  <2>4. Served(chosen')
    BY <2>2, <2>3, SwapIsServed
  <2>5. outcome' = "none" /\ ~Missing
    BY <2>1 DEF PlanInv
  <2> QED
    BY <1>1, <1>2, <1>3, <2>1, <2>4, <2>5 DEF PlanInv
<1>8. CASE Accept
  <2>1. phase \in {"variety", "budget"} /\ phase' = "done" /\ UNCHANGED chosen
        /\ outcome' = "plan"
    BY <1>8 DEF Accept, Finish, SearchEnds
  <2>2. Served(chosen)
    BY <2>1 DEF PlanInv
  <2> QED
    BY <1>1, <1>2, <1>3, <2>1, <2>2 DEF PlanInv
<1>9. CASE Reseed
  <2>1. /\ phase = "variety" /\ phase' = "budget" /\ UNCHANGED outcome
        /\ variety' = chosen /\ chosen' = Greedy(problem, feasible, TRUE)
    BY <1>9 DEF Reseed, Seed, SearchEnds
  <2>2. ~Missing /\ Served(variety') /\ outcome' = "none"
    BY <2>1 DEF PlanInv
  <2>3. Served(chosen')
    BY <2>1, <2>2, SeedIsServed
  <2> QED
    BY <1>1, <1>2, <1>3, <2>1, <2>2, <2>3 DEF PlanInv
<1>10. CASE GiveUp
  <2>1. phase = "budget" /\ phase' = "done" /\ chosen' = variety
        /\ outcome' = "over_budget"
    BY <1>10 DEF GiveUp, Finish, SearchEnds
  <2>2. Served(chosen')
    BY <2>1 DEF PlanInv
  <2> QED
    BY <1>1, <1>2, <1>3, <2>1, <2>2 DEF PlanInv
<1>11. CASE UNCHANGED vars
  <2>1. UNCHANGED <<phase, chosen, variety, outcome>>
    BY <1>11 DEF vars
  <2> QED
    BY <1>1, <1>2, <1>3, <2>1 DEF PlanInv
<1> QED
  BY <1>4, <1>5, <1>6, <1>7, <1>8, <1>9, <1>10, <1>11 DEF Next

LEMMA PlanInvHolds == Spec => []PlanInv
<1>1. Init => PlanInv
  BY DEF Init, PlanInv
<1>2. PlanInv /\ [Next]_vars => PlanInv'
  BY PlanStep
<1> QED
  BY <1>1, <1>2, PTL DEF Spec

-----------------------------------------------------------------------------
(* Every meal of a plan that is handed out, also of one over the budget,   *)
(* is a recipe whose ingredients' own products are safe for the household, *)
(* of the slot's meal and within its limit of minutes.                     *)
MealsAreSafe ==
    outcome \in {"plan", "over_budget"} =>
        /\ Len(chosen) = Len(slots)
        /\ \A n \in 1 .. Len(slots) :
              /\ SafeRecipe(problem, chosen[n])
              /\ slots[n].type \in problem.recipes[chosen[n]].types
              /\ slots[n].limit > 0 =>
                    problem.recipes[chosen[n]].minutes <= slots[n].limit

(* Greedy seeds, swaps and the second search never put a recipe in a slot  *)
(* that was not let through for it, and never leave a slot empty.          *)
THEOREM HandedOutMealsAreSafe == Spec => []MealsAreSafe
<1>1. PlanInv => MealsAreSafe
  <2> SUFFICES ASSUME PlanInv, outcome \in {"plan", "over_budget"}
               PROVE  MealsAreSafe
    BY DEF MealsAreSafe
  <2>1. Served(chosen) /\ Len(chosen) = Len(slots)
    BY SearchIsWellFormed DEF PlanInv, Served, Serves
  <2>2. ASSUME NEW n \in 1 .. Len(slots)
        PROVE  chosen[n] \in Fitting(problem, slots[n])
    <3>1. n \in DOMAIN chosen
      <4> DEFINE D == DOMAIN problem.recipes
      <4>1. chosen \in Seq(D)
        BY <2>1 DEF Served, Plans
      <4> HIDE DEF D
      <4> QED
        BY <2>1, <4>1, SearchIsWellFormed
    <3>2. chosen[n] \in feasible[n]
      BY <2>1, <3>1 DEF Served, Serves
    <3> QED
      BY <3>2, SearchIsWellFormed DEF PlanInv
  <2> QED
    BY <2>1, <2>2, ValidIsSafe DEF MealsAreSafe, Fitting
<1> QED
  BY <1>1, PlanInvHolds, PTL

(* The plan at any moment asks only for what valid recipes need.           *)
ValidNeeds(p) == UNION {Ingredients(p.recipes[r]) : r \in Valid(p)}

LEMMA ChosenIsAPlan ==
  ASSUME PlanInv
  PROVE  chosen \in Plans(problem) /\ AsksFor(problem, chosen, ValidNeeds(problem))
<1>1. CASE chosen = <<>>
  BY <1>1 DEF Plans, AsksFor
<1>2. CASE Served(chosen)
  <2>1. \A n \in DOMAIN chosen : chosen[n] \in feasible[n]
    BY <1>2 DEF Served, Serves
  <2>2. DOMAIN chosen = DOMAIN slots
    <3> DEFINE D == DOMAIN problem.recipes
    <3>1. chosen \in Seq(D) /\ Len(chosen) = Len(slots)
      BY <1>2, SearchIsWellFormed DEF Served, Plans, Serves
    <3> HIDE DEF D
    <3> QED
      BY <3>1, SearchIsWellFormed
  <2>3. \A n \in DOMAIN chosen : chosen[n] \in Valid(problem)
    BY <2>1, <2>2 DEF PlanInv, Fitting
  <2> QED
    BY <1>2, <2>3 DEF Served, AsksFor, ValidNeeds
<1> QED
  BY <1>1, <1>2 DEF PlanInv

(* WholePackages: whatever the problem, the packages bought for a plan and *)
(* what the pantry has cover what it needs, less than a package is left    *)
(* over, and the lines together need what the recipes together ask for.    *)
THEOREM PackagesAreWhole == Spec => []WholePackages
<1>1. PlanInv => WholePackages
  <2> SUFFICES ASSUME PlanInv PROVE WholePackages
    OBVIOUS
  <2>1. \A l \in Provision(problem, chosen) : l.package > 0 => Covers(l)
    BY ChosenIsAPlan, SearchIsWellFormed, ProvisionIsSound DEF SoundLine
  <2>2. MapThenSumSet(LAMBDA l : l.needed, Provision(problem, chosen))
          = MapThenSumSet(LAMBDA k : Demand(problem, chosen)[k].quantity,
                          DOMAIN Demand(problem, chosen))
    BY ChosenIsAPlan, SearchIsWellFormed, NothingIsLost
  <2> QED
    BY <2>1, <2>2 DEF WholePackages, Covers
<1> QED
  BY <1>1, PlanInvHolds, PTL

(* CompleteIsExact: a complete coverage leaves no line of the plan         *)
(* without a product, expired or estimated, whatever the catalogue.        *)
THEOREM CompleteCoverageIsExact == Spec => []CompleteIsExact
<1>1. PlanInv => CompleteIsExact
  <2> SUFFICES ASSUME PlanInv, Coverage(Provision(problem, chosen)) = "complete"
               PROVE  /\ Estimated(Provision(problem, chosen)) = 0
                      /\ \A l \in Provision(problem, chosen) : l.package > 0 /\ ~l.expired
    BY Zenon DEF CompleteIsExact
  <2> QED
    BY ChosenIsAPlan, SearchIsWellFormed, CompletePlan
<1> QED
  BY <1>1, PlanInvHolds, PTL

(* OwnNamesAreSafe: nothing that is bought under its own name carries an   *)
(* allergen of a member in any spelling, though the filter judged recipes  *)
(* and what is bought is found for the merged lines of the whole plan.     *)
THEOREM OwnNamedPurchasesAreSafe == Spec => []OwnNamesAreSafe
<1>1. PlanInv => OwnNamesAreSafe
  <2> SUFFICES ASSUME PlanInv, NEW l \in Provision(problem, chosen), l.product = l.name
               PROVE  SafeLine(l)
    BY DEF OwnNamesAreSafe
  <2>1. /\ l.name \in ValidNeeds(problem) /\ l.name \in DOMAIN problem.pantry
        /\ l.product = Match(problem, l.name)
    BY ChosenIsAPlan, SearchIsWellFormed, ProvisionIsSound
  <2>2. l.product \in DOMAIN problem.catalog
    <3>1. l.product # NoProduct
      BY <2>1, SearchIsWellFormed DEF WellFormed
    <3>2. l.product \in DOMAIN problem.catalog \cup {NoProduct}
      BY <2>1, SearchIsWellFormed, MatchIsProduct
    <3> QED
      BY <3>1, <3>2
  <2>3. PICK r \in Valid(problem) : l.name \in Ingredients(problem.recipes[r])
    BY <2>1 DEF ValidNeeds
  <2>4. SafeRecipe(problem, r)
    BY ValidIsSafe
  <2> QED
    BY <2>2, <2>3, <2>4 DEF SafeRecipe, SafeLine
<1> QED
  BY <1>1, PlanInvHolds, PTL

-----------------------------------------------------------------------------
(* The budget.                                                             *)

(* The plan does not fit the budget, and scores no more than the cheapest. *)
Outscores(plan) ==
    /\ Served(plan)
    /\ Cost(problem, plan) > Limit(problem)
    /\ Score(problem, plan) <= Score(problem, cheapest)

LEMMA ScoreIsInteger ==
  ASSUME PlanInv, NEW plan, Served(plan)
  PROVE  Score(problem, plan) \in Int /\ Cost(problem, plan) \in Int
<1>1. WellFormed(problem) /\ plan \in Plans(problem)
  BY SearchIsWellFormed DEF Served
<1>2. Metric(problem, plan, FALSE) \in Int /\ Metric(problem, plan, TRUE) \in Int
  BY <1>1, MetricIsInteger
<1> QED
  BY <1>2 DEF Metric

(* A swap that is not better does not score less; one that is better does  *)
(* not score more.                                                         *)
LEMMA SwapScores ==
  ASSUME PlanInv, NEW n \in 1 .. Len(slots), NEW r \in feasible[n], Served(chosen)
  PROVE  LET old == Score(problem, chosen)
             new == Score(problem, Swap(chosen, n, r))
         IN IF Better(problem, chosen, n, r) THEN new <= old ELSE old <= new
<1> DEFINE old == Score(problem, chosen)
           new == Score(problem, Swap(chosen, n, r))
           k == <<new, r>>
           l == <<old, chosen[n]>>
<1>1. old \in Int /\ new \in Int
  BY ScoreIsInteger, SwapIsServed
<1>2. Better(problem, chosen, n, r) <=> Before(k, l)
  BY DEF Better
<1> HIDE DEF old, new
<1>3. DOMAIN k = {1, 2} /\ k[1] = new /\ l[1] = old
  OBVIOUS
<1>4. new < old => Before(k, l)
  <2>1. \A m \in 1 .. 1 - 1 : k[m] = l[m]
    OBVIOUS
  <2> QED
    BY <1>3, <2>1 DEF Before
<1>5. Before(k, l) => new <= old
  <2> SUFFICES ASSUME NEW i \in {1, 2}, k[i] < l[i], \A m \in 1 .. i - 1 : k[m] = l[m]
               PROVE  new <= old
    BY <1>3 DEF Before
  <2>1. CASE i = 1
    BY <1>1, <1>3, <2>1
  <2>2. CASE i = 2
    <3>1. k[1] = l[1]
      BY <2>2
    <3> QED
      BY <1>1, <1>3, <3>1
  <2> QED
    BY <2>1, <2>2
<1> QED
  BY <1>1, <1>2, <1>4, <1>5 DEF old, new

(* The plan of the search under way scores no more than the cheapest plan  *)
(* tried, because each plan that was tried was accepted or was not better; *)
(* unless that is a plan of the first search, which ended with one that    *)
(* scores no more either.                                                  *)
TrackInv ==
    /\ phase = "start" => cheapest = <<>>
    /\ phase \in {"variety", "budget"} =>
          /\ Served(cheapest)
          /\ \/ Score(problem, chosen) <= Score(problem, cheapest)
             \/ phase = "budget" /\ Outscores(variety)
    /\ outcome = "over_budget" => \E plan : Outscores(plan)

LEMMA TrackStep ==
  ASSUME PlanInv, TrackInv, [Next]_vars
  PROVE  TrackInv'
<1>1. UNCHANGED <<problem, slots, feasible>>
  BY DEF Next, vars, Trivial, Begin, Keep, Improve, NextPass, Accept, Reseed, GiveUp,
         Finish
<1>2. /\ Served(cheapest)' <=> Served(cheapest')
      /\ Score(problem, chosen)' = Score(problem, chosen')
      /\ Score(problem, cheapest)' = Score(problem, cheapest')
      /\ \A plan : Outscores(plan)' <=>
            /\ Served(plan) /\ Cost(problem, plan) > Limit(problem)
            /\ Score(problem, plan) <= Score(problem, cheapest')
  BY <1>1 DEF Served, Outscores
<1>3. ASSUME NEW tried, cheapest' \in Track(tried)
      PROVE  (cheapest # <<>> /\ cheapest' = cheapest) \/ cheapest' \in tried
  BY <1>3 DEF Track
<1>4. ASSUME phase \in {"variety", "budget"}, UNCHANGED <<phase, variety, outcome>>,
             Served(cheapest'), Score(problem, chosen') \in Int, Score(problem, chosen) \in Int,
             \/ cheapest' = cheapest /\ Score(problem, chosen') <= Score(problem, chosen)
             \/ Score(problem, chosen') <= Score(problem, cheapest')
      PROVE  TrackInv'
  <2>1. Served(cheapest) /\ Score(problem, cheapest) \in Int /\ outcome = "none"
    BY <1>4, ScoreIsInteger DEF TrackInv, PlanInv
  <2>2. \/ Score(problem, chosen') <= Score(problem, cheapest')
        \/ phase' = "budget" /\ Outscores(variety)'
    <3>1. CASE cheapest' = cheapest /\ Score(problem, chosen') <= Score(problem, chosen)
      <4>1. \/ Score(problem, chosen) <= Score(problem, cheapest)
            \/ phase = "budget" /\ Outscores(variety)
        BY <1>4 DEF TrackInv
      <4>2. Outscores(variety)' <=> Outscores(variety)
        BY <1>1, <1>4, <3>1 DEF Outscores, Served
      <4> QED
        BY <1>4, <2>1, <3>1, <4>1, <4>2
    <3> QED
      BY <1>4, <3>1
  <2> QED
    BY <1>2, <1>4, <2>1, <2>2 DEF TrackInv
<1>5. ASSUME phase \in {"variety", "budget"}, slot <= Len(slots)
      PROVE  /\ slot \in 1 .. Len(slots) /\ Served(chosen) /\ Others(slot) \subseteq feasible[slot]
             /\ \A r \in Others(slot) : Served(Swap(chosen, slot, r))
             /\ Served(cheapest) /\ Score(problem, chosen) \in Int
  <2>1. slot \in 1 .. Len(slots) /\ Served(chosen) /\ Served(cheapest)
    BY <1>5, SearchIsWellFormed DEF PlanInv, TrackInv
  <2>2. Others(slot) \subseteq feasible[slot]
    BY DEF Others
  <2> QED
    BY <2>1, <2>2, SwapIsServed, ScoreIsInteger
<1>6. CASE Trivial \/ Accept
  <2>1. phase' = "done" /\ outcome' # "over_budget"
    BY <1>6 DEF Trivial, Accept, Finish
  <2> QED
    BY <2>1 DEF TrackInv
<1>7. CASE Begin
  <2> DEFINE seed == Greedy(problem, feasible, FALSE)
  <2>1. /\ phase = "start" /\ phase' = "variety" /\ outcome' = outcome /\ ~Missing
        /\ chosen' = seed /\ cheapest' \in Track({seed})
    BY <1>7 DEF Begin, Seed
  <2>2. cheapest' = seed /\ outcome' = "none"
    BY <1>3, <2>1 DEF TrackInv, PlanInv
  <2>3. Served(seed) /\ Score(problem, seed) \in Int
    BY <2>1, SeedIsServed, ScoreIsInteger
  <2> HIDE DEF seed
  <2> QED
    BY <1>2, <2>1, <2>2, <2>3 DEF TrackInv
<1>8. CASE Keep
  <2>1. /\ phase \in {"variety", "budget"} /\ slot <= Len(slots)
        /\ UNCHANGED <<phase, chosen, variety, outcome>>
        /\ \A r \in Others(slot) : ~Better(problem, chosen, slot, r)
    BY <1>8 DEF Keep
  <2>2. cheapest' = cheapest \/ \E r \in Others(slot) : cheapest' = Swap(chosen, slot, r)
    <3> DEFINE tried == {Swap(chosen, slot, r) : r \in Others(slot)}
    <3>1. cheapest' \in Track(tried)
      BY <1>8 DEF Keep
    <3>2. cheapest' = cheapest \/ cheapest' \in tried
      <4> HIDE DEF tried
      <4> QED
        BY <1>3, <3>1
    <3> QED
      BY <3>2
  <2>3. CASE cheapest' = cheapest
    BY <1>4, <1>5, <2>1, <2>3
  <2>4. ASSUME NEW r \in Others(slot), cheapest' = Swap(chosen, slot, r)
        PROVE  TrackInv'
    <3>1. Score(problem, chosen) <= Score(problem, Swap(chosen, slot, r))
      BY <1>5, <2>1, SwapScores
    <3> QED
      BY <1>4, <1>5, <2>1, <2>4, <3>1
  <2> QED
    BY <2>2, <2>3, <2>4
<1>9. CASE Improve
  <2>1. /\ phase \in {"variety", "budget"} /\ slot <= Len(slots)
        /\ UNCHANGED <<phase, variety, outcome>>
    BY <1>9 DEF Improve
  <2>2. PICK r \in Others(slot) :
           /\ Better(problem, chosen, slot, r) /\ chosen' = Swap(chosen, slot, r)
           /\ \E before \in SUBSET {q \in Others(slot) : ~Better(problem, chosen, slot, q)} :
                 cheapest' \in Track({Swap(chosen, slot, q) : q \in before \cup {r}})
    BY <1>9 DEF Improve
  <2>3. PICK before \in SUBSET {q \in Others(slot) : ~Better(problem, chosen, slot, q)} :
           cheapest' \in Track({Swap(chosen, slot, q) : q \in before \cup {r}})
    BY <2>2
  <2>4. cheapest' = cheapest
        \/ \E q \in before \cup {r} : cheapest' = Swap(chosen, slot, q)
    <3> DEFINE tried == {Swap(chosen, slot, q) : q \in before \cup {r}}
    <3>1. cheapest' \in Track(tried)
      BY <2>3
    <3>2. cheapest' = cheapest \/ cheapest' \in tried
      <4> HIDE DEF tried
      <4> QED
        BY <1>3, <3>1
    <3> QED
      BY <3>2
  <2>5. /\ Served(chosen') /\ Score(problem, chosen') <= Score(problem, chosen)
        /\ Score(problem, chosen') \in Int
    BY <1>5, <2>1, <2>2, SwapScores, ScoreIsInteger
  <2>6. CASE cheapest' = cheapest
    BY <1>4, <1>5, <2>1, <2>5, <2>6
  <2>7. ASSUME NEW q \in before \cup {r}, cheapest' = Swap(chosen, slot, q)
        PROVE  TrackInv'
    <3>1. Served(cheapest') /\ Score(problem, cheapest') \in Int
      BY <1>5, <2>1, <2>7, ScoreIsInteger
    <3>2. Score(problem, chosen') <= Score(problem, cheapest')
      <4>1. CASE q = r
        BY <2>2, <2>5, <2>7, <4>1
      <4>2. CASE q # r
        <5>1. q \in Others(slot) /\ ~Better(problem, chosen, slot, q)
          BY <2>7, <4>2
        <5>2. Score(problem, chosen) <= Score(problem, cheapest')
          BY <1>5, <2>1, <2>7, <5>1, SwapScores
        <5> QED
          BY <1>5, <2>1, <2>5, <3>1, <5>2
      <4> QED
        BY <4>1, <4>2
    <3> QED
      BY <1>4, <1>5, <2>1, <2>5, <3>1, <3>2
  <2> QED
    BY <2>4, <2>6, <2>7
<1>10. CASE NextPass
  <2>1. /\ phase \in {"variety", "budget"}
        /\ UNCHANGED <<phase, chosen, cheapest, variety, outcome>>
    BY <1>10 DEF NextPass
  <2>2. Served(chosen) /\ Served(cheapest) /\ Score(problem, chosen) \in Int
    BY <2>1, ScoreIsInteger DEF PlanInv, TrackInv
  <2> QED
    BY <1>4, <2>1, <2>2
<1>11. CASE Reseed
  <2> DEFINE seed == Greedy(problem, feasible, TRUE)
  <2>1. /\ Cost(problem, chosen) > Limit(problem) /\ variety' = chosen
        /\ phase = "variety" /\ phase' = "budget" /\ outcome' = outcome
        /\ chosen' = seed /\ cheapest' \in Track({seed})
    BY <1>11 DEF Reseed, Seed, SearchEnds
  <2>2. /\ ~Missing /\ outcome' = "none" /\ Served(chosen) /\ Served(cheapest)
        /\ Score(problem, chosen) <= Score(problem, cheapest)
    BY <2>1 DEF PlanInv, TrackInv
  <2>3. Served(seed) /\ Score(problem, seed) \in Int
    BY <2>2, SeedIsServed, ScoreIsInteger
  <2>4. cheapest' = cheapest \/ cheapest' = seed
    BY <1>3, <2>1
  <2>5. cheapest' = cheapest => Outscores(variety)'
    BY <1>1, <2>1, <2>2 DEF Outscores, Served
  <2> HIDE DEF seed
  <2> QED
    BY <1>2, <2>1, <2>2, <2>3, <2>4, <2>5 DEF TrackInv
<1>12. CASE GiveUp
  <2>1. /\ phase = "budget" /\ Cost(problem, chosen) > Limit(problem)
        /\ phase' = "done" /\ UNCHANGED cheapest
    BY <1>12 DEF GiveUp, Finish, SearchEnds
  <2>2. Outscores(chosen) \/ Outscores(variety)
    BY <2>1 DEF TrackInv, PlanInv, Outscores
  <2>3. \A plan : Outscores(plan)' <=> Outscores(plan)
    BY <1>2, <2>1 DEF Outscores
  <2>4. (\E plan : Outscores(plan))'
    BY <2>2, <2>3
  <2> QED
    BY <2>1, <2>4 DEF TrackInv
<1>13. CASE UNCHANGED vars
  <2>1. UNCHANGED <<phase, chosen, cheapest, variety, outcome>>
    BY <1>13 DEF vars
  <2>2. \A plan : Outscores(plan)' <=> Outscores(plan)
    BY <1>2, <2>1 DEF Outscores
  <2>3. Outscores(variety)' <=> Outscores(variety)
    BY <1>1, <2>1 DEF Outscores, Served
  <2> QED
    BY <1>1, <1>2, <2>1, <2>2, <2>3 DEF TrackInv
<1> QED
  BY <1>6, <1>7, <1>8, <1>9, <1>10, <1>11, <1>12, <1>13 DEF Next

(* MinimumIsOverLimit, without a word on the weights: a request is refused *)
(* with a min_budget_found within its limit only if some plan for the same *)
(* slots, over the limit, has no higher score in spite of the penalty.  A  *)
(* plan within the budget is lost to the weights of the score alone, never *)
(* to the order, the breaks or the end of the two searches.                *)
THEOREM RefusedMinimumIsOutscored ==
  Spec => [](MinimumIsOverLimit \/ \E plan : Outscores(plan))
<1>1. Init => TrackInv
  BY DEF Init, TrackInv
<1>2. PlanInv /\ TrackInv /\ [Next]_vars => TrackInv'
  BY TrackStep
<1>3. TrackInv => MinimumIsOverLimit \/ \E plan : Outscores(plan)
  BY DEF TrackInv, MinimumIsOverLimit
<1> QED
  BY <1>1, <1>2, <1>3, PlanInvHolds, PTL DEF Spec

===============================================================================
