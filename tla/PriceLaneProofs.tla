-------------------------- MODULE PriceLaneProofs --------------------------
(***************************************************************************)
(* What PriceLane promises for any number of syncs, lanes and instants.    *)
(*                                                                         *)
(* The argument is about the view of each transaction: the committed rows  *)
(* overlaid by its draft.  A transaction changes rows of lanes it holds    *)
(* only, so a commit changes the view of another one only in lanes that    *)
(* the other does not hold.  A rollback holds no lane, and may change any  *)
(* row between what a transaction reads and what it writes; but it leaves  *)
(* the rows of the drafts, and revives no row.                             *)
(***************************************************************************)
EXTENDS PriceLane, FiniteSetTheorems, TLAPS

(* A set of rows holds one version of a row.                               *)
Keyed(S) == \A x, y \in S : SameRow(x, y) => x = y

(* What the advisory locks and the row locks guarantee.                    *)
Locks ==
    /\ \A r \in Run : tx[r].pc # "open" =>
            tx[r].held = {} /\ draft[r] = {} /\ tx[r].next = NoFact
    /\ \A r, s \in Run : r # s => tx[r].held \cap tx[s].held = {}
    /\ \A r \in Run : \A y \in draft[r] :
            /\ y.fact.lane \in tx[r].held
            /\ y.by = r => ~y.rolled
            /\ y.by # r => \E x \in rows : SameRow(x, y) /\ x.rolled = y.rolled
    /\ \A x \in rows : tx[x.by].pc = "committed"
    /\ Keyed(rows)
    /\ \A r \in Run : Keyed(draft[r])

(* What a transaction knows of its product as long as it holds the lane:   *)
(* the rows it found are of the fact, or the fact is active nowhere.       *)
Knows(r) ==
    /\ tx[r].pc # "open" => read[r].step = "nothing"
    /\ tx[r].next = NoFact => read[r].step = "nothing"
    /\ read[r].step # "nothing" => tx[r].next.lane \in tx[r].held
    /\ read[r].step = "found" => \A x \in read[r].rows : x.fact = tx[r].next
    /\ read[r].step = "placing" =>
            /\ Keyed(read[r].rows)
            /\ \A x \in read[r].rows :
                  x.fact.lane = tx[r].next.lane /\ x.fact # tx[r].next
            /\ \A x \in View(r) : x.fact = tx[r].next => x.rolled

(* What a rollback has read is there, and is not active again.             *)
Loads(o) ==
    /\ Keyed(Loaded(o))
    /\ \A s \in Loaded(o) : \E x \in rows : SameRow(x, s) /\ (s.rolled => x.rolled)

Sound ==
    /\ TypeOK
    /\ Locks
    /\ \A r \in Run : Knows(r)
    /\ \A o \in Operator : Loads(o)

-----------------------------------------------------------------------------
(* Sets of rows.                                                           *)

(* A non-empty set of instants has a least element.                        *)
LEMMA HasLeast ==
  ASSUME NEW n \in Nat, NEW S, S \subseteq 1 .. n, S # {}
  PROVE  \E x \in S : \A y \in S : x <= y
<1> DEFINE T == {1 .. x : x \in S}
<1>1. T \subseteq FiniteSubsetsOf(1 .. n)
  BY FS_Interval, FS_Subset, FS_FiniteSubsetsOfFinite
<1>2. \E X \in T : \A Y \in T : ~(<<Y, X>> \in StrictSubsetOrdering(1 .. n))
  <2>1. T # {}
    OBVIOUS
  <2> QED
    BY <1>1, <2>1, FS_StrictSubsetOrderingWellFounded, WFMin, Zenon
<1>3. PICK x \in S : \A y \in S : ~(<<1 .. y, 1 .. x>> \in StrictSubsetOrdering(1 .. n))
  BY <1>2
<1>4. ASSUME NEW y \in S, y < x PROVE FALSE
  <2>1. 1 .. y \subseteq 1 .. x /\ 1 .. y # 1 .. x
    <3>1. x \in 1 .. x /\ x \notin 1 .. y
      BY <1>4
    <3> QED
      BY <1>4, <3>1
  <2>2. 1 .. y \in SUBSET (1 .. n) /\ 1 .. x \in SUBSET (1 .. n)
    OBVIOUS
  <2>3. <<1 .. y, 1 .. x>> \in StrictSubsetOrdering(1 .. n)
    BY <2>1, <2>2, Zenon DEF StrictSubsetOrdering
  <2> QED
    BY <1>3, <2>3
<1> QED
  BY <1>4

(* The next anchor is the least later one, or Open.                        *)
LEMMA NextAnchorLeast ==
  ASSUME NEW L \in SUBSET Row, NEW t \in Instant
  PROVE  /\ NextAnchor(L, t) \in 1 .. Open
         /\ t < NextAnchor(L, t)
         /\ NextAnchor(L, t) = Open \/ \E x \in L : x.fact.at = NextAnchor(L, t)
         /\ \A x \in L : t < x.fact.at => NextAnchor(L, t) <= x.fact.at
<1> USE LaneAssumption
<1> DEFINE A == {x.fact.at : x \in {x \in L : x.fact.at > t}} \cup {Open}
<1>1. Open \in Nat /\ t < Open
  BY DEF Open, Instant
<1>2. A \subseteq 1 .. Open /\ A # {}
  BY DEF Row, Fact, Instant, Open
<1>3. \E u \in A : \A v \in A : u <= v
  BY <1>1, <1>2, HasLeast
<1>4. Min(A) \in A /\ \A v \in A : Min(A) <= v
  BY <1>3 DEF Min
<1>5. NextAnchor(L, t) = Min(A)
  BY DEF NextAnchor
<1> HIDE DEF A
<1>6. \A v \in A : v = Open \/ \E x \in L : v = x.fact.at /\ x.fact.at > t
  BY DEF A
<1>7. \A x \in L : x.fact.at > t => x.fact.at \in A
  BY DEF A
<1>8. \A x \in L : x.fact.at \in Nat
  BY DEF Row, Fact, Instant
<1> QED
  BY <1>1, <1>2, <1>4, <1>5, <1>6, <1>7, <1>8

(* Overlaying twice is overlaying once with the overlaid draft.            *)
LEMMA OverOver ==
  ASSUME NEW S, NEW D, NEW P
  PROVE  Over(S, Over(D, P)) = Over(Over(S, D), P)
<1>1. \A x, y, z : SameRow(x, y) /\ SameRow(y, z) => SameRow(x, z)
  BY DEF SameRow
<1>2. \A U, V, z : z \in Over(U, V) <=> z \in V \/ (z \in U /\ \A y \in V : ~SameRow(z, y))
  BY DEF Over
<1>3. ASSUME NEW z PROVE z \in Over(S, Over(D, P)) <=> z \in Over(Over(S, D), P)
  <2>1. (\A y \in Over(D, P) : ~SameRow(z, y))
        <=> (\A y \in D : ~SameRow(z, y)) /\ (\A y \in P : ~SameRow(z, y))
    BY <1>1, <1>2
  <2>2. z \in Over(S, Over(D, P)) <=>
          z \in Over(D, P) \/ (z \in S /\ \A y \in Over(D, P) : ~SameRow(z, y))
    BY <1>2
  <2>3. z \in Over(Over(S, D), P) <=>
          z \in P \/ (z \in Over(S, D) /\ \A y \in P : ~SameRow(z, y))
    BY <1>2
  <2>4. z \in Over(S, D) <=> z \in D \/ (z \in S /\ \A y \in D : ~SameRow(z, y))
    BY <1>2
  <2>5. z \in Over(D, P) <=> z \in P \/ (z \in D /\ \A y \in P : ~SameRow(z, y))
    BY <1>2
  <2> QED
    BY <2>1, <2>2, <2>3, <2>4, <2>5
<1> QED
  BY <1>3

-----------------------------------------------------------------------------
(* Placing a fact changes rows of its lane and adds one.                   *)
LEMMA PlacedRows ==
  ASSUME NEW L \in SUBSET Row, NEW r \in Run, NEW f \in Fact
  PROVE  /\ Placed(r, f, L) \subseteq Row
         /\ Keyed(L) /\ (\A x \in L : ~(x.fact = f /\ x.by = r)) => Keyed(Placed(r, f, L))
         /\ \A z \in Placed(r, f, L) :
              \/ z.fact = f /\ z.by = r /\ ~z.rolled
              \/ \E x \in L : SameRow(z, x) /\ z.rolled = x.rolled
<1>1. f.at \in Instant /\ f.at \in 1 .. Open
  BY LaneAssumption DEF Fact, Instant, Open
<1>2. NextAnchor(L, f.at) \in 1 .. Open
  BY <1>1, NextAnchorLeast
<1>3. \A u \in 1 .. Open, d \in BOOLEAN :
        /\ NewRow(r, f, u, d) \in Row
        /\ NewRow(r, f, u, d).fact = f /\ NewRow(r, f, u, d).by = r
        /\ ~NewRow(r, f, u, d).rolled
  BY DEF NewRow, Row
<1>4. CASE \E x \in L : x.fact.at = f.at
  <2> DEFINE e(x) == [x EXCEPT !.disputed = TRUE, !.until = x.fact.at]
             C == {x \in L : x.fact.at = f.at /\ ~x.disputed}
             n == NewRow(r, f, f.at, TRUE)
  <2>1. Placed(r, f, L) = {e(x) : x \in C} \cup {n}
    BY <1>4, Zenon DEF Placed, Conflict
  <2>2. \A x \in L : /\ e(x) \in Row
                     /\ SameRow(e(x), x) /\ e(x).rolled = x.rolled
    <3>1. \A x \in L : x.fact.at \in 1 .. Open
      BY LaneAssumption DEF Row, Fact, Instant, Open
    <3> QED
      BY <3>1 DEF Row, SameRow
  <2>3. n \in Row /\ n.fact = f /\ n.by = r /\ ~n.rolled
    BY <1>1, <1>3
  <2> HIDE DEF e, n
  <2> QED
    BY <2>1, <2>2, <2>3 DEF Keyed, SameRow
<1>5. CASE ~\E x \in L : x.fact.at = f.at
  <2> DEFINE e(x) == [x EXCEPT !.until = f.at, !.closedBy = CrawlRun(r)]
             n == NewRow(r, f, NextAnchor(L, f.at), FALSE)
  <2>1. Placed(r, f, L) = {e(x) : x \in Predecessor(L, f.at)} \cup {n}
    BY <1>5, Zenon DEF Placed, Insertion
  <2>2. CrawlRun(r) \in Run \cup {NoRun}
    BY DEF CrawlRun
  <2>3. \A x \in L : /\ e(x) \in Row
                     /\ SameRow(e(x), x) /\ e(x).rolled = x.rolled
    BY <1>1, <2>2 DEF Row, SameRow
  <2>4. n \in Row /\ n.fact = f /\ n.by = r /\ ~n.rolled
    BY <1>2, <1>3
  <2>5. Predecessor(L, f.at) \subseteq L
    BY DEF Predecessor
  <2> HIDE DEF e, n
  <2> QED
    BY <2>1, <2>3, <2>4, <2>5 DEF Keyed, SameRow
<1> QED
  BY <1>4, <1>5


(* An UPDATE changes the columns that were changed, the others stay.       *)
LEMMA SavedFields ==
  ASSUME NEW c \in Row, NEW x \in Row, NEW y \in Row
  PROVE  /\ Saved(c, x, y) \in Row
         /\ SameRow(Saved(c, x, y), c)
         /\ Saved(c, x, y).until = IF y.until = x.until THEN c.until ELSE y.until
         /\ Saved(c, x, y).disputed =
              IF y.disputed = x.disputed THEN c.disputed ELSE y.disputed
         /\ Saved(c, x, y).rolled = IF y.rolled = x.rolled THEN c.rolled ELSE y.rolled
<1> DEFINE u == IF y.until = x.until THEN c.until ELSE y.until
           d == IF y.disputed = x.disputed THEN c.disputed ELSE y.disputed
           k == IF y.closedBy = x.closedBy THEN c.closedBy ELSE y.closedBy
           o == IF y.rolled = x.rolled THEN c.rolled ELSE y.rolled
<1>1. u \in 1 .. Open /\ d \in BOOLEAN /\ k \in Run \cup {NoRun} /\ o \in BOOLEAN
  BY DEF Row
<1>2. Saved(c, x, y) =
        [c EXCEPT !.until = u, !.disputed = d, !.closedBy = k, !.rolled = o]
  BY DEF Saved, Row
<1> HIDE DEF u, d, k, o
<1>3. /\ Saved(c, x, y) \in Row
      /\ Saved(c, x, y).fact = c.fact /\ Saved(c, x, y).by = c.by
      /\ Saved(c, x, y).until = u /\ Saved(c, x, y).disputed = d
      /\ Saved(c, x, y).rolled = o
  BY <1>1, <1>2 DEF Row
<1> QED
  BY <1>3 DEF SameRow, u, d, o

(* A flush writes the new row and versions of rows that are there; it      *)
(* cancels nothing and revives nothing.                                    *)
LEMMA FlushedRows ==
  ASSUME NEW S \in SUBSET Row, Keyed(S), NEW L \in SUBSET Row, Keyed(L),
         NEW P \in SUBSET Row, Keyed(P)
  PROVE  /\ Flush(S, L, P) \in SUBSET Row
         /\ Keyed(Flush(S, L, P))
         /\ \A z \in Flush(S, L, P) :
              \/ z \in P /\ \A x \in L : ~SameRow(x, z)
              \/ \E c \in S, x \in L, y \in P :
                    /\ SameRow(c, x) /\ SameRow(x, y) /\ x # y
                    /\ z = Saved(c, x, y) /\ SameRow(z, c)
         /\ \A c \in S, x \in L, y \in P :
              SameRow(c, x) /\ SameRow(x, y) /\ x # y => Saved(c, x, y) \in Flush(S, L, P)
         /\ \A y \in P : (\A x \in L : ~SameRow(x, y)) => y \in Flush(S, L, P)
<1> DEFINE New == {y \in P : \A x \in L : ~SameRow(x, y)}
           Pairs == {p \in S \X L \X P : /\ SameRow(p[1], p[2])
                                         /\ SameRow(p[2], p[3])
                                         /\ p[2] # p[3]}
           Upd == {Saved(p[1], p[2], p[3]) : p \in Pairs}
           F == Flush(S, L, P)
<1>1. F = New \cup Upd
  BY Zenon DEF Flush
<1>2. \A c \in S, x \in L, y \in P : /\ Saved(c, x, y) \in Row
                                     /\ SameRow(Saved(c, x, y), c)
  BY SavedFields
<1>3. \A z \in Upd : \E c \in S, x \in L, y \in P :
        SameRow(c, x) /\ SameRow(x, y) /\ x # y /\ z = Saved(c, x, y)
  <2> SUFFICES ASSUME NEW p \in Pairs
               PROVE  \E c \in S, x \in L, y \in P :
                        /\ SameRow(c, x) /\ SameRow(x, y) /\ x # y
                        /\ Saved(p[1], p[2], p[3]) = Saved(c, x, y)
    BY Zenon
  <2>1. p[1] \in S /\ p[2] \in L /\ p[3] \in P
    OBVIOUS
  <2>2. SameRow(p[1], p[2]) /\ SameRow(p[2], p[3]) /\ p[2] # p[3]
    OBVIOUS
  <2> HIDE DEF Pairs
  <2> QED
    BY <2>1, <2>2, Zenon
<1>4. ASSUME NEW c \in S, NEW x \in L, NEW y \in P, SameRow(c, x), SameRow(x, y), x # y
      PROVE  Saved(c, x, y) \in Upd
  <2>1. <<c, x, y>> \in Pairs
    BY <1>4
  <2> HIDE DEF Pairs
  <2>2. \E p \in Pairs : Saved(c, x, y) = Saved(p[1], p[2], p[3])
    BY <2>1
  <2> QED
    BY <2>2, Zenon
<1>5. \A z : z \in New <=> z \in P /\ \A x \in L : ~SameRow(x, z)
  OBVIOUS
<1> HIDE DEF New, Upd, F
<1>6. \A z \in F :
        \/ z \in P /\ \A x \in L : ~SameRow(x, z)
        \/ \E c \in S, x \in L, y \in P :
              /\ SameRow(c, x) /\ SameRow(x, y) /\ x # y
              /\ z = Saved(c, x, y) /\ SameRow(z, c)
  <2> SUFFICES ASSUME NEW z \in Upd
               PROVE  \E c \in S, x \in L, y \in P :
                        /\ SameRow(c, x) /\ SameRow(x, y) /\ x # y
                        /\ z = Saved(c, x, y) /\ SameRow(z, c)
    BY <1>1, <1>5
  <2>1. PICK c \in S, x \in L, y \in P :
          SameRow(c, x) /\ SameRow(x, y) /\ x # y /\ z = Saved(c, x, y)
    BY <1>3
  <2> QED
    BY <1>2, <2>1
<1>7. \A x, y, z : SameRow(x, y) /\ SameRow(y, z) => SameRow(x, z)
  BY DEF SameRow
<1>8. \A x, y : SameRow(x, y) => SameRow(y, x)
  BY DEF SameRow
<1>9. Keyed(F)
  <2> SUFFICES ASSUME NEW z \in F, NEW w \in F, SameRow(z, w) PROVE z = w
    BY DEF Keyed
  <2>1. CASE z \in P /\ w \in P
    BY <2>1 DEF Keyed
  <2>2. ASSUME NEW c \in S, NEW x \in L, NEW y \in P,
               SameRow(c, x), SameRow(x, y), SameRow(z, c), z = Saved(c, x, y)
        PROVE  z = w
    <3>1. SameRow(x, w)
      BY <1>7, <1>8, <2>2
    <3>2. PICK d \in S, v \in L, u \in P :
            SameRow(d, v) /\ SameRow(v, u) /\ w = Saved(d, v, u) /\ SameRow(w, d)
      BY <1>6, <3>1
    <3>3. SameRow(c, d) /\ SameRow(x, v) /\ SameRow(y, u)
      BY <1>7, <1>8, <2>2, <3>1, <3>2
    <3>4. c = d /\ x = v /\ y = u
      BY <3>3 DEF Keyed
    <3> QED
      BY <2>2, <3>2, <3>4
  <2>3. ASSUME NEW d \in S, NEW v \in L, NEW u \in P,
               SameRow(d, v), SameRow(w, d), z \in P, \A x \in L : ~SameRow(x, z)
        PROVE  FALSE
    BY <1>7, <1>8, <2>3
  <2> QED
    BY <1>6, <2>1, <2>2, <2>3
<1>10. F \in SUBSET Row
  BY <1>2, <1>6
<1> QED
  BY <1>1, <1>4, <1>5, <1>6, <1>9, <1>10 DEF F

(* Rows that nobody has changed since they were loaded are replaced.       *)
LEMMA SavedAsLoaded ==
  ASSUME NEW x \in Row, NEW y \in Row, SameRow(x, y)
  PROVE  Saved(x, x, y) = y
<1>1. Saved(x, x, y) \in Row
  BY DEF Saved, Row
<1>2. /\ Saved(x, x, y).fact = y.fact /\ Saved(x, x, y).by = y.by
      /\ Saved(x, x, y).until = y.until /\ Saved(x, x, y).disputed = y.disputed
      /\ Saved(x, x, y).closedBy = y.closedBy /\ Saved(x, x, y).rolled = y.rolled
  BY DEF Saved, Row, SameRow
<1> QED
  BY <1>1, <1>2 DEF Row

(* What a transaction sees are rows, one version each.                     *)
LEMMA ViewRows ==
  ASSUME Sound, NEW r \in Run
  PROVE  /\ View(r) \in SUBSET Row
         /\ Keyed(View(r))
         /\ tx[r].pc = "open" => /\ \A x \in rows : x.by # r
                                /\ \A x \in View(r) : x.by = r => ~x.rolled
         /\ \A x \in View(r) : /\ x \notin rows => x.fact.lane \in tx[r].held
                               /\ x.by # r => \E y \in rows :
                                    SameRow(y, x) /\ y.rolled = x.rolled
<1>1. \A z : z \in View(r) <=>
        z \in draft[r] \/ (z \in rows /\ \A y \in draft[r] : ~SameRow(z, y))
  BY DEF View, Over
<1>2. draft[r] \in SUBSET Row /\ rows \in SUBSET Row
  BY DEF Sound, TypeOK
<1>3. \A x, y : SameRow(x, y) => SameRow(y, x)
  BY DEF SameRow
<1>4. \A x \in rows : tx[x.by].pc = "committed"
  BY DEF Sound, Locks
<1>5. Keyed(View(r))
  BY <1>1, <1>3 DEF Sound, Locks, Keyed
<1>6. tx[r].pc = "open" => \A x \in rows : x.by # r
  BY <1>4
<1>7. \A x : SameRow(x, x)
  BY DEF SameRow
<1>8. \A x \in View(r) :
        x.by # r => \E y \in rows : SameRow(y, x) /\ y.rolled = x.rolled
  BY <1>1, <1>7 DEF Sound, Locks
<1> QED
  BY <1>1, <1>2, <1>5, <1>6, <1>8 DEF Sound, Locks

-----------------------------------------------------------------------------
(* What a product at hand does to the transaction record.                  *)
LEMMA LockStep ==
  ASSUME Sound, NEW r \in Run, tx[r].pc = "open", tx[r].next # NoFact
  PROVE  /\ tx[r].next \in Fact /\ tx[r].next.lane \in Lane
         /\ Lock(r) \in Transaction
         /\ Lock(r).pc = "open" /\ Lock(r).next = tx[r].next
         /\ Lock(r).held = tx[r].held \cup {tx[r].next.lane}
         /\ Lock(r).count = tx[r].count
<1>1. tx[r] \in Transaction
  BY DEF Sound, TypeOK
<1>2. tx[r].next \in Fact /\ tx[r].next.lane \in Lane
  BY <1>1 DEF Transaction, Fact
<1> QED
  BY <1>1, <1>2 DEF Lock, Transaction

LEMMA RecordedStep ==
  ASSUME Sound, NEW r \in Run, tx[r].pc = "open", tx[r].next # NoFact, Recorded(r)
  PROVE  /\ tx' \in [Run -> Transaction] /\ read' \in [Run -> Reading]
         /\ tx'[r].pc = "open" /\ tx'[r].next = NoFact
         /\ tx'[r].held = tx[r].held \cup {tx[r].next.lane}
         /\ read'[r].step = "nothing"
         /\ \A s \in Run : s # r => tx'[s] = tx[s] /\ read'[s] = read[s]
<1>1. tx \in [Run -> Transaction] /\ read \in [Run -> Reading]
  BY DEF Sound, TypeOK
<1>2. /\ Lock(r) \in Transaction /\ Lock(r).pc = "open"
      /\ Lock(r).held = tx[r].held \cup {tx[r].next.lane}
  BY LockStep
<1> DEFINE t == [Lock(r) EXCEPT !.next = NoFact]
<1>3. /\ t \in Transaction /\ t.pc = "open" /\ t.next = NoFact
      /\ t.held = tx[r].held \cup {tx[r].next.lane}
  BY <1>2 DEF Transaction
<1>4. tx' = [tx EXCEPT ![r] = t] /\ read' = [read EXCEPT ![r] = Unread]
  BY DEF Recorded
<1> HIDE DEF t
<1>5. Unread \in Reading /\ Unread.step = "nothing"
  BY DEF Unread, Reading
<1>6. /\ tx' \in [Run -> Transaction] /\ tx'[r] = t
      /\ \A s \in Run : s # r => tx'[s] = tx[s]
  BY <1>1, <1>3, <1>4
<1>7. /\ read' \in [Run -> Reading] /\ read'[r] = Unread
      /\ \A s \in Run : s # r => read'[s] = read[s]
  BY <1>1, <1>4, <1>5
<1> QED
  BY <1>3, <1>5, <1>6, <1>7

(* What a transaction knows stays true as long as the rows of its lanes    *)
(* that are rolled back stay so, and none comes.                           *)
LEMMA StillKnows ==
  ASSUME Sound, NEW s \in Run, tx'[s] = tx[s], read'[s] = read[s],
         \A z \in View(s)' : z.fact.lane \in tx[s].held =>
            \E x \in View(s) : SameRow(z, x) /\ (x.rolled => z.rolled)
  PROVE  Knows(s)'
<1>1. Knows(s)
  BY DEF Sound
<1>2. ASSUME read[s].step = "placing", NEW z \in View(s)', z.fact = tx[s].next
      PROVE  z.rolled
  <2>1. z.fact.lane \in tx[s].held
    BY <1>1, <1>2 DEF Knows
  <2>2. PICK x \in View(s) : SameRow(z, x) /\ (x.rolled => z.rolled)
    BY <1>2, <2>1
  <2>3. x.fact = tx[s].next
    BY <1>2, <2>2 DEF SameRow
  <2> QED
    BY <1>1, <1>2, <2>2, <2>3 DEF Knows
<1> HIDE DEF View
<1> QED
  BY <1>1, <1>2 DEF Knows

(* A step of an open transaction that changes no row.                      *)
LEMMA StepSound ==
  ASSUME Sound, NEW r \in Run, UNCHANGED <<rows, draft, undo>>, TypeOK',
         tx[r].pc # "committed", tx'[r].pc = "open", tx[r].held \subseteq tx'[r].held,
         \A s \in Run : s # r => /\ tx'[s] = tx[s] /\ read'[s] = read[s]
                                 /\ tx'[r].held \cap tx[s].held = {},
         Knows(r)'
  PROVE  Sound'
<1>1. \A s \in Run : tx[s].held \subseteq tx'[s].held
  OBVIOUS
<1>2. Locks'
  <2>1. \A s \in Run : tx'[s].pc # "open" =>
             tx'[s].held = {} /\ draft'[s] = {} /\ tx'[s].next = NoFact
    BY DEF Sound, Locks
  <2>2. \A s, t \in Run : s # t => tx'[s].held \cap tx'[t].held = {}
    BY DEF Sound, Locks
  <2>3. \A s \in Run : \A y \in draft'[s] :
            /\ y.fact.lane \in tx'[s].held
            /\ y.by = s => ~y.rolled
            /\ y.by # s => \E x \in rows' : SameRow(x, y) /\ x.rolled = y.rolled
    BY <1>1 DEF Sound, Locks
  <2>4. \A x \in rows' : tx'[x.by].pc = "committed"
    BY DEF Sound, Locks, TypeOK, Row
  <2> QED
    BY <2>1, <2>2, <2>3, <2>4 DEF Sound, Locks, Keyed
<1>3. ASSUME NEW s \in Run, s # r PROVE Knows(s)'
  <2>1. View(s)' = View(s)
    BY DEF View
  <2> QED
    BY <1>3, <2>1, StillKnows DEF SameRow
<1>4. \A o \in Operator : Loads(o)'
  BY DEF Sound, Loads, Keyed, Loaded
<1> QED
  BY <1>2, <1>3, <1>4 DEF Sound

-----------------------------------------------------------------------------
(* A fact is recorded by an open transaction that holds its lane: it adds  *)
(* a row that was not there, and changes others of the lane.               *)
LEMMA InsertStep ==
  ASSUME Sound, NEW r \in Run, Insert(r)
  PROVE  LET f == tx[r].next
             L == read[r].rows
             F == Flush(View(r), L, Placed(r, f, L))
         IN /\ f \in Fact /\ tx[r].pc = "open" /\ f # NoFact /\ f.lane \in tx[r].held
            /\ L \in SUBSET Row /\ Keyed(L)
            /\ \A x \in L : x.fact.lane = f.lane /\ x.fact # f
            /\ \A x \in View(r) : x.fact = f => x.rolled
            /\ Placed(r, f, L) \in SUBSET Row /\ Keyed(Placed(r, f, L))
            /\ F \in SUBSET Row /\ Keyed(F)
            /\ \A z \in F :
                  /\ z.fact.lane = f.lane
                  /\ \/ z.fact = f /\ z.by = r /\ ~z.rolled
                     \/ \E x \in View(r) : SameRow(z, x) /\ z.rolled = x.rolled
            /\ draft' = [draft EXCEPT ![r] = Over(draft[r], F)]
            /\ View(r)' = Over(View(r), F)
            /\ rows' = rows /\ undo' = undo /\ rollbacks' = rollbacks
            /\ Recorded(r) /\ Confirm(r, [fact |-> f, by |-> r])
<1> DEFINE f == tx[r].next
           L == read[r].rows
           P == Placed(r, f, L)
           F == Flush(View(r), L, P)
<1>1. /\ tx[r] \in Transaction /\ read[r] \in Reading /\ draft \in [Run -> SUBSET Row]
      /\ Knows(r)
  BY DEF Sound, TypeOK
<1>2. /\ tx[r].pc = "open" /\ f # NoFact /\ read[r].step = "placing"
      /\ rows' = rows /\ undo' = undo /\ rollbacks' = rollbacks
      /\ Recorded(r) /\ Confirm(r, [fact |-> f, by |-> r])
      /\ draft' = [draft EXCEPT ![r] = Over(draft[r], F)]
  BY DEF Insert, At
<1>3. f \in Fact /\ f.lane \in tx[r].held
  BY <1>1, <1>2 DEF Transaction, Knows
<1>4. /\ L \in SUBSET Row /\ Keyed(L)
      /\ \A x \in L : x.fact.lane = f.lane /\ x.fact # f
      /\ \A x \in View(r) : x.fact = f => x.rolled
  BY <1>1, <1>2 DEF Reading, Knows
<1>5. /\ P \in SUBSET Row /\ Keyed(P)
      /\ \A z \in P : \/ z.fact = f /\ z.by = r /\ ~z.rolled
                      \/ \E x \in L : SameRow(z, x) /\ z.rolled = x.rolled
  <2>1. \A x \in L : ~(x.fact = f /\ x.by = r)
    BY <1>4
  <2> HIDE DEF L, f
  <2> QED
    BY <1>3, <1>4, <2>1, PlacedRows
<1>6. View(r) \in SUBSET Row /\ Keyed(View(r))
  BY ViewRows
<1> HIDE DEF P, F, L, f
<1>7. /\ F \in SUBSET Row /\ Keyed(F)
      /\ \A z \in F :
            \/ z \in P /\ \A x \in L : ~SameRow(x, z)
            \/ \E c \in View(r), x \in L, y \in P :
                  /\ SameRow(c, x) /\ SameRow(x, y) /\ x # y
                  /\ z = Saved(c, x, y) /\ SameRow(z, c)
  BY <1>4, <1>5, <1>6, FlushedRows DEF F
<1>8. ASSUME NEW z \in F
      PROVE  /\ z.fact.lane = f.lane
             /\ \/ z.fact = f /\ z.by = r /\ ~z.rolled
                \/ \E x \in View(r) : SameRow(z, x) /\ z.rolled = x.rolled
  <2>1. CASE z \in P /\ \A x \in L : ~SameRow(x, z)
    BY <1>5, <2>1 DEF SameRow
  <2>2. ASSUME NEW c \in View(r), NEW x \in L, NEW y \in P,
               SameRow(c, x), SameRow(x, y), z = Saved(c, x, y), SameRow(z, c)
        PROVE  z.fact.lane = f.lane /\ z.rolled = c.rolled
    <3>1. c \in Row /\ x \in Row /\ y \in Row
      BY <1>4, <1>5, <1>6
    <3>2. z.rolled = IF y.rolled = x.rolled THEN c.rolled ELSE y.rolled
      BY <2>2, <3>1, SavedFields
    <3>3. PICK v \in L : SameRow(y, v) /\ y.rolled = v.rolled
      BY <1>4, <1>5, <2>2 DEF SameRow
    <3>4. v = x
      BY <1>4, <2>2, <3>3 DEF Keyed, SameRow
    <3>5. z.fact.lane = f.lane
      BY <1>4, <2>2 DEF SameRow
    <3> QED
      BY <3>2, <3>3, <3>4, <3>5
  <2> QED
    BY <1>7, <2>1, <2>2
<1>9. View(r)' = Over(View(r), F)
  <2>1. draft'[r] = Over(draft[r], F)
    BY <1>1, <1>2 DEF F, P, L, f
  <2> QED
    BY <1>2, <2>1, OverOver DEF View
<1> QED
  BY <1>2, <1>3, <1>4, <1>5, <1>7, <1>8, <1>9 DEF F, P, L, f

(* An abort leaves nothing of the transaction.                             *)
LEMMA AbortStep ==
  ASSUME Sound, NEW r \in Run, tx[r].pc = "open", Abort(r),
         UNCHANGED <<rows, undo, rollbacks>>
  PROVE  Sound'
<1>1. TypeOK'
  <2>1. tx'[r] \in Transaction /\ \A s \in Run : s # r => tx'[s] = tx[s]
    BY DEF Abort, Sound, TypeOK, Transaction
  <2>2. DOMAIN tx' = Run /\ tx' = [s \in Run |-> tx'[s]]
    BY DEF Abort, Sound, TypeOK
  <2>3. tx' \in [Run -> Transaction]
    BY <2>1, <2>2 DEF Sound, TypeOK
  <2>4. Unread \in Reading
    BY DEF Unread, Reading
  <2>5. read' \in [Run -> Reading]
    BY <2>4 DEF Abort, Sound, TypeOK
  <2>6. draft' \in [Run -> SUBSET Row] /\ confirmed' \in [Run -> SUBSET RowId]
    BY DEF Abort, Sound, TypeOK
  <2> QED
    BY <2>3, <2>5, <2>6 DEF Sound, TypeOK
<1>2. \A s \in Run : /\ tx'[s].held \subseteq tx[s].held
                     /\ draft'[s] \subseteq draft[s]
                     /\ s # r => tx'[s] = tx[s] /\ read'[s] = read[s]
  BY DEF Abort, Sound, TypeOK, Transaction
<1>3. /\ tx'[r].pc = "aborted" /\ tx'[r].held = {} /\ tx'[r].next = NoFact
      /\ read'[r].step = "nothing"
      /\ draft'[r] = {} /\ \A s \in Run : s # r => draft'[s] = draft[s]
  BY DEF Abort, Sound, TypeOK, Transaction, Unread
<1>4. \A x \in rows : x.by \in Run /\ x.by # r
  BY DEF Sound, TypeOK, Locks, Row
<1>5. Locks'
  <2>1. /\ \A s \in Run : tx'[s].pc # "open" =>
             tx'[s].held = {} /\ draft'[s] = {} /\ tx'[s].next = NoFact
        /\ \A s, t \in Run : s # t => tx'[s].held \cap tx'[t].held = {}
    BY <1>2, <1>3 DEF Sound, Locks
  <2>2. \A s \in Run : \A y \in draft'[s] :
            /\ y.fact.lane \in tx'[s].held
            /\ y.by = s => ~y.rolled
            /\ y.by # s => \E x \in rows : SameRow(x, y) /\ x.rolled = y.rolled
    BY <1>2, <1>3 DEF Sound, Locks
  <2>3. \A x \in rows : tx'[x.by].pc = "committed"
    BY <1>2, <1>4 DEF Sound, Locks
  <2>4. Keyed(rows) /\ \A s \in Run : Keyed(draft'[s])
    BY <1>3 DEF Sound, Locks, Keyed
  <2> QED
    BY <2>1, <2>2, <2>3, <2>4 DEF Locks, Keyed
<1>6. Knows(r)'
  BY <1>3 DEF Knows
<1>7. ASSUME NEW s \in Run, s # r PROVE Knows(s)'
  <2>1. View(s)' = View(s)
    BY <1>3, <1>7 DEF View
  <2> QED
    BY <1>2, <1>7, <2>1, StillKnows DEF SameRow
<1>8. \A o \in Operator : Loads(o)'
  BY DEF Sound, Loads, Keyed, Loaded
<1> QED
  BY <1>1, <1>5, <1>6, <1>7, <1>8 DEF Sound

(* An insertion drafts rows of the lane it holds.                          *)
LEMMA InsertSound == ASSUME Sound, NEW r \in Run, Insert(r) PROVE Sound'
<1> DEFINE f == tx[r].next
           F == Flush(View(r), read[r].rows, Placed(r, f, read[r].rows))
<1>1. /\ f \in Fact /\ tx[r].pc = "open" /\ f # NoFact /\ f.lane \in tx[r].held
      /\ \A x \in View(r) : x.fact = f => x.rolled
      /\ F \in SUBSET Row /\ Keyed(F)
      /\ \A z \in F :
            /\ z.fact.lane = f.lane
            /\ \/ z.fact = f /\ z.by = r /\ ~z.rolled
               \/ \E x \in View(r) : SameRow(z, x) /\ z.rolled = x.rolled
      /\ draft' = [draft EXCEPT ![r] = Over(draft[r], F)]
      /\ rows' = rows /\ undo' = undo /\ rollbacks' = rollbacks
      /\ Recorded(r) /\ Confirm(r, [fact |-> f, by |-> r])
  BY InsertStep, Zenon
<1>2. draft \in [Run -> SUBSET Row] /\ rows \in SUBSET Row
  BY DEF Sound, TypeOK
<1>3. /\ tx' \in [Run -> Transaction] /\ read' \in [Run -> Reading]
      /\ tx'[r].pc = "open" /\ tx'[r].next = NoFact
      /\ tx'[r].held = tx[r].held /\ read'[r].step = "nothing"
      /\ \A s \in Run : s # r => tx'[s] = tx[s] /\ read'[s] = read[s]
  <2>1. tx[r].held \cup {f.lane} = tx[r].held
    BY <1>1
  <2> QED
    BY <1>1, <2>1, RecordedStep
<1> HIDE DEF F
<1>4. \A z : z \in Over(draft[r], F) <=>
        z \in F \/ (z \in draft[r] /\ \A y \in F : ~SameRow(z, y))
  BY DEF Over
<1>5. /\ draft'[r] = Over(draft[r], F)
      /\ \A s \in Run : s # r => draft'[s] = draft[s]
  BY <1>1, <1>2
<1>6. TypeOK'
  <2>1. Over(draft[r], F) \in SUBSET Row
    BY <1>1, <1>2, <1>4
  <2>2. draft' \in [Run -> SUBSET Row]
    BY <1>1, <1>2, <2>1
  <2>3. [fact |-> f, by |-> r] \in RowId
    BY <1>1 DEF RowId
  <2>4. confirmed' \in [Run -> SUBSET RowId]
    BY <1>1, <2>3 DEF Confirm, Sound, TypeOK
  <2> QED
    BY <1>1, <1>3, <2>2, <2>4 DEF Sound, TypeOK
<1>7. \A z \in F :
        /\ z.fact.lane \in tx[r].held
        /\ z.by = r => ~z.rolled
        /\ z.by # r => \E y \in rows : SameRow(y, z) /\ y.rolled = z.rolled
  <2> SUFFICES ASSUME NEW z \in F, NEW x \in View(r), SameRow(z, x), z.rolled = x.rolled
               PROVE  /\ z.by = r => ~z.rolled
                      /\ z.by # r => \E y \in rows : SameRow(y, z) /\ y.rolled = z.rolled
    BY <1>1
  <2> QED
    BY <1>1, ViewRows DEF SameRow
<1>8. Locks'
  <2>1. /\ \A s \in Run : tx'[s].pc # "open" =>
             tx'[s].held = {} /\ draft'[s] = {} /\ tx'[s].next = NoFact
        /\ \A s, t \in Run : s # t => tx'[s].held \cap tx'[t].held = {}
    BY <1>3, <1>5 DEF Sound, Locks
  <2>2. ASSUME NEW s \in Run, NEW y \in draft'[s]
        PROVE  /\ y.fact.lane \in tx'[s].held
               /\ y.by = s => ~y.rolled
               /\ y.by # s => \E x \in rows' : SameRow(x, y) /\ x.rolled = y.rolled
    <3>1. CASE s # r
      BY <1>1, <1>3, <1>5, <2>2, <3>1 DEF Sound, Locks
    <3>2. CASE s = r
      BY <1>1, <1>3, <1>4, <1>5, <1>7, <2>2, <3>2 DEF Sound, Locks
    <3> QED
      BY <3>1, <3>2
  <2>3. \A x \in rows' : tx'[x.by].pc = "committed"
    BY <1>1, <1>2, <1>3 DEF Sound, Locks, Row
  <2>4. Keyed(draft'[r])
    <3>1. \A x, y : SameRow(x, y) => SameRow(y, x)
      BY DEF SameRow
    <3> QED
      BY <1>1, <1>4, <1>5, <3>1 DEF Sound, Locks, Keyed
  <2>5. Keyed(rows') /\ \A s \in Run : Keyed(draft'[s])
    BY <1>1, <1>5, <2>4 DEF Sound, Locks
  <2> QED
    BY <2>1, <2>2, <2>3, <2>5 DEF Locks, Keyed
<1>9. Knows(r)'
  BY <1>3 DEF Knows
<1>10. ASSUME NEW s \in Run, s # r PROVE Knows(s)'
  <2>1. View(s)' = View(s)
    BY <1>1, <1>5, <1>10 DEF View
  <2> QED
    BY <1>3, <1>10, <2>1, StillKnows DEF SameRow
<1>11. \A o \in Operator : Loads(o)'
  BY <1>1 DEF Sound, Loads, Keyed, Loaded
<1> QED
  BY <1>6, <1>8, <1>9, <1>10, <1>11 DEF Sound

(* Recording without a row: the lane is locked, or was already.            *)
LEMMA RecordedSound ==
  ASSUME Sound, NEW r \in Run, tx[r].pc = "open", tx[r].next # NoFact,
         \A s \in Run : s # r => tx[r].next.lane \notin tx[s].held,
         Recorded(r), confirmed' \in [Run -> SUBSET RowId],
         UNCHANGED <<rows, draft, undo, rollbacks>>
  PROVE  Sound'
<1>1. /\ tx' \in [Run -> Transaction] /\ read' \in [Run -> Reading]
      /\ tx'[r].pc = "open" /\ tx'[r].next = NoFact
      /\ tx'[r].held = tx[r].held \cup {tx[r].next.lane}
      /\ read'[r].step = "nothing"
      /\ \A s \in Run : s # r => tx'[s] = tx[s] /\ read'[s] = read[s]
  BY RecordedStep
<1>2. TypeOK'
  BY <1>1 DEF Sound, TypeOK
<1>3. \A s \in Run : s # r => tx'[r].held \cap tx[s].held = {}
  BY <1>1 DEF Sound, Locks
<1>4. Knows(r)'
  BY <1>1 DEF Knows
<1> QED
  BY <1>1, <1>2, <1>3, <1>4, StepSound

(* Starting on a product takes no lock yet.                                *)
LEMMA FetchSound == ASSUME Sound, NEW r \in Run, Fetch(r) PROVE Sound'
<1>1. tx \in [Run -> Transaction]
  BY DEF Sound, TypeOK
<1>2. PICK f \in Catalogue :
        tx' = [tx EXCEPT ![r] = [tx[r] EXCEPT !.pc = "open", !.next = f, !.count = @ + 1]]
  BY DEF Fetch
<1>3. f \in Fact /\ tx[r].count + 1 \in 0 .. MaxProducts
  BY <1>1, LaneAssumption DEF Fetch, Transaction
<1>4. /\ tx' \in [Run -> Transaction]
      /\ tx'[r].pc = "open" /\ tx'[r].held = tx[r].held
      /\ \A s \in Run : s # r => tx'[s] = tx[s]
  BY <1>1, <1>2, <1>3 DEF Transaction
<1>5. tx[r].pc # "committed" /\ tx[r].next = NoFact
  BY DEF Fetch
<1>6. UNCHANGED <<rows, draft, read, confirmed, undo, rollbacks>>
  BY DEF Fetch
<1>7. TypeOK'
  BY <1>4, <1>6 DEF Sound, TypeOK
<1>8. read'[r].step = "nothing"
  BY <1>5, <1>6 DEF Sound, Knows
<1>9. Knows(r)'
  BY <1>8 DEF Knows
<1>10. \A s \in Run : s # r => tx'[r].held \cap tx[s].held = {}
  BY <1>4 DEF Sound, Locks
<1> QED
  BY <1>4, <1>5, <1>6, <1>7, <1>9, <1>10, StepSound

(* The lock is taken when nobody else has it.                              *)
LEMMA PreflightSound == ASSUME Sound, NEW r \in Run, Preflight(r) PROVE Sound'
<1>1. tx \in [Run -> Transaction] /\ read \in [Run -> Reading]
  BY DEF Sound, TypeOK
<1>2. /\ tx[r].pc = "open" /\ tx[r].next # NoFact /\ LockFree(r)
      /\ tx' = [tx EXCEPT ![r] = Lock(r)]
      /\ read' = [read EXCEPT ![r].step = "checked"]
      /\ UNCHANGED <<rows, draft, confirmed, undo, rollbacks>>
  BY DEF Preflight, At
<1>3. /\ Lock(r) \in Transaction
      /\ Lock(r).pc = "open" /\ Lock(r).next = tx[r].next
      /\ Lock(r).held = tx[r].held \cup {tx[r].next.lane}
  BY <1>2, LockStep
<1>4. /\ tx' \in [Run -> Transaction] /\ tx'[r] = Lock(r)
      /\ \A s \in Run : s # r => tx'[s] = tx[s]
  BY <1>1, <1>2, <1>3
<1>5. /\ read' \in [Run -> Reading] /\ read'[r].step = "checked"
      /\ \A s \in Run : s # r => read'[s] = read[s]
  BY <1>1, <1>2 DEF Reading
<1>6. TypeOK'
  BY <1>2, <1>4, <1>5 DEF Sound, TypeOK
<1>7. \A s \in Run : s # r => tx'[r].held \cap tx[s].held = {}
  BY <1>2, <1>3, <1>4 DEF LockFree, LockHolders, Sound, Locks
<1>8. Knows(r)'
  BY <1>2, <1>3, <1>4, <1>5 DEF Knows
<1> QED
  BY <1>2, <1>3, <1>4, <1>5, <1>6, <1>7, <1>8, StepSound

(* A search that finds no row leaves the fact active nowhere in the view.  *)
LEMMA SearchSound == ASSUME Sound, NEW r \in Run, Search(r) PROVE Sound'
<1> DEFINE f == tx[r].next
           same == Matches(View(r), f)
           lane == LaneRows(View(r), f.lane)
<1>1. tx \in [Run -> Transaction] /\ read \in [Run -> Reading]
  BY DEF Sound, TypeOK
<1>2. View(r) \in SUBSET Row /\ Keyed(View(r))
  BY ViewRows
<1>3. /\ tx[r].pc = "open" /\ f # NoFact /\ f.lane \in tx[r].held
      /\ UNCHANGED <<rows, tx, draft, confirmed, undo, rollbacks>>
  BY DEF Search, At, Sound, Knows
<1>4. PICK x \in {[step |-> "found", rows |-> same], [step |-> "placing", rows |-> lane]} :
        /\ read' = [read EXCEPT ![r] = x]
        /\ x.step = "placing" => same = {}
  BY DEF Search
<1>5. same \in SUBSET Row /\ \A y \in same : y.fact = f
  BY <1>2 DEF Matches
<1>6. /\ lane \in SUBSET Row /\ Keyed(lane)
      /\ \A y \in lane : y \in View(r) /\ y.fact.lane = f.lane /\ ~y.rolled
  BY <1>2 DEF LaneRows, Keyed
<1>7. same = {} => \A y \in View(r) : y.fact = f => y.rolled
  BY DEF Matches
<1> HIDE DEF same, lane
<1>8. x \in Reading /\ x.step # "nothing"
  BY <1>4, <1>5, <1>6 DEF Reading
<1>9. /\ read' \in [Run -> Reading] /\ read'[r] = x
      /\ \A s \in Run : s # r => read'[s] = read[s]
  BY <1>1, <1>4, <1>8
<1>10. TypeOK'
  BY <1>3, <1>9 DEF Sound, TypeOK
<1>11. View(r)' = View(r)
  BY <1>3 DEF View
<1>12. /\ x.step = "found" => \A y \in x.rows : y.fact = f
       /\ x.step = "placing" =>
            /\ Keyed(x.rows)
            /\ \A y \in x.rows : y.fact.lane = f.lane /\ y.fact # f
            /\ \A y \in View(r) : y.fact = f => y.rolled
  BY <1>4, <1>5, <1>6, <1>7
<1> HIDE DEF View
<1>13. Knows(r)'
  BY <1>3, <1>8, <1>9, <1>11, <1>12 DEF Knows
<1>14. \A s \in Run : s # r => tx'[r].held \cap tx[s].held = {}
  BY <1>3 DEF Sound, Locks
<1> QED
  BY <1>3, <1>9, <1>10, <1>13, <1>14, StepSound

(* A run confirms what it found, of the product it has in hand.            *)
LEMMA ReuseStep ==
  ASSUME Sound, NEW r \in Run, Reuse(r)
  PROVE  /\ tx[r].pc = "open" /\ tx[r].next # NoFact
         /\ tx[r].next.lane \in tx[r].held
         /\ Recorded(r) /\ UNCHANGED <<rows, draft, undo, rollbacks>>
         /\ \E id \in RowId : id.fact = tx[r].next /\ Confirm(r, id)
<1>1. /\ tx[r].pc = "open" /\ tx[r].next # NoFact /\ read[r].step = "found"
      /\ Recorded(r) /\ UNCHANGED <<rows, draft, undo, rollbacks>>
  BY DEF Reuse, At
<1>2. PICK x \in read[r].rows : Confirm(r, [fact |-> x.fact, by |-> x.by])
  BY DEF Reuse
<1>3. /\ tx[r].next.lane \in tx[r].held /\ x.fact = tx[r].next
      /\ x \in Row
  BY <1>1 DEF Sound, Knows, TypeOK, Reading
<1>4. [fact |-> x.fact, by |-> x.by] \in RowId
  BY <1>3 DEF Row, RowId
<1> QED
  BY <1>1, <1>2, <1>3, <1>4

LEMMA ReuseSound == ASSUME Sound, NEW r \in Run, Reuse(r) PROVE Sound'
<1>1. /\ tx[r].pc = "open" /\ tx[r].next # NoFact
      /\ tx[r].next.lane \in tx[r].held
      /\ Recorded(r) /\ UNCHANGED <<rows, draft, undo, rollbacks>>
  BY ReuseStep
<1>2. PICK id \in RowId : Confirm(r, id)
  BY ReuseStep
<1>3. confirmed' \in [Run -> SUBSET RowId]
  BY <1>2 DEF Confirm, Sound, TypeOK
<1>4. \A s \in Run : s # r => tx[r].next.lane \notin tx[s].held
  BY <1>1 DEF Sound, Locks
<1> QED
  BY <1>1, <1>3, <1>4, RecordedSound

(* A commit of r changes the view of s only in the lanes s does not hold:  *)
(* there, s sees what r saw.                                               *)
LEMMA CommitViews ==
  ASSUME Sound, NEW r \in Run, Commit(r), NEW s \in Run, s # r,
         NEW z, z.fact.lane \in Lane
  PROVE  z \in View(s)' <=> IF z.fact.lane \in tx[s].held THEN z \in View(s)
                                                          ELSE z \in View(r)
<1>1. rows' = View(r) /\ draft'[s] = draft[s]
  BY DEF Commit, Sound, TypeOK
<1>2. \A S, D, x : x \in Over(S, D) <=> x \in D \/ (x \in S /\ \A y \in D : ~SameRow(x, y))
  BY DEF Over
<1>3. z \in View(r) <=>
        z \in draft[r] \/ (z \in rows /\ \A y \in draft[r] : ~SameRow(z, y))
  BY <1>2 DEF View
<1>4. z \in View(s) <=>
        z \in draft[s] \/ (z \in rows /\ \A y \in draft[s] : ~SameRow(z, y))
  BY <1>2 DEF View
<1>5. z \in View(s)' <=>
        z \in draft[s] \/ (z \in View(r) /\ \A y \in draft[s] : ~SameRow(z, y))
  BY <1>1, <1>2 DEF View
<1>6. /\ \A y \in draft[r] : y.fact.lane \in tx[r].held
      /\ \A y \in draft[s] : y.fact.lane \in tx[s].held
      /\ tx[s].held \cap tx[r].held = {}
  BY DEF Sound, Locks
<1>7. CASE z.fact.lane \in tx[s].held
  <2>1. z \notin draft[r] /\ \A y \in draft[r] : ~SameRow(z, y)
    BY <1>6, <1>7 DEF SameRow
  <2> QED
    BY <1>3, <1>4, <1>5, <1>7, <2>1
<1>8. CASE z.fact.lane \notin tx[s].held
  <2>1. z \notin draft[s] /\ \A y \in draft[s] : ~SameRow(z, y)
    BY <1>6, <1>8 DEF SameRow
  <2> QED
    BY <1>5, <1>8, <2>1
<1> QED
  BY <1>7, <1>8

(* A commit publishes the transaction's view, and frees its lanes.         *)
LEMMA CommitSound == ASSUME Sound, NEW r \in Run, Commit(r) PROVE Sound'
<1>1. /\ tx \in [Run -> Transaction] /\ draft \in [Run -> SUBSET Row]
      /\ rows \in SUBSET Row
  BY DEF Sound, TypeOK
<1>2. View(r) \in SUBSET Row /\ Keyed(View(r))
  BY ViewRows
<1>3. /\ tx[r].pc = "open" /\ tx[r].next = NoFact
      /\ rows' = View(r) /\ draft' = [draft EXCEPT ![r] = {}]
      /\ tx' = [tx EXCEPT ![r] = [tx[r] EXCEPT !.pc = "committed", !.held = {}]]
      /\ UNCHANGED <<read, confirmed, undo, rollbacks>>
  BY DEF Commit
<1>4. /\ tx' \in [Run -> Transaction]
      /\ tx'[r].pc = "committed" /\ tx'[r].held = {} /\ tx'[r].next = NoFact
      /\ \A s \in Run : s # r => tx'[s] = tx[s]
      /\ draft' \in [Run -> SUBSET Row] /\ draft'[r] = {}
      /\ \A s \in Run : s # r => draft'[s] = draft[s]
  BY <1>1, <1>3 DEF Transaction
<1>5. TypeOK'
  BY <1>2, <1>3, <1>4 DEF Sound, TypeOK
<1>6. \A z : z \in View(r) <=>
        z \in draft[r] \/ (z \in rows /\ \A y \in draft[r] : ~SameRow(z, y))
  BY DEF View, Over
<1>7. ASSUME NEW x \in rows, NEW y, SameRow(x, y), NEW s \in Run, s # r, y \in draft[s]
      PROVE  x \in View(r)
  <2>1. y.fact.lane \in tx[s].held
    BY <1>7 DEF Sound, Locks
  <2>2. \A z \in draft[r] : z.fact.lane \in tx[r].held
    BY DEF Sound, Locks
  <2>3. tx[s].held \cap tx[r].held = {}
    BY <1>7 DEF Sound, Locks
  <2>4. \A z \in draft[r] : z.fact # x.fact
    BY <1>7, <2>1, <2>2, <2>3 DEF SameRow
  <2> QED
    BY <1>6, <2>4 DEF SameRow
<1>8. Locks'
  <2>1. /\ \A s \in Run : tx'[s].pc # "open" =>
             tx'[s].held = {} /\ draft'[s] = {} /\ tx'[s].next = NoFact
        /\ \A s, t \in Run : s # t => tx'[s].held \cap tx'[t].held = {}
    BY <1>4 DEF Sound, Locks
  <2>2. \A s \in Run : \A y \in draft'[s] :
            /\ y.fact.lane \in tx'[s].held
            /\ y.by = s => ~y.rolled
            /\ y.by # s => \E x \in rows' : SameRow(x, y) /\ x.rolled = y.rolled
    BY <1>3, <1>4, <1>7 DEF Sound, Locks
  <2>3. \A x \in rows' : tx'[x.by].pc = "committed"
    <3>1. \A x \in rows : x.by \in Run /\ tx[x.by].pc = "committed"
      BY <1>1 DEF Sound, Locks, Row
    <3>2. ASSUME NEW x \in draft[r] PROVE tx'[x.by].pc = "committed"
      <4>1. x.by # r => \E y \in rows : y.by = x.by
        BY DEF Sound, Locks, SameRow
      <4> QED
        BY <3>1, <1>4, <4>1
    <3> QED
      BY <1>3, <1>4, <1>6, <3>1, <3>2
  <2>4. Keyed(rows') /\ \A s \in Run : Keyed(draft'[s])
    BY <1>2, <1>3, <1>4 DEF Sound, Locks, Keyed
  <2> QED
    BY <1>3, <2>1, <2>2, <2>3, <2>4 DEF Sound, Locks, Keyed
<1>9. Knows(r)'
  <2>1. read[r].step = "nothing"
    BY <1>3 DEF Sound, Knows
  <2> QED
    BY <1>3, <2>1 DEF Knows
<1>10. ASSUME NEW s \in Run, s # r PROVE Knows(s)'
  <2>1. ASSUME NEW z \in View(s)', z.fact.lane \in tx[s].held PROVE z \in View(s)
    <3>1. z.fact.lane \in Lane
      BY <1>1, <2>1 DEF Transaction
    <3> QED
      BY <1>10, <2>1, <3>1, CommitViews
  <2> QED
    BY <1>3, <1>4, <1>10, <2>1, StillKnows DEF SameRow
<1>11. ASSUME NEW o \in Operator PROVE Loads(o)'
  <2>1. Keyed(Loaded(o)) /\ Loaded(o)' = Loaded(o)
    BY <1>3 DEF Sound, Loads, Loaded
  <2>2. ASSUME NEW s \in Loaded(o)
        PROVE  \E x \in rows' : SameRow(x, s) /\ (s.rolled => x.rolled)
    <3>1. PICK x \in rows : SameRow(x, s) /\ (s.rolled => x.rolled)
      BY DEF Sound, Loads
    <3>2. CASE \A y \in draft[r] : ~SameRow(x, y)
      BY <1>3, <1>6, <3>1, <3>2
    <3>3. ASSUME NEW y \in draft[r], SameRow(x, y)
          PROVE  SameRow(y, s) /\ y \in View(r) /\ y.rolled = x.rolled
      <4>1. y.by # r
        BY <1>3, <3>3, ViewRows DEF SameRow
      <4>2. PICK w \in rows : SameRow(w, y) /\ w.rolled = y.rolled
        BY <4>1 DEF Sound, Locks
      <4>3. w = x
        BY <3>3, <4>2 DEF Sound, Locks, Keyed, SameRow
      <4> QED
        BY <1>6, <3>1, <3>3, <4>2, <4>3 DEF SameRow
    <3> QED
      BY <1>3, <3>1, <3>2, <3>3
  <2> QED
    BY <2>1, <2>2 DEF Loads, Keyed
<1> QED
  BY <1>5, <1>8, <1>9, <1>10, <1>11 DEF Sound

-----------------------------------------------------------------------------
(* Rollbacks.                                                              *)

(* What a rollback makes of a row it has read.                             *)
LEMMA UndoneFields ==
  ASSUME NEW o \in Operator, NEW x \in Row
  PROVE  /\ Undone(o, x) \in Row /\ SameRow(Undone(o, x), x)
         /\ Undone(o, x).disputed = x.disputed
         /\ Undone(o, x).rolled = (x.rolled \/ x \in undo[o].created)
         /\ x \notin undo[o].created =>
              Undone(o, x).until = IF x \in undo[o].closed THEN Open ELSE x.until
<1> DEFINE k == IF x \in undo[o].closed THEN NoRun ELSE x.closedBy
           d == x.rolled \/ x \in undo[o].created
           u == CASE x \in undo[o].created /\ (x \in undo[o].closed \/ x.until = Open)
                       -> x.fact.at
                  [] x \in undo[o].closed /\ x \notin undo[o].created -> Open
                  [] OTHER -> x.until
<1>1. x.fact.at \in 1 .. Open /\ Open \in 1 .. Open
  BY LaneAssumption DEF Row, Fact, Instant, Open
<1>2. u \in 1 .. Open /\ k \in Run \cup {NoRun} /\ d \in BOOLEAN
  BY <1>1 DEF Row
<1>3. x \notin undo[o].created => u = IF x \in undo[o].closed THEN Open ELSE x.until
  OBVIOUS
<1>4. Undone(o, x) = [x EXCEPT !.closedBy = k, !.rolled = d, !.until = u]
  BY DEF Undone, Row
<1> HIDE DEF k, u, d
<1>5. /\ Undone(o, x) \in Row
      /\ Undone(o, x).fact = x.fact /\ Undone(o, x).by = x.by
      /\ Undone(o, x).disputed = x.disputed
      /\ Undone(o, x).rolled = d /\ Undone(o, x).until = u
  BY <1>2, <1>4 DEF Row
<1> QED
  BY <1>3, <1>5 DEF SameRow, d

(* A rollback writes versions of the rows it has read, and leaves the rows *)
(* that a transaction has changed: their row locks are taken.              *)
LEMMA FinishStep ==
  ASSUME Sound, NEW o \in Operator, FinishRollback(o)
  PROVE  /\ rows' \in SUBSET Row /\ Keyed(rows')
         /\ \A z \in rows' :
              \/ /\ z \in rows
                 /\ \A s \in Loaded(o) : SameRow(z, s) => Undone(o, s) = s
              \/ \E c \in rows, s \in Loaded(o) :
                   /\ SameRow(c, s) /\ z = Saved(c, s, Undone(o, s))
                   /\ SameRow(z, c) /\ (c.rolled => z.rolled)
         /\ \A r \in Run : \A y \in draft[r] : \A x \in rows : SameRow(x, y) => x \in rows'
<1> DEFINE L == Loaded(o)
           D == {Undone(o, s) : s \in L}
           F == Flush(rows, L, D)
<1>1. /\ rows' = Over(rows, F) /\ ~RowsLocked(L)
  BY DEF FinishRollback
<1>2. /\ rows \in SUBSET Row /\ Keyed(rows) /\ L \in SUBSET Row /\ Keyed(L)
      /\ \A r \in Run : Keyed(draft[r])
  BY DEF Sound, TypeOK, Locks, Loads, Loaded, Rollback
<1>3. \A s \in L : /\ Undone(o, s) \in Row /\ SameRow(Undone(o, s), s)
                   /\ s.rolled => Undone(o, s).rolled
  BY <1>2, UndoneFields
<1>4. \A x, y, z : SameRow(x, y) /\ SameRow(y, z) => SameRow(x, z)
  BY DEF SameRow
<1>5. \A x, y : SameRow(x, y) => SameRow(y, x)
  BY DEF SameRow
<1> HIDE DEF L
<1>6. \A y \in D : \E s \in L : y = Undone(o, s)
  OBVIOUS
<1>7. \A s \in L : Undone(o, s) \in D
  OBVIOUS
<1> HIDE DEF D
<1>8. D \in SUBSET Row
  BY <1>3, <1>6
<1>9. Keyed(D)
  <2> SUFFICES ASSUME NEW y \in D, NEW z \in D, SameRow(y, z) PROVE y = z
    BY DEF Keyed
  <2>1. PICK s \in L, t \in L : y = Undone(o, s) /\ z = Undone(o, t)
    BY <1>6
  <2>2. SameRow(s, t)
    BY <1>3, <1>4, <1>5, <2>1
  <2> QED
    BY <1>2, <2>1, <2>2 DEF Keyed
<1>10. /\ F \in SUBSET Row /\ Keyed(F)
       /\ \A z \in F :
            \/ z \in D /\ \A x \in L : ~SameRow(x, z)
            \/ \E c \in rows, x \in L, y \in D :
                  /\ SameRow(c, x) /\ SameRow(x, y) /\ x # y
                  /\ z = Saved(c, x, y) /\ SameRow(z, c)
       /\ \A c \in rows, x \in L, y \in D :
            SameRow(c, x) /\ SameRow(x, y) /\ x # y => Saved(c, x, y) \in F
  BY <1>2, <1>8, <1>9, FlushedRows
<1> HIDE DEF F
<1>11. ASSUME NEW z \in F
       PROVE  \E c \in rows, s \in L :
                   /\ SameRow(c, s) /\ z = Saved(c, s, Undone(o, s))
                   /\ SameRow(z, c) /\ (c.rolled => z.rolled)
  <2>1. ~(z \in D /\ \A x \in L : ~SameRow(x, z))
    BY <1>3, <1>5, <1>6
  <2>2. PICK c \in rows, x \in L, y \in D :
                  /\ SameRow(c, x) /\ SameRow(x, y) /\ x # y
                  /\ z = Saved(c, x, y) /\ SameRow(z, c)
    BY <1>10, <2>1
  <2>3. PICK s \in L : y = Undone(o, s)
    BY <1>6
  <2>4. s = x
    BY <1>2, <1>3, <1>4, <1>5, <2>2, <2>3 DEF Keyed
  <2>5. z.rolled = IF y.rolled = x.rolled THEN c.rolled ELSE y.rolled
    <3>1. c \in Row /\ x \in Row /\ y \in Row
      BY <1>2, <1>8
    <3> QED
      BY <2>2, <3>1, SavedFields
  <2>6. x.rolled => y.rolled
    BY <1>3, <2>3, <2>4
  <2>7. x.rolled \in BOOLEAN /\ y.rolled \in BOOLEAN
    BY <1>2, <1>8 DEF Row
  <2>8. c.rolled => z.rolled
    BY <2>5, <2>6, <2>7
  <2> QED
    BY <2>2, <2>3, <2>4, <2>8
<1>12. \A z : z \in rows' <=> z \in F \/ (z \in rows /\ \A y \in F : ~SameRow(z, y))
  BY <1>1 DEF Over
<1>13. rows' \in SUBSET Row /\ Keyed(rows')
  BY <1>2, <1>5, <1>10, <1>12 DEF Keyed
<1>14. ASSUME NEW z \in rows, \A y \in F : ~SameRow(z, y), NEW s \in L, SameRow(z, s)
       PROVE  Undone(o, s) = s
  <2>1. SUFFICES ASSUME Undone(o, s) # s PROVE FALSE
    OBVIOUS
  <2>2. Saved(z, s, Undone(o, s)) \in F
    BY <1>3, <1>5, <1>7, <1>10, <1>14, <2>1
  <2>3. SameRow(Saved(z, s, Undone(o, s)), z)
    BY <1>2, <1>3, SavedFields
  <2> QED
    BY <1>5, <1>14, <2>2, <2>3
<1>15. ASSUME NEW r \in Run, NEW y \in draft[r], NEW x \in rows, SameRow(x, y)
       PROVE  x \in rows'
  <2>1. \A s \in L : ~SameRow(y, s)
    BY <1>1 DEF RowsLocked
  <2>2. \A z \in F : ~SameRow(x, z)
    BY <1>4, <1>5, <1>11, <1>15, <2>1
  <2> QED
    BY <1>12, <2>2
<1> QED
  BY <1>11, <1>12, <1>13, <1>14, <1>15 DEF L

LEMMA FinishKeepsRolled ==
  ASSUME Sound, NEW o \in Operator, FinishRollback(o)
  PROVE  /\ \A z \in rows' : \E x \in rows : SameRow(z, x) /\ (x.rolled => z.rolled)
         /\ \A x \in rows : \E z \in rows' : SameRow(z, x) /\ (x.rolled => z.rolled)
<1>1. \A z \in rows' : \E x \in rows : SameRow(z, x) /\ (x.rolled => z.rolled)
  BY FinishStep DEF SameRow
<1>2. ASSUME NEW x \in rows PROVE \E z \in rows' : SameRow(z, x)
  <2>1. rows' = Over(rows, Flush(rows, Loaded(o), {Undone(o, s) : s \in Loaded(o)}))
    BY DEF FinishRollback
  <2> QED
    BY <2>1 DEF Over, SameRow
<1>3. Keyed(rows)
  BY DEF Sound, Locks
<1>4. \A x \in rows : \E z \in rows' : SameRow(z, x) /\ (x.rolled => z.rolled)
  BY <1>1, <1>2, <1>3 DEF Keyed, SameRow
<1> QED
  BY <1>1, <1>4

(* So it is compatible with the drafts, with what the transactions know    *)
(* and with what other rollbacks have read.                                *)
LEMMA FinishSound ==
  ASSUME Sound, NEW o \in Operator, FinishRollback(o) PROVE Sound'
<1>1. /\ rows' \in SUBSET Row /\ Keyed(rows')
      /\ \A r \in Run : \A y \in draft[r] : \A x \in rows : SameRow(x, y) => x \in rows'
  BY FinishStep
<1>2. /\ \A z \in rows' : \E x \in rows : SameRow(z, x) /\ (x.rolled => z.rolled)
      /\ \A x \in rows : \E z \in rows' : SameRow(z, x) /\ (x.rolled => z.rolled)
  BY FinishKeepsRolled
<1>3. /\ UNCHANGED <<tx, draft, read, confirmed, rollbacks>>
      /\ undo' = [undo EXCEPT ![o] = NoUndo]
  BY DEF FinishRollback
<1>4. NoUndo \in Rollback
  BY DEF NoUndo, Rollback
<1>5. /\ undo' \in [Operator -> Rollback] /\ undo'[o] = NoUndo
      /\ \A p \in Operator : p # o => undo'[p] = undo[p]
  BY <1>3, <1>4 DEF Sound, TypeOK
<1>6. TypeOK'
  BY <1>1, <1>3, <1>5 DEF Sound, TypeOK
<1>7. Locks'
  <2>1. \A x \in rows' : tx[x.by].pc = "committed"
    BY <1>2 DEF Sound, Locks, SameRow
  <2>2. \A r \in Run : \A y \in draft[r] :
          y.by # r => \E x \in rows' : SameRow(x, y) /\ x.rolled = y.rolled
    BY <1>1 DEF Sound, Locks
  <2> QED
    BY <1>1, <1>3, <2>1, <2>2 DEF Sound, Locks, Keyed
<1>8. ASSUME NEW s \in Run PROVE Knows(s)'
  <2>1. ASSUME NEW z \in View(s)'
        PROVE  \E x \in View(s) : SameRow(z, x) /\ (x.rolled => z.rolled)
    <3>1. z \in draft[s] \/ (z \in rows' /\ \A y \in draft[s] : ~SameRow(z, y))
      BY <1>3, <2>1 DEF View, Over
    <3>2. CASE z \in draft[s]
      BY <3>2 DEF View, Over, SameRow
    <3>3. CASE z \in rows' /\ \A y \in draft[s] : ~SameRow(z, y)
      <4>1. PICK x \in rows : SameRow(z, x) /\ (x.rolled => z.rolled)
        BY <1>2, <3>3
      <4>2. \A y \in draft[s] : ~SameRow(x, y)
        BY <3>3, <4>1 DEF SameRow
      <4>3. x \in View(s)
        BY <4>2 DEF View, Over
      <4> QED
        BY <4>1, <4>3
    <3> QED
      BY <3>1, <3>2, <3>3
  <2> QED
    BY <1>3, <2>1, StillKnows
<1>9. ASSUME NEW p \in Operator PROVE Loads(p)'
  <2>1. CASE p = o
    BY <1>5, <2>1 DEF Loads, Loaded, NoUndo, Keyed
  <2>2. CASE p # o
    <3>1. Loads(p) /\ Loaded(p)' = Loaded(p)
      BY <1>5, <2>2 DEF Sound, Loaded
    <3>2. \A x, y, z : SameRow(x, y) /\ SameRow(y, z) => SameRow(x, z)
      BY DEF SameRow
    <3> QED
      BY <1>2, <3>1, <3>2 DEF Loads, Keyed
  <2> QED
    BY <2>1, <2>2
<1> QED
  BY <1>6, <1>7, <1>8, <1>9 DEF Sound

(* A rollback that reads rows reads them as they are.                      *)
LEMMA ReadSound ==
  ASSUME Sound, NEW o \in Operator, NEW u \in Rollback,
         undo' = [undo EXCEPT ![o] = u],
         Keyed(u.created \cup u.closed),
         \A s \in u.created \cup u.closed : s \in rows \/ s \in Loaded(o),
         UNCHANGED <<rows, tx, draft, read, confirmed>>, rollbacks' \in 0 .. MaxRollbacks
  PROVE  Sound'
<1>1. /\ undo' \in [Operator -> Rollback] /\ undo'[o] = u
      /\ \A p \in Operator : p # o => undo'[p] = undo[p]
  BY DEF Sound, TypeOK
<1>2. TypeOK'
  BY <1>1 DEF Sound, TypeOK
<1>3. Locks'
  BY DEF Sound, Locks, Keyed
<1>4. ASSUME NEW s \in Run PROVE Knows(s)'
  <2>1. View(s)' = View(s)
    BY DEF View
  <2> QED
    BY <2>1, StillKnows DEF SameRow
<1>5. ASSUME NEW p \in Operator PROVE Loads(p)'
  <2>1. CASE p = o
    <3>1. Loaded(o)' = u.created \cup u.closed
      BY <1>1 DEF Loaded
    <3>2. \A s \in Loaded(o)' : \E x \in rows : SameRow(x, s) /\ (s.rolled => x.rolled)
      BY <3>1 DEF Sound, Loads, SameRow
    <3> QED
      BY <2>1, <3>1, <3>2 DEF Loads, Keyed
  <2>2. CASE p # o
    BY <1>1, <2>2 DEF Sound, Loads, Loaded, Keyed
  <2> QED
    BY <2>1, <2>2
<1> QED
  BY <1>2, <1>3, <1>4, <1>5 DEF Sound

LEMMA ReadCreatedSound ==
  ASSUME Sound, NEW o \in Operator, NEW r \in Run, NEW force \in BOOLEAN,
         ReadCreated(o, r, force)
  PROVE  Sound'
<1> DEFINE C == {x \in {x \in rows : x.by = r} : force \/ ~x.rolled}
           u == [pc |-> "selecting", run |-> r, created |-> C, closed |-> {}]
<1>1. /\ rollbacks < MaxRollbacks /\ rollbacks' = rollbacks + 1
      /\ undo' = [undo EXCEPT ![o] = u]
      /\ UNCHANGED <<rows, tx, draft, read, confirmed>>
  BY DEF ReadCreated
<1>2. C \subseteq rows /\ rows \in SUBSET Row /\ Keyed(rows)
  BY DEF Sound, TypeOK, Locks
<1> HIDE DEF C
<1>3. u \in Rollback /\ u.created \cup u.closed = C
  BY <1>2 DEF Rollback
<1>4. rollbacks' \in 0 .. MaxRollbacks
  BY <1>1, LaneAssumption DEF Sound, TypeOK
<1> HIDE DEF u
<1>5. Keyed(u.created \cup u.closed) /\ \A s \in u.created \cup u.closed : s \in rows
  BY <1>2, <1>3 DEF Keyed
<1> QED
  BY <1>1, <1>3, <1>4, <1>5, ReadSound

LEMMA ReadStagingSound ==
  ASSUME Sound, NEW o \in Operator, NEW orphans \in BOOLEAN, ReadStaging(o, orphans)
  PROVE  Sound'
<1> DEFINE C == {x \in rows : ~x.rolled /\ (orphans => x.by \in Discovery)}
           u == [undo[o] EXCEPT !.pc = "changing", !.created = C]
<1>1. /\ undo[o] = NoUndo
      /\ rollbacks < MaxRollbacks /\ rollbacks' = rollbacks + 1
      /\ undo' = [undo EXCEPT ![o] = u]
      /\ UNCHANGED <<rows, tx, draft, read, confirmed>>
  BY Zenon DEF ReadStaging
<1>2. C \subseteq rows /\ rows \in SUBSET Row /\ Keyed(rows)
  BY DEF Sound, TypeOK, Locks
<1> HIDE DEF C
<1>3. u \in Rollback /\ u.created \cup u.closed = C
  <2>1. C \in SUBSET Row /\ undo[o] \in Rollback
    BY <1>2 DEF Sound, TypeOK
  <2>2. undo[o].closed = {}
    BY <1>1 DEF NoUndo
  <2>3. u \in Rollback /\ u.created = C /\ u.closed = undo[o].closed
    BY <2>1 DEF Rollback
  <2> QED
    BY <2>2, <2>3
<1>4. rollbacks' \in 0 .. MaxRollbacks
  BY <1>1, LaneAssumption DEF Sound, TypeOK
<1> HIDE DEF u
<1>5. Keyed(u.created \cup u.closed) /\ \A s \in u.created \cup u.closed : s \in rows
  BY <1>2, <1>3 DEF Keyed
<1> QED
  BY <1>1, <1>3, <1>4, <1>5, ReadSound

LEMMA ReadClosedSound ==
  ASSUME Sound, NEW o \in Operator, ReadClosed(o) PROVE Sound'
<1> DEFINE A == undo[o].created
           B == {x \in rows : x.closedBy = undo[o].run}
           C == {x \in B : \A y \in A : ~SameRow(x, y)}
                  \cup {y \in A : \E x \in B : SameRow(x, y)}
           u == [undo[o] EXCEPT !.pc = "changing", !.closed = C]
<1>1. /\ undo' = [undo EXCEPT ![o] = u]
      /\ UNCHANGED <<rows, tx, draft, read, confirmed, rollbacks>>
  BY DEF ReadClosed
<1>2. /\ undo[o] \in Rollback /\ rows \in SUBSET Row /\ Keyed(rows)
      /\ A \in SUBSET Row /\ Keyed(A) /\ A \subseteq Loaded(o)
      /\ rollbacks \in 0 .. MaxRollbacks
  BY DEF Sound, TypeOK, Locks, Loads, Loaded, Keyed, Rollback
<1>3. \A x \in C : \/ x \in rows /\ \A y \in A : ~SameRow(x, y)
                   \/ x \in A
  OBVIOUS
<1> HIDE DEF C, A
<1>4. C \in SUBSET Row
  BY <1>2, <1>3
<1>5. u \in Rollback /\ u.created \cup u.closed = A \cup C
  BY <1>2, <1>4 DEF Rollback, A
<1> HIDE DEF u
<1>6. Keyed(A \cup C)
  <2>1. \A x, y : SameRow(x, y) => SameRow(y, x)
    BY DEF SameRow
  <2> QED
    BY <1>2, <1>3, <2>1 DEF Keyed
<1>7. \A s \in u.created \cup u.closed : s \in rows \/ s \in Loaded(o)
  BY <1>2, <1>3, <1>5
<1> QED
  BY <1>1, <1>2, <1>5, <1>6, <1>7, ReadSound

-----------------------------------------------------------------------------
(* Every step keeps the locks sound.                                       *)
LEMMA SoundStep == ASSUME Sound, [Next]_vars PROVE Sound'
<1>1. ASSUME NEW r \in Run, Fetch(r) PROVE Sound'
  BY <1>1, FetchSound
<1>2. ASSUME NEW r \in Run, Reject(r) PROVE Sound'
  <2>1. /\ tx[r].pc = "open" /\ tx[r].next # NoFact
        /\ \A s \in Run : s # r => tx[r].next.lane \notin tx[s].held
        /\ UNCHANGED <<rows, undo, rollbacks>>
    BY <1>2 DEF Reject, At, LockFree, LockHolders
  <2>2. CASE r \in Discovery
    BY <1>2, <2>1, <2>2, AbortStep DEF Reject
  <2>3. CASE r \notin Discovery
    <3>1. Recorded(r) /\ UNCHANGED <<draft, confirmed>>
      BY <1>2, <2>3, Zenon DEF Reject
    <3> QED
      BY <2>1, <3>1, RecordedSound DEF Sound, TypeOK
  <2> QED
    BY <2>2, <2>3
<1>3. ASSUME NEW r \in Run, Preflight(r) PROVE Sound'
  BY <1>3, PreflightSound
<1>4. ASSUME NEW r \in Run, Search(r) PROVE Sound'
  BY <1>4, SearchSound
<1>5. ASSUME NEW r \in Run, Reuse(r) PROVE Sound'
  BY <1>5, ReuseSound
<1>6. ASSUME NEW r \in Run, Insert(r) PROVE Sound'
  BY <1>6, InsertSound
<1>7. ASSUME NEW r \in Run, WaitFails(r) PROVE Sound'
  BY <1>7, AbortStep DEF WaitFails, At
<1>8. ASSUME NEW r \in Run, Crash(r) PROVE Sound'
  BY <1>8, AbortStep DEF Crash
<1>9. ASSUME NEW r \in Run, Commit(r) PROVE Sound'
  BY <1>9, CommitSound
<1>10. ASSUME NEW o \in Operator, RollBack(o) PROVE Sound'
  BY <1>10, ReadCreatedSound, ReadClosedSound, ReadStagingSound, FinishSound DEF RollBack
<1>11. CASE UNCHANGED vars
  <2>1. \A r \in Run : View(r)' = View(r)
    BY <1>11 DEF vars, View
  <2>2. \A r \in Run : Knows(r)'
    BY <1>11, <2>1, StillKnows DEF vars, SameRow
  <2>3. \A o \in Operator : Loads(o)'
    BY <1>11 DEF vars, Sound, Loads, Loaded, Keyed
  <2>4. TypeOK' /\ Locks'
    BY <1>11 DEF vars, Sound, TypeOK, Locks, Keyed
  <2> QED
    BY <2>2, <2>3, <2>4 DEF Sound
<1> QED
  BY <1>1, <1>2, <1>3, <1>4, <1>5, <1>6, <1>7, <1>8, <1>9, <1>10, <1>11 DEF Next, Work

(* The locks are sound in every behaviour: lanes have one holder, drafts   *)
(* stay within the lanes held, and a row has one version.                  *)
THEOREM SoundInvariant == Spec => []Sound
<1>1. Init => Sound
  <2> SUFFICES ASSUME Init PROVE Sound
    OBVIOUS
  <2>1. TypeOK
    <3>1. Unread \in Reading /\ NoUndo \in Rollback
      BY DEF Unread, Reading, NoUndo, Rollback
    <3> QED
      BY <3>1, LaneAssumption DEF Init, TypeOK, Transaction
  <2>2. Locks
    BY DEF Init, Locks, Keyed
  <2>3. \A r \in Run : Knows(r)
    BY DEF Init, Knows, Unread
  <2>4. \A o \in Operator : Loads(o)
    BY DEF Init, Loads, Loaded, NoUndo, Keyed
  <2> QED
    BY <2>1, <2>2, <2>3, <2>4 DEF Sound
<1>2. Sound /\ [Next]_vars => Sound'
  BY SoundStep
<1> QED
  BY <1>1, <1>2, PTL DEF Spec

(* Every row ever written is well formed: its validity ends at an instant  *)
(* or never, whatever was recorded, aborted or rolled back.                *)
THEOREM TypeCorrect == Spec => []TypeOK
<1>1. Sound => TypeOK
  BY DEF Sound
<1> QED
  BY <1>1, SoundInvariant, PTL

-----------------------------------------------------------------------------
(* Facts without duplicates.                                               *)

(* No fact is active twice in S.                                           *)
Distinct(S) ==
    \A x, y \in S : x.fact = y.fact /\ ~x.rolled /\ ~y.rolled => SameRow(x, y)

Unduplicated == Distinct(rows) /\ \A r \in Run : Distinct(View(r))

(* A recorded fact was active nowhere in the transaction's view.           *)
LEMMA InsertDistinct ==
  ASSUME Sound, Unduplicated, NEW r \in Run, Insert(r)
  PROVE  Unduplicated'
<1> DEFINE f == tx[r].next
           F == Flush(View(r), read[r].rows, Placed(r, f, read[r].rows))
<1>1. /\ \A x \in View(r) : x.fact = f => x.rolled
      /\ \A z \in F : \/ z.fact = f /\ z.by = r /\ ~z.rolled
                      \/ \E x \in View(r) : SameRow(z, x) /\ z.rolled = x.rolled
      /\ draft' = [draft EXCEPT ![r] = Over(draft[r], F)]
      /\ View(r)' = Over(View(r), F)
      /\ rows' = rows
  BY InsertStep, Zenon
<1> HIDE DEF F
<1>2. \A z \in View(r)' :
        \/ z.fact = f /\ z.by = r
        \/ \E x \in View(r) : SameRow(z, x) /\ z.rolled = x.rolled
  <2>1. View(r)' \subseteq View(r) \cup F
    BY <1>1 DEF Over
  <2> QED
    BY <1>1, <2>1 DEF SameRow
<1>3. Distinct(View(r)')
  <2> SUFFICES ASSUME NEW y \in View(r)', NEW z \in View(r)',
                      y.fact = z.fact, ~y.rolled, ~z.rolled
               PROVE  SameRow(y, z)
    BY DEF Distinct
  <2>1. CASE y.fact = f
    <3>1. ASSUME NEW x \in View(r)', x.fact = f, ~x.rolled PROVE x.by = r
      <4>1. SUFFICES ASSUME NEW w \in View(r), SameRow(x, w), x.rolled = w.rolled
                     PROVE  FALSE
        BY <1>2, <3>1
      <4>2. w.rolled
        BY <1>1, <3>1, <4>1 DEF SameRow
      <4> QED
        BY <3>1, <4>1, <4>2
    <3> QED
      BY <2>1, <3>1 DEF SameRow
  <2>2. CASE y.fact # f
    BY <1>2, <2>2 DEF SameRow, Unduplicated, Distinct
  <2> QED
    BY <2>1, <2>2
<1>4. \A s \in Run : s # r => View(s)' = View(s)
  BY <1>1 DEF View, Sound, TypeOK
<1> QED
  BY <1>1, <1>3, <1>4 DEF Unduplicated, Distinct

(* Lanes have one writer, so two commits cannot bring the same fact.       *)
LEMMA CommitDistinct ==
  ASSUME Sound, Unduplicated, NEW r \in Run, Commit(r)
  PROVE  Unduplicated'
<1>1. rows' = View(r) /\ View(r)' = View(r)
  BY DEF Commit, View, Over, Sound, TypeOK
<1>2. ASSUME NEW s \in Run, s # r PROVE Distinct(View(s)')
  <2> SUFFICES ASSUME NEW y \in View(s)', NEW z \in View(s)',
                      y.fact = z.fact, ~y.rolled, ~z.rolled
               PROVE  SameRow(y, z)
    BY DEF Distinct
  <2>1. \A x \in View(s)' : x.fact.lane \in Lane
    <3>1. View(s)' \subseteq View(s) \cup View(r)
      BY <1>1, <1>2 DEF View, Over, Commit, Sound, TypeOK
    <3> QED
      BY <3>1, ViewRows DEF Row, Fact
  <2>2. \/ y \in View(s) /\ z \in View(s)
        \/ y \in View(r) /\ z \in View(r)
    BY <1>2, <2>1, CommitViews
  <2> QED
    BY <2>2 DEF Unduplicated, Distinct
<1> QED
  BY <1>1, <1>2 DEF Unduplicated, Distinct

(* A rollback revives no row.                                              *)
LEMMA RollbackDistinct ==
  ASSUME Sound, Unduplicated,
         \A z \in rows' : \E x \in rows : SameRow(z, x) /\ (x.rolled => z.rolled),
         UNCHANGED draft
  PROVE  Unduplicated'
<1>1. \A x, y, z : SameRow(x, y) /\ SameRow(y, z) => SameRow(x, z)
  BY DEF SameRow
<1>2. \A x, y : SameRow(x, y) => SameRow(y, x) /\ x.fact = y.fact
  BY DEF SameRow
<1>3. Distinct(rows')
  BY <1>1, <1>2 DEF Unduplicated, Distinct
<1>4. ASSUME NEW r \in Run, NEW z \in View(r)'
      PROVE  \E x \in View(r) : SameRow(z, x) /\ (x.rolled => z.rolled)
  <2>1. z \in draft[r] \/ (z \in rows' /\ \A y \in draft[r] : ~SameRow(z, y))
    BY <1>4 DEF View, Over
  <2>2. \A x \in rows : (\A y \in draft[r] : ~SameRow(x, y)) => x \in View(r)
    BY DEF View, Over
  <2>3. z \in draft[r] => z \in View(r) /\ SameRow(z, z)
    BY DEF View, Over, SameRow
  <2> QED
    BY <1>1, <1>2, <2>1, <2>2, <2>3
<1>5. ASSUME NEW r \in Run PROVE Distinct(View(r)')
  BY <1>1, <1>2, <1>4 DEF Unduplicated, Distinct
<1> QED
  BY <1>3, <1>5 DEF Unduplicated, Distinct

(* Every step keeps the facts distinct, in the table and in every view.    *)
LEMMA DistinctStep ==
  ASSUME Sound, Unduplicated, [Next]_vars
  PROVE  Unduplicated'
<1>1. ASSUME UNCHANGED <<rows, draft>> PROVE Unduplicated'
  BY <1>1 DEF Unduplicated, View
<1>2. ASSUME NEW r \in Run, Abort(r), UNCHANGED rows PROVE Unduplicated'
  <2>1. \A s \in Run : View(s)' = rows \/ View(s)' = View(s)
    BY <1>2 DEF Abort, View, Over, Sound, TypeOK
  <2> QED
    BY <1>2, <2>1 DEF Unduplicated
<1>3. ASSUME NEW r \in Run, Fetch(r) \/ Preflight(r) \/ Search(r) \/ Reuse(r)
      PROVE  Unduplicated'
  BY <1>1, <1>3 DEF Fetch, Preflight, Search, Reuse
<1>4. ASSUME NEW r \in Run, Reject(r) \/ WaitFails(r) \/ Crash(r) PROVE Unduplicated'
  BY <1>1, <1>2, <1>4 DEF Reject, WaitFails, Crash
<1>5. ASSUME NEW r \in Run, Insert(r) PROVE Unduplicated'
  BY <1>5, InsertDistinct
<1>6. ASSUME NEW r \in Run, Commit(r) PROVE Unduplicated'
  BY <1>6, CommitDistinct
<1>7. ASSUME NEW o \in Operator, RollBack(o) PROVE Unduplicated'
  <2>1. CASE FinishRollback(o)
    BY <2>1, FinishKeepsRolled, RollbackDistinct DEF FinishRollback
  <2>2. CASE ~FinishRollback(o)
    <3>1. UNCHANGED <<rows, draft>>
      BY <1>7, <2>2, Zenon DEF RollBack, ReadCreated, ReadClosed, ReadStaging
    <3> QED
      BY <1>1, <3>1
  <2> QED
    BY <2>1, <2>2
<1>8. CASE UNCHANGED vars
  BY <1>1, <1>8 DEF vars
<1> QED
  BY <1>3, <1>4, <1>5, <1>6, <1>7, <1>8 DEF Next, Work

(* "The search-then-insert can never race into a duplicate": whatever the  *)
(* number of syncs, discoveries and rollbacks, and also when a rollback    *)
(* commits between the search and the insertion.                           *)
THEOREM FactsNeverDuplicated == Spec => []NoDuplicateFacts
<1>1. Init => Unduplicated
  BY DEF Init, Unduplicated, Distinct, View, Over
<1>2. Sound /\ Unduplicated /\ [Next]_vars => Unduplicated'
  BY DistinctStep
<1>3. Sound /\ Unduplicated => NoDuplicateFacts
  BY DEF Sound, Locks, Keyed, Unduplicated, Distinct, NoDuplicateFacts
<1> QED
  BY <1>1, <1>2, <1>3, SoundInvariant, PTL DEF Spec

-----------------------------------------------------------------------------
(* Occurrences without duplicates.                                         *)

(* A transaction confirms rows of the lanes it holds; discoveries do not   *)
(* confirm the same row.                                                   *)
Confirmations ==
    /\ \A r \in Run : tx[r].pc # "committed" =>
            \A id \in confirmed[r] : id.fact.lane \in tx[r].held
    /\ \A d, e \in Discovery : d # e => confirmed[d] \cap confirmed[e] = {}

(* Confirming a row of a lane that the transaction holds.                  *)
LEMMA ConfirmStep ==
  ASSUME Sound, Confirmations, NEW r \in Run, NEW id \in RowId,
         tx[r].pc = "open", tx[r].next # NoFact, tx[r].next.lane \in tx[r].held,
         Recorded(r), Confirm(r, id), id.fact = tx[r].next
  PROVE  Confirmations'
<1>1. Discovery \subseteq Run /\ tx \in [Run -> Transaction] /\ confirmed \in [Run -> SUBSET RowId]
  BY LaneAssumption DEF Sound, TypeOK
<1>2. /\ tx'[r].pc = "open" /\ tx'[r].held = tx[r].held \cup {tx[r].next.lane}
      /\ \A s \in Run : s # r => tx'[s] = tx[s]
  BY RecordedStep
<1>3. \A s \in Run : s # r => tx[r].next.lane \notin tx[s].held
  BY DEF Sound, Locks
<1>4. \A s \in Run : s # r => confirmed'[s] = confirmed[s]
  BY <1>1 DEF Confirm
<1>5. \/ confirmed'[r] = confirmed[r]
      \/ /\ confirmed'[r] = confirmed[r] \cup {id}
         /\ r \in Discovery =>
              \A d \in Discovery : tx[d].pc = "committed" => id \notin confirmed[d]
  BY <1>1 DEF Confirm
<1>6. ASSUME NEW s \in Run, tx'[s].pc # "committed", NEW i \in confirmed'[s]
      PROVE  i.fact.lane \in tx'[s].held
  BY <1>2, <1>4, <1>5, <1>6 DEF Confirmations
<1>7. ASSUME NEW d \in Discovery, d # r, r \in Discovery
      PROVE  confirmed'[d] \cap confirmed'[r] = {}
  <2>1. tx[d].pc # "committed" => id \notin confirmed[d]
    BY <1>1, <1>3, <1>7 DEF Confirmations
  <2> QED
    BY <1>1, <1>4, <1>5, <1>7, <2>1 DEF Confirmations
<1>8. ASSUME NEW d \in Discovery, NEW e \in Discovery, d # e
      PROVE  confirmed'[d] \cap confirmed'[e] = {}
  BY <1>1, <1>4, <1>7, <1>8 DEF Confirmations
<1> QED
  BY <1>6, <1>8 DEF Confirmations

(* Every step keeps the confirmations apart.                               *)
LEMMA ConfirmationsStep ==
  ASSUME Sound, Confirmations, [Next]_vars
  PROVE  Confirmations'
<1> USE DEF Sound, TypeOK
<1>1. ASSUME UNCHANGED confirmed,
             \A r \in Run : tx'[r].pc # "committed" =>
                tx[r].pc # "committed" /\ tx[r].held \subseteq tx'[r].held
      PROVE  Confirmations'
  BY <1>1 DEF Confirmations
<1>2. ASSUME NEW r \in Run, Abort(r) PROVE Confirmations'
  <2>1. confirmed'[r] = {} /\ \A s \in Run : s # r => confirmed'[s] = confirmed[s]
    BY <1>2 DEF Abort
  <2>2. \A s \in Run : s # r => tx'[s] = tx[s]
    BY <1>2 DEF Abort
  <2> QED
    BY <2>1, <2>2, LaneAssumption DEF Confirmations
<1>3. ASSUME NEW r \in Run, Fetch(r) PROVE Confirmations'
  <2>1. \A s \in Run : tx'[s].held = tx[s].held /\ (s # r => tx'[s] = tx[s])
    BY <1>3 DEF Fetch, Transaction
  <2> QED
    BY <1>1, <1>3, <2>1 DEF Fetch
<1>4. ASSUME NEW r \in Run, Reject(r) PROVE Confirmations'
  <2>1. CASE r \in Discovery
    BY <1>2, <1>4, <2>1 DEF Reject
  <2>2. CASE r \notin Discovery
    <3>1. Recorded(r) /\ UNCHANGED confirmed
      BY <1>4, <2>2, Zenon DEF Reject
    <3>2. tx[r].pc = "open" /\ tx[r].next # NoFact
      BY <1>4 DEF Reject, At
    <3>3. \A s \in Run : tx'[s].pc = tx[s].pc /\ tx[s].held \subseteq tx'[s].held
      BY <3>1, <3>2, RecordedStep
    <3> QED
      BY <1>1, <3>1, <3>3
  <2> QED
    BY <2>1, <2>2
<1>5. ASSUME NEW r \in Run, Preflight(r) PROVE Confirmations'
  <2>1. /\ tx[r].pc = "open" /\ tx[r].next # NoFact
        /\ tx' = [tx EXCEPT ![r] = Lock(r)] /\ UNCHANGED confirmed
    BY <1>5 DEF Preflight, At
  <2>2. Lock(r).pc = "open" /\ tx[r].held \subseteq Lock(r).held
    BY <2>1, LockStep
  <2>3. \A s \in Run : tx'[s].pc = tx[s].pc /\ tx[s].held \subseteq tx'[s].held
    BY <2>1, <2>2
  <2> QED
    BY <1>1, <2>1, <2>3
<1>6. ASSUME NEW r \in Run, Reuse(r) PROVE Confirmations'
  <2>1. /\ tx[r].pc = "open" /\ tx[r].next # NoFact
        /\ tx[r].next.lane \in tx[r].held /\ Recorded(r)
        /\ \E id \in RowId : id.fact = tx[r].next /\ Confirm(r, id)
    BY <1>6, ReuseStep
  <2> QED
    BY <2>1, ConfirmStep
<1>7. ASSUME NEW r \in Run, Insert(r) PROVE Confirmations'
  <2> DEFINE f == tx[r].next
  <2>1. /\ f \in Fact /\ tx[r].pc = "open" /\ f # NoFact /\ f.lane \in tx[r].held
        /\ Recorded(r) /\ Confirm(r, [fact |-> f, by |-> r])
    BY <1>7, InsertStep, Zenon
  <2>2. [fact |-> f, by |-> r] \in RowId
    BY <2>1 DEF RowId
  <2> QED
    BY <2>1, <2>2, ConfirmStep
<1>8. ASSUME NEW r \in Run, WaitFails(r) \/ Crash(r) PROVE Confirmations'
  BY <1>2, <1>8 DEF WaitFails, Crash
<1>9. ASSUME NEW r \in Run, Commit(r) PROVE Confirmations'
  <2>1. tx'[r].pc = "committed" /\ \A s \in Run : s # r => tx'[s] = tx[s]
    BY <1>9 DEF Commit
  <2> QED
    BY <1>1, <1>9, <2>1 DEF Commit
<1>10. ASSUME UNCHANGED <<tx, confirmed>> PROVE Confirmations'
  BY <1>10 DEF Confirmations
<1>11. ASSUME NEW o \in Operator, RollBack(o) PROVE UNCHANGED <<tx, confirmed>>
  BY <1>11, Zenon DEF RollBack, ReadCreated, ReadClosed, ReadStaging, FinishRollback
<1>12. ASSUME NEW r \in Run, Search(r) PROVE UNCHANGED <<tx, confirmed>>
  BY <1>12 DEF Search
<1>13. CASE UNCHANGED vars
  BY <1>10, <1>13 DEF vars
<1> QED
  BY <1>3, <1>4, <1>5, <1>6, <1>7, <1>8, <1>9, <1>10, <1>11, <1>12, <1>13 DEF Next, Work

(* Discoveries never both insert an occurrence of one row, however many    *)
(* run at once.                                                            *)
THEOREM OccurrencesNeverDuplicated == Spec => []NoDuplicateOccurrences
<1>1. Init => Confirmations
  BY LaneAssumption DEF Init, Confirmations
<1>2. Sound /\ Confirmations /\ [Next]_vars => Confirmations'
  BY ConfirmationsStep
<1>3. Confirmations => NoDuplicateOccurrences
  BY DEF Confirmations, NoDuplicateOccurrences
<1> QED
  BY <1>1, <1>2, <1>3, SoundInvariant, PTL DEF Spec

-----------------------------------------------------------------------------
(* Chains of intervals.  A rollback breaks them (it reopens a row that may *)
(* have got a successor since), so what follows assumes there is none.     *)

(* u is the first anchor of L after t, or Open.                            *)
IsNext(L, t, u) ==
    /\ t < u
    /\ u = Open \/ \E y \in L : y.fact.at = u
    /\ \A y \in L : t < y.fact.at => u <= y.fact.at

(* The rows of a lane form one chain: each fact once, disputed exactly if  *)
(* another fact contradicts it, and otherwise valid until the next anchor. *)
Chained(L) ==
    \A x \in L :
        /\ x.disputed <=> \E y \in L : y.fact.at = x.fact.at /\ y.fact # x.fact
        /\ x.disputed => x.until = x.fact.at
        /\ ~x.disputed => IsNext(L, x.fact.at, x.until)
        /\ \A y \in L : x.fact = y.fact => x = y

Chains ==
    /\ \A l \in Lane : /\ Chained(LaneRows(rows, l))
                       /\ \A r \in Run : Chained(LaneRows(View(r), l))
    /\ \A r \in Run : read[r].step = "placing" =>
            read[r].rows = LaneRows(View(r), tx[r].next.lane)
    /\ \A o \in Operator : undo[o] = NoUndo

(* A fact that contradicts recorded ones joins them in dispute: the        *)
(* anchors stay the same.                                                  *)
LEMMA ConflictChained ==
  ASSUME NEW L \in SUBSET Row, Keyed(L), Chained(L),
         NEW f \in Fact, NEW r \in Run,
         \A x \in L : x.fact # f,
         \E x \in L : x.fact.at = f.at
  PROVE  Chained(Over(L, Conflict(r, f, L)))
<1> DEFINE e(x) == [x EXCEPT !.disputed = TRUE, !.until = x.fact.at]
           n == NewRow(r, f, f.at, TRUE)
           C == {x \in L : x.fact.at = f.at /\ ~x.disputed}
           M == Over(L, Conflict(r, f, L))
<1>1. Conflict(r, f, L) = {e(x) : x \in C} \cup {n}
  BY Zenon DEF Conflict
<1>2. \A x \in L : /\ e(x).fact = x.fact /\ e(x).by = x.by
                   /\ e(x).disputed /\ e(x).until = x.fact.at
  BY DEF Row
<1>3. n.fact = f /\ n.by = r /\ n.disputed /\ n.until = f.at
  BY DEF NewRow
<1>4. C \subseteq L /\ \A x \in L : x \in C <=> x.fact.at = f.at /\ ~x.disputed
  OBVIOUS
<1> HIDE DEF e, n, C
<1>5. \A z : z \in M <=> \/ z = n
                         \/ \E x \in C : z = e(x)
                         \/ z \in L /\ z \notin C
  <2>1. \A z : z \in M <=> \/ z \in Conflict(r, f, L)
                           \/ z \in L /\ \A y \in Conflict(r, f, L) : ~SameRow(z, y)
    BY DEF Over
  <2>2. \A z \in L : (\A y \in Conflict(r, f, L) : ~SameRow(z, y)) <=> z \notin C
    BY <1>1, <1>2, <1>3, <1>4 DEF SameRow, Keyed
  <2> QED
    BY <1>1, <2>1, <2>2
<1>6. \A z \in M : /\ z.fact.at = f.at => z.disputed /\ z.until = z.fact.at
                   /\ z.fact.at # f.at => z \in L
                   /\ z.fact = f \/ \E x \in L : x.fact = z.fact
  BY <1>2, <1>3, <1>4, <1>5 DEF Chained
<1>7. \A x \in L : \E z \in M : z.fact = x.fact
  BY <1>2, <1>4, <1>5
<1>8. n \in M
  BY <1>5
<1>9. \A z \in M : \E x \in L : x.fact.at = z.fact.at
  BY <1>6
<1>10. ASSUME NEW z \in M, z.fact.at = f.at
       PROVE  \E y \in M : y.fact.at = z.fact.at /\ y.fact # z.fact
  BY <1>3, <1>6, <1>7, <1>8, <1>10
<1>11. ASSUME NEW z \in M, z.fact.at # f.at
       PROVE  /\ z.disputed <=> \E y \in M : y.fact.at = z.fact.at /\ y.fact # z.fact
              /\ z.disputed => z.until = z.fact.at
              /\ ~z.disputed => IsNext(M, z.fact.at, z.until)
  <2>1. z \in L
    BY <1>6, <1>11
  <2>2. (\E y \in M : y.fact.at = z.fact.at /\ y.fact # z.fact)
        <=> (\E y \in L : y.fact.at = z.fact.at /\ y.fact # z.fact)
    BY <1>6, <1>7, <1>11
  <2>3. ASSUME ~z.disputed PROVE IsNext(M, z.fact.at, z.until)
    <3>1. IsNext(L, z.fact.at, z.until)
      BY <2>1, <2>3 DEF Chained
    <3> HIDE DEF M
    <3>2. z.until = Open \/ \E y \in M : y.fact.at = z.until
      BY <1>7, <3>1 DEF IsNext
    <3>3. \A y \in M : z.fact.at < y.fact.at => z.until <= y.fact.at
      BY <1>9, <3>1 DEF IsNext
    <3> QED
      BY <3>1, <3>2, <3>3 DEF IsNext
  <2> QED
    BY <2>1, <2>2, <2>3 DEF Chained
<1>12. ASSUME NEW z \in M, NEW y \in M, z.fact = y.fact PROVE z = y
  <2>1. CASE z.fact = f
    <3>1. \A w \in M : w.fact = f => w = n
      BY <1>2, <1>4, <1>5
    <3> QED
      BY <1>12, <2>1, <3>1
  <2>2. CASE z.fact # f
    BY <1>2, <1>3, <1>4, <1>5, <1>12, <2>2 DEF Chained
  <2> QED
    BY <2>1, <2>2
<1>13. \A z \in M :
        /\ z.disputed <=> \E y \in M : y.fact.at = z.fact.at /\ y.fact # z.fact
        /\ z.disputed => z.until = z.fact.at
        /\ ~z.disputed => IsNext(M, z.fact.at, z.until)
        /\ \A y \in M : z.fact = y.fact => z = y
  BY <1>6, <1>10, <1>11, <1>12
<1> QED
  BY <1>13 DEF Chained

(* A fact at a new instant splits the interval of its predecessor.         *)
LEMMA InsertionChained ==
  ASSUME NEW L \in SUBSET Row, Keyed(L), Chained(L),
         NEW f \in Fact, NEW r \in Run,
         \A x \in L : x.fact.at # f.at
  PROVE  Chained(Over(L, Insertion(r, f, L)))
<1> DEFINE e(x) == [x EXCEPT !.until = f.at, !.closedBy = CrawlRun(r)]
           next == NextAnchor(L, f.at)
           n == NewRow(r, f, next, FALSE)
           C == Predecessor(L, f.at)
           M == Over(L, Insertion(r, f, L))
<1>1. Insertion(r, f, L) = {e(x) : x \in C} \cup {n}
  BY Zenon DEF Insertion
<1>2. \A x \in L : /\ e(x).fact = x.fact /\ e(x).by = x.by
                   /\ e(x).disputed = x.disputed /\ e(x).until = f.at
  BY DEF Row
<1>3. n.fact = f /\ n.by = r /\ ~n.disputed /\ n.until = next
  BY DEF NewRow
<1>4. C \subseteq L /\ \A x \in L : x \in C <=>
        /\ x.fact.at < f.at /\ ~x.disputed
        /\ \A y \in L : y.fact.at < f.at => y.fact.at <= x.fact.at
  BY DEF Predecessor
<1>5. f.at \in Instant /\ \A x \in L : x.fact.at \in Nat /\ x.until \in Nat
  BY LaneAssumption DEF Fact, Row, Instant, Open
<1>6. IsNext(L, f.at, next)
  BY <1>5, NextAnchorLeast DEF IsNext
<1>7. f.at \in Nat /\ next \in Nat /\ Open \in Nat
  BY <1>5, NextAnchorLeast, LaneAssumption DEF Instant, Open
<1> HIDE DEF e, n, C, next
<1>8. \A z : z \in M <=> \/ z = n
                         \/ \E x \in C : z = e(x)
                         \/ z \in L /\ z \notin C
  <2>1. \A z : z \in M <=> \/ z \in Insertion(r, f, L)
                           \/ z \in L /\ \A y \in Insertion(r, f, L) : ~SameRow(z, y)
    BY DEF Over
  <2>2. \A z \in L : (\A y \in Insertion(r, f, L) : ~SameRow(z, y)) <=> z \notin C
    BY <1>1, <1>2, <1>3, <1>4 DEF SameRow, Keyed
  <2> QED
    BY <1>1, <2>1, <2>2
<1>9. \A x \in L : \E z \in M : z.fact = x.fact
  BY <1>2, <1>4, <1>8
<1>10. \A z \in M : z = n \/ \E x \in L : x.fact = z.fact
  BY <1>2, <1>4, <1>8
<1>11. n \in M
  BY <1>8
<1>12. /\ \A y \in M : y.fact.at = f.at => y = n
       /\ \A y \in M : y.fact.at \in Nat
  BY <1>3, <1>5, <1>7, <1>10
<1> DEFINE Good(z) ==
        /\ z.disputed <=> \E y \in M : y.fact.at = z.fact.at /\ y.fact # z.fact
        /\ z.disputed => z.until = z.fact.at
        /\ ~z.disputed => IsNext(M, z.fact.at, z.until)
<1> HIDE DEF M
<1>13. Good(n)
  <2>1. ~\E y \in M : y.fact.at = n.fact.at /\ y.fact # n.fact
    BY <1>3, <1>12
  <2>2. next = Open \/ \E y \in M : y.fact.at = next
    BY <1>6, <1>9 DEF IsNext
  <2>3. \A y \in M : f.at < y.fact.at => next <= y.fact.at
    BY <1>3, <1>6, <1>7, <1>10 DEF IsNext
  <2>4. IsNext(M, f.at, next)
    BY <1>6, <2>2, <2>3 DEF IsNext
  <2> QED
    BY <1>3, <2>1, <2>4
<1>14. ASSUME NEW x \in L
       PROVE  (\E y \in M : y.fact.at = x.fact.at /\ y.fact # x.fact)
              <=> (\E y \in L : y.fact.at = x.fact.at /\ y.fact # x.fact)
  BY <1>3, <1>9, <1>10
<1>15. ASSUME NEW x \in C PROVE Good(e(x))
  <2>1. x \in L /\ ~x.disputed /\ x.fact.at < f.at
    BY <1>4
  <2>2. \A y \in M : x.fact.at < y.fact.at => f.at <= y.fact.at
    BY <1>3, <1>4, <1>5, <1>7, <1>10, <2>1
  <2>3. IsNext(M, x.fact.at, f.at)
    BY <1>3, <1>11, <2>1, <2>2 DEF IsNext
  <2>4. ~\E y \in M : y.fact.at = x.fact.at /\ y.fact # x.fact
    BY <1>14, <2>1 DEF Chained
  <2> QED
    BY <1>2, <2>1, <2>3, <2>4
<1>16. ASSUME NEW x \in L, x \notin C PROVE Good(x)
  <2>1. ASSUME ~x.disputed, x.fact.at < f.at PROVE x.until <= f.at
    <3>1. PICK y \in L : y.fact.at < f.at /\ ~(y.fact.at <= x.fact.at)
      BY <1>4, <1>16, <2>1
    <3>2. x.until <= y.fact.at
      BY <1>5, <2>1, <3>1 DEF Chained, IsNext
    <3> QED
      BY <1>5, <1>7, <3>1, <3>2
  <2>2. ASSUME ~x.disputed PROVE IsNext(M, x.fact.at, x.until)
    <3>1. IsNext(L, x.fact.at, x.until)
      BY <2>2 DEF Chained
    <3>2. x.until = Open \/ \E y \in M : y.fact.at = x.until
      BY <1>9, <3>1 DEF IsNext
    <3>3. \A y \in M : x.fact.at < y.fact.at => x.until <= y.fact.at
      BY <1>3, <1>10, <2>1, <2>2, <3>1 DEF IsNext
    <3> QED
      BY <3>1, <3>2, <3>3 DEF IsNext
  <2> QED
    BY <1>14, <2>2 DEF Chained
<1>17. \A z \in M : Good(z)
  BY <1>8, <1>13, <1>15, <1>16 DEF M
<1>18. ASSUME NEW z \in M, NEW y \in M, z.fact = y.fact PROVE z = y
  <2>1. CASE z.fact.at = f.at
    BY <1>12, <1>18, <2>1
  <2>2. CASE z.fact.at # f.at
    BY <1>2, <1>3, <1>4, <1>8, <1>18, <2>2 DEF Chained, M
  <2> QED
    BY <2>1, <2>2
<1> QED
  BY <1>17, <1>18 DEF Chained, M
(* Rows that are as they were read are replaced by what is flushed.        *)
LEMMA FreshFlush ==
  ASSUME NEW S \in SUBSET Row, Keyed(S), NEW L \in SUBSET S,
         NEW P \in SUBSET Row, Keyed(P)
  PROVE  Over(S, Flush(S, L, P)) = Over(S, P)
<1> DEFINE F == Flush(S, L, P)
<1>1. \A x, y, z : SameRow(x, y) /\ SameRow(y, z) => SameRow(x, z)
  BY DEF SameRow
<1>2. \A x, y : SameRow(x, y) => SameRow(y, x)
  BY DEF SameRow
<1>3. L \in SUBSET Row /\ Keyed(L)
  BY DEF Keyed
<1>4. /\ \A z \in F :
            \/ z \in P /\ \A x \in L : ~SameRow(x, z)
            \/ \E c \in S, x \in L, y \in P :
                  /\ SameRow(c, x) /\ SameRow(x, y) /\ x # y
                  /\ z = Saved(c, x, y) /\ SameRow(z, c)
      /\ \A c \in S, x \in L, y \in P :
            SameRow(c, x) /\ SameRow(x, y) /\ x # y => Saved(c, x, y) \in F
      /\ \A y \in P : (\A x \in L : ~SameRow(x, y)) => y \in F
  BY <1>3, FlushedRows
<1> HIDE DEF F
<1>5. ASSUME NEW x \in L, NEW y \in P, SameRow(x, y) PROVE Saved(x, x, y) = y
  BY <1>3, <1>5, SavedAsLoaded
<1>6. F \subseteq P
  <2> SUFFICES ASSUME NEW z \in F, NEW c \in S, NEW x \in L, NEW y \in P,
                      SameRow(c, x), SameRow(x, y), z = Saved(c, x, y)
               PROVE  z \in P
    BY <1>4
  <2>1. c = x
    BY DEF Keyed
  <2> QED
    BY <1>5, <2>1
<1>7. ASSUME NEW y \in P, y \notin F PROVE y \in S
  <2>1. PICK x \in L : SameRow(x, y)
    BY <1>4, <1>7
  <2>2. SameRow(x, x) /\ x \in S
    BY DEF SameRow
  <2>3. x = y
    BY <1>4, <1>5, <1>7, <2>1, <2>2
  <2> QED
    BY <2>2, <2>3
<1>8. \A V, z : z \in Over(S, V) <=> z \in V \/ (z \in S /\ \A y \in V : ~SameRow(z, y))
  BY DEF Over
<1>9. ASSUME NEW z \in Over(S, F) PROVE z \in Over(S, P)
  <2>1. CASE z \in F
    BY <1>6, <1>8, <2>1
  <2>2. CASE z \in S /\ \A y \in F : ~SameRow(z, y)
    <3>1. ASSUME NEW y \in P, SameRow(z, y) PROVE z \in P
      BY <1>7, <2>2, <3>1 DEF Keyed
    <3> QED
      BY <1>8, <2>2, <3>1
  <2> QED
    BY <1>8, <2>1, <2>2
<1>10. ASSUME NEW z \in Over(S, P) PROVE z \in Over(S, F)
  <2>1. CASE z \in P
    <3>1. ASSUME NEW y \in F, SameRow(z, y) PROVE z \in F
      BY <1>6, <2>1, <3>1 DEF Keyed
    <3> QED
      BY <1>7, <1>8, <2>1, <3>1
  <2>2. CASE z \in S /\ \A y \in P : ~SameRow(z, y)
    BY <1>6, <1>8, <2>2
  <2> QED
    BY <1>8, <2>1, <2>2
<1> QED
  BY <1>9, <1>10 DEF F

(* Recording a fact keeps the chains of the transaction's view.            *)
LEMMA InsertChained ==
  ASSUME Sound, NEW r \in Run, Insert(r), NEW l \in Lane,
         read[r].rows = LaneRows(View(r), tx[r].next.lane),
         Chained(LaneRows(View(r), l)), Chained(LaneRows(View(r), tx[r].next.lane))
  PROVE  Chained(LaneRows(View(r)', l))
<1> DEFINE f == tx[r].next
           L == read[r].rows
           P == Placed(r, f, L)
<1>1. /\ f \in Fact /\ L \in SUBSET Row /\ Keyed(L)
      /\ \A x \in L : x.fact.lane = f.lane /\ x.fact # f
      /\ P \in SUBSET Row /\ Keyed(P)
      /\ View(r)' = Over(View(r), Flush(View(r), L, P))
  BY InsertStep, Zenon
<1>2. L \subseteq View(r) /\ \A x \in L : ~x.rolled
  BY DEF LaneRows
<1>3. View(r)' = Over(View(r), P)
  BY <1>1, <1>2, ViewRows, FreshFlush
<1>4. \A z \in P : \/ z.fact = f /\ z.by = r /\ ~z.rolled
                   \/ \E x \in L : SameRow(z, x) /\ z.rolled = x.rolled
  BY <1>1, PlacedRows
<1>5. \A z \in P : z.fact.lane = f.lane /\ ~z.rolled
  BY <1>1, <1>2, <1>4 DEF SameRow
<1>6. Chained(Over(L, P))
  <2>1. CASE \E x \in L : x.fact.at = f.at
    <3>1. P = Conflict(r, f, L)
      BY <2>1, Zenon DEF Placed
    <3> QED
      BY <1>1, <2>1, <3>1, ConflictChained
  <2>2. CASE ~\E x \in L : x.fact.at = f.at
    <3>1. P = Insertion(r, f, L)
      BY <2>2, Zenon DEF Placed
    <3> QED
      BY <1>1, <2>2, <3>1, InsertionChained
  <2> QED
    BY <2>1, <2>2
<1> HIDE DEF P
<1>7. CASE l = f.lane
  <2>1. LaneRows(View(r)', l) = Over(L, P)
    BY <1>3, <1>5, <1>7 DEF LaneRows, Over
  <2> QED
    BY <1>6, <2>1
<1>8. CASE l # f.lane
  <2>1. LaneRows(View(r)', l) = LaneRows(View(r), l)
    BY <1>3, <1>5, <1>8 DEF LaneRows, Over, SameRow
  <2> QED
    BY <2>1
<1> QED
  BY <1>7, <1>8

(* What was read of a lane is what there is as long as the lane is held.   *)
LEMMA StillFresh ==
  ASSUME Sound, Chains, NEW s \in Run, tx'[s] = tx[s], read'[s] = read[s],
         \A z : z.fact.lane = tx[s].next.lane /\ z.fact.lane \in tx[s].held =>
            (z \in View(s)' <=> z \in View(s))
  PROVE  read'[s].step = "placing" =>
            read'[s].rows = LaneRows(View(s)', tx'[s].next.lane)
<1> SUFFICES ASSUME read[s].step = "placing"
             PROVE  LaneRows(View(s)', tx[s].next.lane) = LaneRows(View(s), tx[s].next.lane)
  BY DEF Chains
<1>1. tx[s].next.lane \in tx[s].held
  BY DEF Sound, Knows
<1> QED
  BY <1>1 DEF LaneRows

(* A commit publishes the chains of one view, lane by lane.                *)
LEMMA CommitChained ==
  ASSUME Sound, Chains, NEW r \in Run, Commit(r)
  PROVE  Chains'
<1>1. rows' = View(r) /\ View(r)' = View(r) /\ undo' = undo
  BY DEF Commit, View, Over, Sound, TypeOK
<1>2. ASSUME NEW l \in Lane, NEW s \in Run, s # r PROVE Chained(LaneRows(View(s)', l))
  <2>1. \A z : z.fact.lane = l =>
          (z \in View(s)' <=> IF l \in tx[s].held THEN z \in View(s) ELSE z \in View(r))
    BY <1>2, CommitViews
  <2>2. CASE l \in tx[s].held
    <3>1. LaneRows(View(s)', l) = LaneRows(View(s), l)
      BY <2>1, <2>2 DEF LaneRows
    <3> QED
      BY <3>1 DEF Chains
  <2>3. CASE l \notin tx[s].held
    <3>1. LaneRows(View(s)', l) = LaneRows(View(r), l)
      BY <2>1, <2>3 DEF LaneRows
    <3> QED
      BY <3>1 DEF Chains
  <2> QED
    BY <2>2, <2>3
<1>3. \A l \in Lane : /\ Chained(LaneRows(rows', l))
                      /\ \A s \in Run : Chained(LaneRows(View(s)', l))
  BY <1>1, <1>2 DEF Chains
<1>4. /\ tx[r].pc = "open" /\ tx[r].next = NoFact /\ read' = read
      /\ \A s \in Run : s # r => tx'[s] = tx[s]
  BY DEF Commit, Sound, TypeOK
<1>5. ASSUME NEW s \in Run
      PROVE  read'[s].step = "placing" =>
                read'[s].rows = LaneRows(View(s)', tx'[s].next.lane)
  <2>1. CASE s = r
    BY <1>4, <2>1 DEF Sound, Knows
  <2>2. CASE s # r
    <3>1. \A l \in tx[s].held : l \in Lane
      BY DEF Sound, TypeOK, Transaction
    <3>2. \A z : z.fact.lane \in tx[s].held => (z \in View(s)' <=> z \in View(s))
      BY <2>2, <3>1, CommitViews
    <3> QED
      BY <1>4, <2>2, <3>2, StillFresh
  <2> QED
    BY <2>1, <2>2
<1> QED
  BY <1>1, <1>3, <1>5 DEF Chains, LaneRows

LEMMA NoRollbacks ==
  ASSUME MaxRollbacks = 0, Sound, Chains, NEW o \in Operator
  PROVE  ~RollBack(o)
<1>1. ~(rollbacks < MaxRollbacks)
  BY DEF Sound, TypeOK
<1>2. undo[o].pc = "idle"
  BY DEF Chains, NoUndo
<1>3. \A r \in Run, force \in BOOLEAN : ~ReadCreated(o, r, force)
  BY <1>1, Zenon DEF ReadCreated
<1>4. \A orphans \in BOOLEAN : ~ReadStaging(o, orphans)
  BY <1>1, Zenon DEF ReadStaging
<1>5. ~ReadClosed(o) /\ ~FinishRollback(o)
  BY <1>2 DEF ReadClosed, FinishRollback
<1> QED
  BY <1>3, <1>4, <1>5 DEF RollBack

(* Without rollbacks every step keeps the chains.                          *)
LEMMA ChainsStep ==
  ASSUME MaxRollbacks = 0, Sound, Chains, [Next]_vars
  PROVE  Chains'
<1>1. ASSUME NEW r \in Run, UNCHANGED <<rows, undo>>,
             \A s \in Run : /\ s # r => tx'[s] = tx[s] /\ read'[s] = read[s]
                            /\ View(s)' = rows \/ View(s)' = View(s)
                            /\ s # r => View(s)' = View(s),
             read'[r].step = "placing" =>
                read'[r].rows = LaneRows(View(r)', tx'[r].next.lane)
      PROVE  Chains'
  <2>1. \A l \in Lane : /\ Chained(LaneRows(rows', l))
                        /\ \A s \in Run : Chained(LaneRows(View(s)', l))
    BY <1>1 DEF Chains
  <2>2. \A s \in Run : read'[s].step = "placing" =>
            read'[s].rows = LaneRows(View(s)', tx'[s].next.lane)
    BY <1>1 DEF Chains
  <2> QED
    BY <1>1, <2>1, <2>2 DEF Chains, LaneRows
<1>2. ASSUME NEW r \in Run, Abort(r), UNCHANGED <<rows, undo>> PROVE Chains'
  <2>1. \A s \in Run : /\ s # r => tx'[s] = tx[s] /\ read'[s] = read[s]
                       /\ View(s)' = rows \/ View(s)' = View(s)
                       /\ s # r => View(s)' = View(s)
    BY <1>2 DEF Abort, View, Over, Sound, TypeOK
  <2>2. read'[r].step = "nothing"
    BY <1>2 DEF Abort, Unread, Sound, TypeOK
  <2> QED
    BY <1>1, <1>2, <2>1, <2>2
<1>3. ASSUME NEW r \in Run, UNCHANGED <<rows, draft, undo>>,
             \A s \in Run : s # r => tx'[s] = tx[s] /\ read'[s] = read[s],
             read'[r].step = "placing" =>
                read'[r].rows = LaneRows(View(r), tx'[r].next.lane)
      PROVE  Chains'
  <2>1. \A s \in Run : View(s)' = View(s)
    BY <1>3 DEF View
  <2> QED
    BY <1>1, <1>3, <2>1
<1>4. ASSUME NEW r \in Run, Fetch(r) PROVE Chains'
  <2>1. UNCHANGED <<rows, draft, read, undo>> /\ tx[r].next = NoFact
    BY <1>4 DEF Fetch
  <2>2. \A s \in Run : s # r => tx'[s] = tx[s]
    BY <1>4 DEF Fetch, Sound, TypeOK
  <2>3. read'[r].step = "nothing"
    BY <2>1 DEF Sound, Knows
  <2> QED
    BY <1>3, <2>1, <2>2, <2>3
<1>5. ASSUME NEW r \in Run, tx[r].pc = "open", tx[r].next # NoFact,
             Recorded(r), UNCHANGED <<rows, draft, undo>>
      PROVE  Chains'
  BY <1>3, <1>5, RecordedStep
<1>6. ASSUME NEW r \in Run, Reject(r) PROVE Chains'
  <2>1. tx[r].pc = "open" /\ tx[r].next # NoFact /\ UNCHANGED <<rows, undo>>
    BY <1>6 DEF Reject, At
  <2>2. Abort(r) \/ (Recorded(r) /\ UNCHANGED draft)
    BY <1>6, Zenon DEF Reject
  <2> QED
    BY <1>2, <1>5, <2>1, <2>2
<1>7. ASSUME NEW r \in Run, Preflight(r) PROVE Chains'
  <2>1. /\ UNCHANGED <<rows, draft, undo>>
        /\ tx' = [tx EXCEPT ![r] = Lock(r)]
        /\ read' = [read EXCEPT ![r].step = "checked"]
    BY <1>7 DEF Preflight
  <2>2. \A s \in Run : s # r => tx'[s] = tx[s] /\ read'[s] = read[s]
    BY <2>1 DEF Sound, TypeOK
  <2>3. read'[r].step = "checked"
    BY <2>1 DEF Sound, TypeOK, Reading
  <2> QED
    BY <1>3, <2>1, <2>2, <2>3
<1>8. ASSUME NEW r \in Run, Search(r) PROVE Chains'
  <2>1. UNCHANGED <<rows, tx, draft, undo>>
    BY <1>8 DEF Search
  <2>2. \A s \in Run : s # r => read'[s] = read[s]
    BY <1>8 DEF Search, Sound, TypeOK
  <2>3. read'[r].step = "placing" => read'[r].rows = LaneRows(View(r), tx[r].next.lane)
    BY <1>8 DEF Search, Sound, TypeOK
  <2> QED
    BY <1>3, <2>1, <2>2, <2>3
<1>9. ASSUME NEW r \in Run, Reuse(r) PROVE Chains'
  BY <1>5, <1>9, ReuseStep
<1>10. ASSUME NEW r \in Run, Insert(r) PROVE Chains'
  <2>1. /\ rows' = rows /\ undo' = undo /\ Recorded(r)
        /\ tx[r].pc = "open" /\ tx[r].next # NoFact /\ tx[r].next \in Fact
    BY <1>10, InsertStep, Zenon
  <2>2. /\ read'[r].step = "nothing"
        /\ \A s \in Run : s # r => tx'[s] = tx[s] /\ read'[s] = read[s]
    BY <2>1, RecordedStep
  <2>3. \A s \in Run : s # r => View(s)' = View(s)
    BY <1>10 DEF Insert, View, Sound, TypeOK
  <2>4. read[r].step = "placing"
    BY <1>10 DEF Insert, At
  <2>5. \A l \in Lane : Chained(LaneRows(View(r)', l))
    <3>1. tx[r].next.lane \in Lane
      BY <2>1 DEF Fact
    <3>2. read[r].rows = LaneRows(View(r), tx[r].next.lane)
      BY <2>4 DEF Chains
    <3>3. \A l \in Lane : Chained(LaneRows(View(r), l))
      BY DEF Chains
    <3> QED
      BY <1>10, <3>1, <3>2, <3>3, InsertChained
  <2>6. \A l \in Lane : /\ Chained(LaneRows(rows', l))
                        /\ \A s \in Run : Chained(LaneRows(View(s)', l))
    BY <2>1, <2>3, <2>5 DEF Chains
  <2>7. \A s \in Run : read'[s].step = "placing" =>
            read'[s].rows = LaneRows(View(s)', tx'[s].next.lane)
    BY <2>2, <2>3 DEF Chains
  <2> QED
    BY <2>1, <2>6, <2>7 DEF Chains, LaneRows
<1>11. ASSUME NEW r \in Run, WaitFails(r) \/ Crash(r) PROVE Chains'
  BY <1>2, <1>11 DEF WaitFails, Crash
<1>12. ASSUME NEW r \in Run, Commit(r) PROVE Chains'
  BY <1>12, CommitChained
<1>13. \A o \in Operator : ~RollBack(o)
  BY NoRollbacks
<1>14. CASE UNCHANGED vars
  <2>1. \A s \in Run : View(s)' = View(s)
    BY <1>14 DEF vars, View
  <2> QED
    BY <1>14, <2>1 DEF vars, Chains, LaneRows
<1> QED
  BY <1>4, <1>6, <1>7, <1>8, <1>9, <1>10, <1>11, <1>12, <1>13, <1>14 DEF Next, Work

(* A chain satisfies what lane_invariants_hold asks for.                   *)
LEMMA ChainSound ==
  ASSUME NEW L \in SUBSET Row, Chained(L)
  PROVE  LaneSound(L)
<1>1. \A x \in L : x.fact.at \in 1 .. NInstants /\ x.until \in 1 .. Open
  BY DEF Row, Fact, Instant
<1>2. Open \in Nat /\ \A t \in 1 .. NInstants : t < Open
  BY LaneAssumption DEF Open
<1>3. \A x, y \in L : ~x.disputed /\ x.fact.at < y.fact.at => x.until <= y.fact.at
  BY DEF Chained, IsNext
<1>4. \A x, y \in L : ~x.disputed /\ x.fact.at = y.fact.at => x = y
  BY DEF Chained
<1>5. \A x \in L : ~x.disputed => x.fact.at < x.until
  BY DEF Chained, IsNext
<1>6. \A x \in L : x.disputed => x.until = x.fact.at
  BY DEF Chained
<1>7. ASSUME NEW x \in L, NEW y \in L, ~x.disputed, ~y.disputed,
             x.until = Open, y.until = Open
      PROVE  x = y
  BY <1>1, <1>2, <1>3, <1>4, <1>7
<1>8. \A x, y \in L : ~x.disputed /\ x.fact.at < y.fact.at => ~(y.fact.at < x.until)
  BY <1>1, <1>2, <1>3
<1> QED
  BY <1>3, <1>4, <1>5, <1>6, <1>7, <1>8 DEF LaneSound

(* The chains are an invariant of a history that nobody rolls back.        *)
LEMMA ChainsInvariant == ASSUME MaxRollbacks = 0 PROVE Spec => []Chains
<1>1. Init => Chains
  BY DEF Init, Chains, Chained, LaneRows, View, Over, Unread
<1>2. Sound /\ Chains /\ [Next]_vars => Chains'
  BY ChainsStep
<1> QED
  BY <1>1, <1>2, SoundInvariant, PTL DEF Spec

(* Whatever the order of arrival and the interleaving of the syncs, every  *)
(* lane keeps the invariants of price_history_lane.py, if there is no      *)
(* rollback.                                                               *)
THEOREM LanesAlwaysSound == ASSUME MaxRollbacks = 0 PROVE Spec => []LaneInvariants
<1>1. Sound /\ Chains => LaneInvariants
  <2> SUFFICES ASSUME Sound, Chains, NEW l \in Lane PROVE LaneSound(LaneRows(rows, l))
    BY DEF LaneInvariants
  <2>1. LaneRows(rows, l) \in SUBSET Row
    BY DEF LaneRows, Sound, TypeOK
  <2> QED
    BY <2>1, ChainSound DEF Chains
<1> QED
  BY <1>1, SoundInvariant, ChainsInvariant, PTL

-----------------------------------------------------------------------------
(* The chains tell what the facts tell.                                    *)

(* In a chain, the row whose interval contains an instant is the row of    *)
(* the only fact that PriceTimeline calls the latest.                      *)
LEMMA ChainTells ==
  ASSUME NEW S \in SUBSET Row, NEW l \in Lane, NEW s \in Instant,
         Chained(LaneRows(S, l))
  PROVE  Current(S, l, s) =
            History!PriceAt({x.fact : x \in {x \in S : ~x.rolled}}, l, s)
<1> DEFINE L == LaneRows(S, l)
           F == {x.fact : x \in {x \in S : ~x.rolled}}
           V == {x \in L : ~x.disputed /\ x.fact.at <= s /\ s < x.until}
           T == History!Latest(F, l, s)
<1>1. L \in SUBSET Row /\ Chained(L)
  BY DEF LaneRows
<1>2. \A x \in L : x.fact.at \in 1 .. NInstants /\ x.until \in 1 .. Open
  BY <1>1 DEF Row, Fact, Instant
<1>3. Open \in Nat /\ s \in Nat /\ s < Open
  BY LaneAssumption DEF Open, Instant
<1>4. /\ \A x \in L : x.fact \in F /\ x.fact.lane = l
      /\ \A g \in F : g.lane = l => \E x \in L : x.fact = g
  BY DEF LaneRows
<1>5. \A f : f \in T <=>
        /\ f \in F /\ f.lane = l /\ f.at <= s
        /\ \A g \in F : g.lane = l /\ g.at <= s => g.at <= f.at
  BY DEF History!Latest
<1> HIDE DEF L, F, T
<1>6. ASSUME NEW x \in L, NEW y \in V PROVE ~(y.fact.at < x.fact.at /\ x.fact.at <= s)
  BY <1>1, <1>2, <1>3, <1>6 DEF Chained, IsNext
<1>7. \A x, y \in V : x = y
  <2> SUFFICES ASSUME NEW x \in V, NEW y \in V PROVE x = y
    OBVIOUS
  <2>1. x.fact.at = y.fact.at
    BY <1>2, <1>6
  <2> QED
    BY <1>1, <2>1 DEF Chained
<1>8. ASSUME NEW x \in V PROVE T = {x.fact}
  <2>1. x.fact \in T
    BY <1>2, <1>3, <1>4, <1>5, <1>6
  <2>2. ASSUME NEW g \in T PROVE g = x.fact
    <3>1. PICK y \in L : y.fact = g
      BY <1>4, <1>5
    <3>2. y.fact.at = x.fact.at
      BY <1>2, <1>5, <2>1, <2>2, <3>1
    <3> QED
      BY <1>1, <3>1, <3>2 DEF Chained
  <2> QED
    BY <2>1, <2>2
<1>9. ASSUME NEW f \in F, T = {f} PROVE \E x \in V : x.fact = f
  <2>1. f \in T
    BY <1>9
  <2>2. PICK x \in L : x.fact = f
    BY <1>4, <1>5, <2>1
  <2>3. ~x.disputed
    <3> SUFFICES ASSUME NEW y \in L, y.fact.at = x.fact.at, y.fact # x.fact PROVE FALSE
      BY <1>1 DEF Chained
    <3>1. y.fact \in T
      BY <1>4, <1>5, <2>1, <2>2
    <3> QED
      BY <1>9, <2>2, <3>1
  <2>4. s < x.until
    <3>1. SUFFICES ASSUME x.until <= s PROVE FALSE
      BY <1>2, <1>3
    <3>2. x.fact.at < x.until /\ x.until # Open
      BY <1>1, <1>3, <2>3, <3>1 DEF Chained, IsNext
    <3>3. PICK y \in L : y.fact.at = x.until
      BY <1>1, <2>3, <3>2 DEF Chained, IsNext
    <3>4. y.fact.at <= x.fact.at
      BY <1>4, <1>5, <2>1, <2>2, <3>1, <3>3
    <3> QED
      BY <1>2, <3>2, <3>3, <3>4
  <2>5. x \in V
    BY <1>5, <2>1, <2>2, <2>3, <2>4
  <2> QED
    BY <2>2, <2>5
<1>10. Current(S, l, s) = {x.fact.amount : x \in V}
  <2>1. Current(S, l, s) =
          {x.fact.amount : x \in {x \in V : \A y \in V :
              \/ x.until = Open /\ y.until # Open
              \/ /\ x.until = Open \/ y.until # Open
                 /\ y.fact.at <= x.fact.at}}
    BY DEF Current, L
  <2>2. \A x, y \in V : /\ x.until = Open \/ y.until # Open
                        /\ y.fact.at <= x.fact.at
    BY <1>2, <1>7
  <2> QED
    BY <2>1, <2>2
<1>11. History!PriceAt(F, l, s) = {f.amount : f \in {f \in T : T = {f}}}
  BY DEF History!PriceAt, T
<1>12. \A x \in V : x.fact \in T
  BY <1>8
<1>13. \A f \in T : f \in F
  BY <1>5
<1> HIDE DEF V
<1>14. {x.fact.amount : x \in V} = {f.amount : f \in {f \in T : T = {f}}}
  BY <1>8, <1>9, <1>12, <1>13
<1> QED
  BY <1>10, <1>11, <1>14 DEF F

(* Committing publishes facts and loses none.                              *)
LEMMA CommitPublishes ==
  ASSUME Sound, Sound', Chains', NEW r \in Run, Commit(r)
  PROVE  History!Publish
<1>1. rows' = View(r)
  BY DEF Commit
<1>2. \A x \in rows : x \in View(r) \/ \E y \in draft[r] : SameRow(x, y)
  BY DEF View, Over
<1>3. ASSUME NEW x \in rows, ~x.rolled, NEW y \in draft[r], SameRow(x, y)
      PROVE  y \in View(r) /\ ~y.rolled
  <2>1. y \in View(r)
    BY DEF View, Over
  <2>2. y.by # r
    BY <1>3, ViewRows DEF Commit, SameRow
  <2>3. PICK w \in rows : SameRow(w, y) /\ w.rolled = y.rolled
    BY <2>2 DEF Sound, Locks
  <2>4. w = x
    BY <1>3, <2>3 DEF Sound, Locks, Keyed, SameRow
  <2> QED
    BY <1>3, <2>1, <2>3, <2>4
<1>4. ActiveFacts \subseteq ActiveFacts'
  BY <1>1, <1>2, <1>3 DEF ActiveFacts, SameRow
<1>5. ActiveFacts' \in SUBSET History!Fact
  BY DEF ActiveFacts, Sound, TypeOK, Row, Fact, History!Fact
<1>6. ActiveFacts' = ActiveFacts \cup ActiveFacts'
  BY <1>4
<1>7. CurrentPrices' = History!Timeline(ActiveFacts')
  <2>1. rows' \in SUBSET Row
    BY DEF Sound, TypeOK
  <2>2. \A l \in Lane : \A s \in Instant :
          Current(rows', l, s) = History!PriceAt(ActiveFacts', l, s)
    BY <2>1, ChainTells DEF Chains, ActiveFacts
  <2> QED
    BY <2>2 DEF CurrentPrices, History!Timeline
<1> QED
  BY <1>5, <1>6, <1>7 DEF History!Publish

(* The chain of intervals answers as the recorded facts alone would, for   *)
(* any number of syncs, discoveries, lanes and instants, if there is no    *)
(* rollback: PriceLane implements PriceTimeline.                           *)
THEOREM TimelineImplemented == ASSUME MaxRollbacks = 0 PROVE Spec => ImplementsTimeline
<1>1. Init => History!Init
  <2> SUFFICES ASSUME Init PROVE History!Init
    OBVIOUS
  <2>1. rows = {} /\ ActiveFacts = {}
    BY DEF Init, ActiveFacts
  <2>2. \A l \in Lane : \A s \in Instant :
          Current(rows, l, s) = {} /\ History!PriceAt({}, l, s) = {}
    BY <2>1 DEF Current, LaneRows, History!PriceAt, History!Latest
  <2> QED
    BY <2>1, <2>2 DEF History!Init, CurrentPrices, History!Timeline
<1>2. Sound /\ Sound' /\ Chains /\ Chains' /\ [Next]_vars
        => [History!Publish]_<<ActiveFacts, CurrentPrices>>
  <2> SUFFICES ASSUME Sound, Sound', Chains, Chains', [Next]_vars
               PROVE  [History!Publish]_<<ActiveFacts, CurrentPrices>>
    OBVIOUS
  <2>1. CASE \E r \in Run : Commit(r)
    BY <2>1, CommitPublishes
  <2>2. CASE rows' = rows
    BY <2>2 DEF ActiveFacts, CurrentPrices
  <2>3. \A r \in Run : Work(r) => Commit(r) \/ rows' = rows
    BY DEF Work, Fetch, Reject, Preflight, Search, Reuse, Insert, WaitFails
  <2>4. \A r \in Run : Crash(r) => rows' = rows
    BY DEF Crash
  <2>5. \A o \in Operator : ~RollBack(o)
    BY NoRollbacks
  <2> QED
    BY <2>1, <2>2, <2>3, <2>4, <2>5 DEF Next, vars
<1> QED
  BY <1>1, <1>2, SoundInvariant, ChainsInvariant, PTL
  DEF Spec, ImplementsTimeline, History!Spec

-----------------------------------------------------------------------------
(* Lanes among rollbacks.  The chains do not survive a rollback.  What     *)
(* lane_invariants_hold asks of them does, as long as no row is opened     *)
(* that has a later one and no sync places its fact among rows that have   *)
(* changed since it read them: it is kept by everything else a sync does,  *)
(* by the rollback of the staging history, and by a rollback of the sync   *)
(* that recorded last.                                                     *)

(* What LaneSound says, of a row and each other one.                       *)
Orderly(L) ==
    \A x \in L :
        /\ x.disputed => x.until = x.fact.at
        /\ ~x.disputed => x.fact.at < x.until
        /\ \A y \in L : ~x.disputed /\ x.fact.at < y.fact.at => x.until <= y.fact.at
        /\ \A y \in L : ~x.disputed /\ ~y.disputed /\ x.fact.at = y.fact.at => x = y

OrderlyViews ==
    \A l \in Lane : /\ Orderly(LaneRows(rows, l))
                    /\ \A r \in Run : Orderly(LaneRows(View(r), l))

LEMMA OrderlyIsSound ==
  ASSUME NEW L \in SUBSET Row
  PROVE  LaneSound(L) <=> Orderly(L)
<1>1. \A x \in L : x.fact.at \in 1 .. NInstants /\ x.until \in 1 .. Open
  BY DEF Row, Fact, Instant
<1>2. NInstants \in Nat /\ Open = NInstants + 1
  BY LaneAssumption DEF Open
<1>3. ASSUME LaneSound(L) PROVE Orderly(L)
  <2>1. \A x \in L : x.disputed => x.until = x.fact.at
    BY <1>3 DEF LaneSound
  <2>2. \A x \in L : ~x.disputed => x.fact.at < x.until
    BY <1>3 DEF LaneSound
  <2>3. \A x, y \in L : ~x.disputed /\ ~y.disputed /\ x.fact.at = y.fact.at => x = y
    BY <1>3 DEF LaneSound
  <2>4. ASSUME NEW x \in L, NEW y \in L, ~x.disputed, x.fact.at < y.fact.at
        PROVE  x.until <= y.fact.at
    <3>1. CASE y.disputed
      <4>1. ~(y.fact.at < x.until)
        BY <1>3, <2>4, <3>1 DEF LaneSound
      <4> QED
        BY <1>1, <1>2, <4>1
    <3>2. CASE ~y.disputed
      BY <1>3, <2>4, <3>2 DEF LaneSound
    <3> QED
      BY <3>1, <3>2
  <2> QED
    BY <2>1, <2>2, <2>3, <2>4 DEF Orderly
<1>4. ASSUME Orderly(L) PROVE LaneSound(L)
  <2>1. ASSUME NEW x \in L, NEW y \in L, ~x.disputed, ~y.disputed
        PROVE  /\ x.until = Open /\ y.until = Open => x = y
               /\ x.fact.at = y.fact.at => x = y
               /\ x.fact.at < y.fact.at => x.until <= y.fact.at
    <3>1. /\ x.fact.at = y.fact.at => x = y
          /\ x.fact.at < y.fact.at => x.until <= y.fact.at
          /\ y.fact.at < x.fact.at => y.until <= x.fact.at
      BY <1>4, <2>1 DEF Orderly
    <3> QED
      BY <1>1, <1>2, <3>1
  <2>2. ASSUME NEW x \in L, NEW y \in L, ~x.disputed
        PROVE  ~(x.fact.at < y.fact.at /\ y.fact.at < x.until)
    <3>1. x.fact.at < y.fact.at => x.until <= y.fact.at
      BY <1>4, <2>2 DEF Orderly
    <3> QED
      BY <1>1, <1>2, <3>1
  <2>3. \A x \in L : /\ x.disputed => x.until = x.fact.at
                     /\ ~x.disputed => x.fact.at < x.until
    BY <1>4 DEF Orderly
  <2> QED
    BY <2>1, <2>2, <2>3 DEF LaneSound
<1> QED
  BY <1>3, <1>4

(* Everyone sees sound lanes exactly if every view is orderly.             *)
LEMMA ViewsAreOrderly == ASSUME Sound PROVE AllSeeSoundLanes <=> OrderlyViews
<1>1. \A l \in Lane : LaneRows(rows, l) \in SUBSET Row
  BY DEF LaneRows, Sound, TypeOK
<1>2. \A r \in Run, l \in Lane : LaneRows(View(r), l) \in SUBSET Row
  BY ViewRows DEF LaneRows
<1>3. \A l \in Lane : LaneSound(LaneRows(rows, l)) <=> Orderly(LaneRows(rows, l))
  BY <1>1, OrderlyIsSound
<1>4. \A l \in Lane, r \in Run :
         LaneSound(LaneRows(View(r), l)) <=> Orderly(LaneRows(View(r), l))
  BY <1>2, OrderlyIsSound
<1> QED
  BY <1>3, <1>4 DEF AllSeeSoundLanes, OrderlyViews

(* A fact that contradicts recorded ones leaves the others as they are.    *)
LEMMA ConflictOrderly ==
  ASSUME NEW L \in SUBSET Row, Orderly(L),
         NEW f \in Fact, NEW r \in Run,
         \E x \in L : x.fact.at = f.at
  PROVE  Orderly(Over(L, Conflict(r, f, L)))
<1> DEFINE e(x) == [x EXCEPT !.disputed = TRUE, !.until = x.fact.at]
           n == NewRow(r, f, f.at, TRUE)
           C == {x \in L : x.fact.at = f.at /\ ~x.disputed}
           M == Over(L, Conflict(r, f, L))
<1>1. Conflict(r, f, L) = {e(x) : x \in C} \cup {n}
  BY Zenon DEF Conflict
<1>2. \A x \in L : /\ e(x).fact = x.fact /\ e(x).by = x.by
                   /\ e(x).disputed /\ e(x).until = x.fact.at
  BY DEF Row
<1>3. n.fact = f /\ n.disputed /\ n.until = f.at
  BY DEF NewRow
<1>4. C \subseteq L /\ \A x \in L : x \in C <=> x.fact.at = f.at /\ ~x.disputed
  OBVIOUS
<1> HIDE DEF e, n, C
<1>5. \A z \in M : \/ z = n
                   \/ \E x \in C : z = e(x)
                   \/ z \in L /\ z \notin C
  <2>1. \A z \in M : \/ z \in Conflict(r, f, L)
                     \/ z \in L /\ \A y \in Conflict(r, f, L) : ~SameRow(z, y)
    BY DEF Over
  <2>2. \A z \in C : e(z) \in Conflict(r, f, L) /\ SameRow(z, e(z))
    BY <1>1, <1>2, <1>4 DEF SameRow
  <2> QED
    BY <1>1, <2>1, <2>2
<1> HIDE DEF M
<1>6. \A z \in M : (z.disputed /\ z.until = z.fact.at) \/ z \in L
  BY <1>2, <1>3, <1>4, <1>5
<1>7. \A z \in M : \E x \in L : x.fact.at = z.fact.at
  BY <1>2, <1>3, <1>4, <1>5
<1>8. ASSUME NEW z \in M
      PROVE  /\ z.disputed => z.until = z.fact.at
             /\ ~z.disputed => z.fact.at < z.until
             /\ \A y \in M : ~z.disputed /\ z.fact.at < y.fact.at => z.until <= y.fact.at
             /\ \A y \in M : ~z.disputed /\ ~y.disputed /\ z.fact.at = y.fact.at => z = y
  <2>1. z \in L => /\ z.disputed => z.until = z.fact.at
                   /\ ~z.disputed => z.fact.at < z.until
    BY DEF Orderly
  <2>2. ASSUME NEW y \in M, ~z.disputed, z.fact.at < y.fact.at
        PROVE  z.until <= y.fact.at
    BY <1>6, <1>7, <2>2 DEF Orderly
  <2>3. ASSUME NEW y \in M, ~z.disputed, ~y.disputed, z.fact.at = y.fact.at
        PROVE  z = y
    BY <1>6, <2>3 DEF Orderly
  <2> QED
    BY <1>6, <2>1, <2>2, <2>3
<1> QED
  BY <1>8 DEF Orderly, M

(* A fact at a new instant ends the row before it, and ends at the next.   *)
LEMMA InsertionOrderly ==
  ASSUME NEW L \in SUBSET Row, Orderly(L),
         NEW f \in Fact, NEW r \in Run,
         \A x \in L : x.fact.at # f.at
  PROVE  Orderly(Over(L, Insertion(r, f, L)))
<1> DEFINE e(x) == [x EXCEPT !.until = f.at, !.closedBy = CrawlRun(r)]
           next == NextAnchor(L, f.at)
           n == NewRow(r, f, next, FALSE)
           C == Predecessor(L, f.at)
           M == Over(L, Insertion(r, f, L))
<1>1. Insertion(r, f, L) = {e(x) : x \in C} \cup {n}
  BY Zenon DEF Insertion
<1>2. \A x \in L : /\ e(x).fact = x.fact /\ e(x).by = x.by
                   /\ e(x).disputed = x.disputed /\ e(x).until = f.at
  BY DEF Row
<1>3. n.fact = f /\ ~n.disputed /\ n.until = next
  BY DEF NewRow
<1>4. C \subseteq L /\ \A x \in L : x \in C <=>
        /\ x.fact.at < f.at /\ ~x.disputed
        /\ \A y \in L : y.fact.at < f.at => y.fact.at <= x.fact.at
  BY DEF Predecessor
<1>5. f.at \in Instant /\ \A x \in L : x.fact.at \in Nat /\ x.until \in Nat
  BY LaneAssumption DEF Fact, Row, Instant, Open
<1>6. /\ f.at \in Nat /\ next \in Nat /\ f.at < next
      /\ \A x \in L : f.at < x.fact.at => next <= x.fact.at
  <2>1. /\ next \in 1 .. Open /\ f.at < next
        /\ \A x \in L : f.at < x.fact.at => next <= x.fact.at
    BY <1>5, NextAnchorLeast
  <2> HIDE DEF next
  <2> QED
    BY <1>5, <2>1, LaneAssumption DEF Instant, Open
<1> HIDE DEF e, n, C, next
<1>7. \A z \in M : \/ z = n
                   \/ \E x \in C : z = e(x)
                   \/ z \in L /\ z \notin C
  <2>1. \A z \in M : \/ z \in Insertion(r, f, L)
                     \/ z \in L /\ \A y \in Insertion(r, f, L) : ~SameRow(z, y)
    BY DEF Over
  <2>2. \A z \in C : e(z) \in Insertion(r, f, L) /\ SameRow(z, e(z))
    BY <1>1, <1>2, <1>4 DEF SameRow
  <2> QED
    BY <1>1, <2>1, <2>2
<1> HIDE DEF M
<1>8. \A z \in M : z = n \/ \E x \in L : x.fact.at = z.fact.at
  BY <1>2, <1>4, <1>7
<1> DEFINE Fits(z) ==
        /\ z.disputed => z.until = z.fact.at
        /\ ~z.disputed => z.fact.at < z.until
        /\ \A y \in M : ~z.disputed /\ z.fact.at < y.fact.at => z.until <= y.fact.at
        /\ \A y \in M : ~z.disputed /\ ~y.disputed /\ z.fact.at = y.fact.at => z = y
<1>9. Fits(n)
  <2>1. \A y \in M : f.at < y.fact.at => next <= y.fact.at
    BY <1>3, <1>6, <1>8
  <2>2. \A y \in M : f.at = y.fact.at => n = y
    BY <1>8
  <2> QED
    BY <1>3, <1>6, <2>1, <2>2
<1>10. ASSUME NEW x \in C PROVE Fits(e(x))
  <2>1. /\ x \in L /\ x.fact.at < f.at /\ ~x.disputed
        /\ \A y \in L : y.fact.at < f.at => y.fact.at <= x.fact.at
    BY <1>4
  <2>2. \A w \in L : x.fact.at < w.fact.at => f.at <= w.fact.at
    BY <1>5, <1>6, <2>1
  <2>3. ASSUME NEW y \in M, x.fact.at < y.fact.at PROVE f.at <= y.fact.at
    BY <1>3, <1>6, <1>8, <2>2, <2>3
  <2>4. ASSUME NEW y \in M, ~y.disputed, x.fact.at = y.fact.at PROVE e(x) = y
    <3>1. y # n
      BY <1>3, <1>6, <2>1, <2>4
    <3>2. ASSUME NEW w \in L, ~w.disputed, w.fact.at = x.fact.at PROVE w = x
      BY <2>1, <3>2 DEF Orderly
    <3>3. ASSUME NEW w \in C, y = e(w) PROVE w = x
      <4>1. w \in L /\ ~w.disputed /\ w.fact.at = x.fact.at
        BY <1>2, <1>4, <2>4, <3>3
      <4> QED
        BY <3>2, <4>1
    <3>4. y \in L => y = x
      BY <2>4, <3>2
    <3> QED
      BY <1>7, <3>1, <3>3, <3>4
  <2> QED
    BY <1>2, <2>1, <2>3, <2>4
<1>11. ASSUME NEW x \in L, x \notin C PROVE Fits(x)
  <2>1. /\ x.disputed => x.until = x.fact.at
        /\ ~x.disputed => x.fact.at < x.until
        /\ \A y \in L : ~x.disputed /\ x.fact.at < y.fact.at => x.until <= y.fact.at
        /\ \A y \in L : ~x.disputed /\ ~y.disputed /\ x.fact.at = y.fact.at => x = y
    BY DEF Orderly
  <2>2. ASSUME ~x.disputed, x.fact.at < f.at PROVE x.until <= f.at
    <3>1. PICK y \in L : y.fact.at < f.at /\ ~(y.fact.at <= x.fact.at)
      BY <1>4, <1>11, <2>2
    <3>2. x.until <= y.fact.at
      BY <1>5, <2>1, <2>2, <3>1
    <3> QED
      BY <1>5, <1>6, <3>1, <3>2
  <2>3. ASSUME NEW y \in M, ~x.disputed, x.fact.at < y.fact.at
        PROVE  x.until <= y.fact.at
    BY <1>3, <1>8, <2>1, <2>2, <2>3
  <2>4. ASSUME NEW y \in M, ~x.disputed, ~y.disputed, x.fact.at = y.fact.at
        PROVE  x = y
    <3>1. y # n
      BY <1>3, <2>4
    <3>2. ASSUME NEW w \in C, y = e(w) PROVE FALSE
      <4>1. w \in L /\ ~w.disputed /\ w.fact.at = x.fact.at
        BY <1>2, <1>4, <2>4, <3>2
      <4>2. w = x
        BY <2>1, <2>4, <4>1
      <4> QED
        BY <1>11, <4>2
    <3>3. y \in L => x = y
      BY <2>1, <2>4
    <3> QED
      BY <1>7, <3>1, <3>2, <3>3
  <2> QED
    BY <2>1, <2>3, <2>4
<1>12. \A z \in M : Fits(z)
  BY <1>7, <1>9, <1>10, <1>11
<1> QED
  BY <1>12 DEF Orderly, M
(* A row of the transaction's view is, after an insertion, one that was    *)
(* read and stays, or one that was placed: if all the rows of the lane     *)
(* are among those that were read.                                         *)
LEMMA InsertPlaces ==
  ASSUME Sound, NEW r \in Run, Insert(r),
         LaneRows(View(r), tx[r].next.lane) \subseteq read[r].rows
  PROVE  LaneRows(View(r)', tx[r].next.lane) \subseteq
            Over(read[r].rows, Placed(r, tx[r].next, read[r].rows))
<1> DEFINE f == tx[r].next
           L == read[r].rows
           P == Placed(r, f, L)
           F == Flush(View(r), L, P)
<1>1. /\ L \in SUBSET Row /\ Keyed(L) /\ P \in SUBSET Row /\ Keyed(P)
      /\ \A x \in L : x.fact.lane = f.lane
      /\ \A z \in F : \/ z.fact = f /\ z.by = r /\ ~z.rolled
                      \/ \E x \in View(r) : SameRow(z, x) /\ z.rolled = x.rolled
      /\ View(r)' = Over(View(r), F)
  BY InsertStep, Zenon
<1>2. View(r) \in SUBSET Row /\ Keyed(View(r))
  BY ViewRows
<1> HIDE DEF L, P
<1>3. /\ \A z \in F :
            \/ z \in P /\ \A x \in L : ~SameRow(x, z)
            \/ \E c \in View(r), x \in L, y \in P :
                  /\ SameRow(c, x) /\ SameRow(x, y) /\ x # y
                  /\ z = Saved(c, x, y) /\ SameRow(z, c)
      /\ \A c \in View(r), x \in L, y \in P :
            SameRow(c, x) /\ SameRow(x, y) /\ x # y => Saved(c, x, y) \in F
  BY <1>1, <1>2, FlushedRows
<1> HIDE DEF F
<1>4. \A x, y : SameRow(x, y) => SameRow(y, x)
  BY DEF SameRow
<1>5. \A S, D, z : z \in Over(S, D) <=> z \in D \/ (z \in S /\ \A y \in D : ~SameRow(z, y))
  BY DEF Over
<1> SUFFICES ASSUME NEW z \in View(r)', z.fact.lane = f.lane, ~z.rolled
             PROVE  z \in Over(L, P)
  BY DEF LaneRows, L, P
<1>6. \A x \in View(r) : x.fact.lane = f.lane /\ ~x.rolled => x \in L
  BY DEF LaneRows, L
<1>7. CASE z \in F
  <2>1. CASE z \in P
    BY <1>5, <2>1
  <2>2. ASSUME NEW c \in View(r), NEW x \in L, NEW y \in P,
               SameRow(c, x), SameRow(x, y), z = Saved(c, x, y), SameRow(z, c)
        PROVE  z \in P
    <3>1. ~c.rolled
      <4>1. CASE z.fact = f /\ z.by = r
        <5>1. tx[r].pc = "open"
          BY DEF Insert, At
        <5>2. c.by = r
          BY <2>2, <4>1 DEF SameRow
        <5> QED
          BY <5>1, <5>2, ViewRows
      <4>2. ASSUME NEW w \in View(r), SameRow(z, w), z.rolled = w.rolled
            PROVE  ~c.rolled
        <5>1. w = c
          BY <1>2, <2>2, <4>2 DEF Keyed, SameRow
        <5> QED
          BY <4>2, <5>1
      <4> QED
        BY <1>1, <1>7, <4>1, <4>2
    <3>2. c.fact.lane = f.lane
      BY <2>2 DEF SameRow
    <3>3. c = x
      BY <1>1, <1>6, <2>2, <3>1, <3>2 DEF Keyed
    <3> QED
      BY <1>1, <2>2, <3>3, SavedAsLoaded
  <2> QED
    BY <1>3, <1>5, <1>7, <2>1, <2>2
<1>8. CASE z \in View(r) /\ \A y \in F : ~SameRow(z, y)
  <2>1. z \in L
    BY <1>6, <1>8
  <2>2. ASSUME NEW y \in P, SameRow(z, y) PROVE z = y
    <3>1. SUFFICES ASSUME z # y PROVE FALSE
      OBVIOUS
    <3>2. SameRow(z, z)
      BY DEF SameRow
    <3>3. Saved(z, z, y) \in F
      BY <1>3, <1>8, <2>1, <2>2, <3>1, <3>2
    <3>4. Saved(z, z, y) = y
      BY <1>1, <2>1, <2>2, SavedAsLoaded
    <3> QED
      BY <1>8, <2>2, <3>3, <3>4
  <2> QED
    BY <1>5, <2>1, <2>2
<1> QED
  BY <1>1, <1>5, <1>7, <1>8

(* Recording a fact among the rows of a sound lane keeps the lanes of the  *)
(* transaction's view.                                                     *)
LEMMA InsertOrderly ==
  ASSUME Sound, NEW r \in Run, Insert(r), ~Overtaken(r), NEW l \in Lane,
         Orderly(LaneRows(View(r), l))
  PROVE  Orderly(LaneRows(View(r)', l))
<1> DEFINE f == tx[r].next
           L == read[r].rows
           P == Placed(r, f, L)
           F == Flush(View(r), L, P)
<1>1. /\ f \in Fact /\ L \in SUBSET Row
      /\ \A z \in F : z.fact.lane = f.lane
      /\ View(r)' = Over(View(r), F)
  BY InsertStep, Zenon
<1>2. LaneRows(View(r), f.lane) \subseteq L /\ Orderly(L)
  BY <1>1, OrderlyIsSound DEF Overtaken
<1>3. Orderly(Over(L, P))
  <2>1. CASE \E x \in L : x.fact.at = f.at
    <3>1. P = Conflict(r, f, L)
      BY <2>1, Zenon DEF Placed
    <3> QED
      BY <1>1, <1>2, <2>1, <3>1, ConflictOrderly
  <2>2. CASE ~\E x \in L : x.fact.at = f.at
    <3>1. P = Insertion(r, f, L)
      BY <2>2, Zenon DEF Placed
    <3> QED
      BY <1>1, <1>2, <2>2, <3>1, InsertionOrderly
  <2> QED
    BY <2>1, <2>2
<1>4. LaneRows(View(r)', f.lane) \subseteq Over(L, P)
  BY <1>2, InsertPlaces
<1> HIDE DEF F, P
<1>5. CASE l = f.lane
  <2>1. LaneRows(View(r)', l) \subseteq Over(L, P)
    BY <1>4, <1>5
  <2> QED
    BY <1>3, <2>1 DEF Orderly
<1>6. CASE l # f.lane
  <2>1. LaneRows(View(r)', l) = LaneRows(View(r), l)
    BY <1>1, <1>6 DEF LaneRows, Over, SameRow
  <2> QED
    BY <2>1
<1> QED
  BY <1>5, <1>6

(* A commit publishes the lanes of one view.                               *)
LEMMA CommitOrderly ==
  ASSUME Sound, OrderlyViews, NEW r \in Run, Commit(r)
  PROVE  OrderlyViews'
<1>1. rows' = View(r) /\ View(r)' = View(r)
  BY DEF Commit, View, Over, Sound, TypeOK
<1>2. ASSUME NEW l \in Lane, NEW s \in Run, s # r PROVE Orderly(LaneRows(View(s)', l))
  <2>1. \A z : z.fact.lane = l =>
          (z \in View(s)' <=> IF l \in tx[s].held THEN z \in View(s) ELSE z \in View(r))
    BY <1>2, CommitViews
  <2>2. CASE l \in tx[s].held
    <3>1. LaneRows(View(s)', l) = LaneRows(View(s), l)
      BY <2>1, <2>2 DEF LaneRows
    <3> QED
      BY <3>1 DEF OrderlyViews
  <2>3. CASE l \notin tx[s].held
    <3>1. LaneRows(View(s)', l) = LaneRows(View(r), l)
      BY <2>1, <2>3 DEF LaneRows
    <3> QED
      BY <3>1 DEF OrderlyViews
  <2> QED
    BY <2>2, <2>3
<1>3. \A l \in Lane : /\ Orderly(LaneRows(rows', l))
                      /\ \A s \in Run : Orderly(LaneRows(View(s)', l))
  BY <1>1, <1>2 DEF OrderlyViews
<1> QED
  BY <1>1, <1>3 DEF OrderlyViews, LaneRows

(* Rows that go leave the others orderly, and so does a row that is opened *)
(* if none that stays is later.                                            *)
LEMMA ReopenedOrderly ==
  ASSUME NEW L \in SUBSET Row, Orderly(L), NEW K \in SUBSET L,
         NEW M, Keyed(M),
         \A z \in M : \E x \in K :
            /\ SameRow(z, x) /\ z.disputed = x.disputed
            /\ \/ z.until = x.until
               \/ z.until = Open /\ ~x.disputed /\ \A y \in K : ~(y.fact.at > x.fact.at)
  PROVE  Orderly(M)
<1>1. \A x \in L : x.fact.at < Open
  BY LaneAssumption DEF Row, Fact, Instant, Open
<1>2. ASSUME NEW z \in M
      PROVE  /\ z.disputed => z.until = z.fact.at
             /\ ~z.disputed => z.fact.at < z.until
             /\ \A y \in M : ~z.disputed /\ z.fact.at < y.fact.at => z.until <= y.fact.at
             /\ \A y \in M : ~z.disputed /\ ~y.disputed /\ z.fact.at = y.fact.at => z = y
  <2>1. PICK x \in K :
            /\ SameRow(z, x) /\ z.disputed = x.disputed
            /\ \/ z.until = x.until
               \/ z.until = Open /\ ~x.disputed /\ \A y \in K : ~(y.fact.at > x.fact.at)
    OBVIOUS
  <2>2. z.fact = x.fact /\ x \in L
    BY <2>1 DEF SameRow
  <2>3. /\ x.disputed => x.until = x.fact.at
        /\ ~x.disputed => x.fact.at < x.until
        /\ \A y \in L : ~x.disputed /\ x.fact.at < y.fact.at => x.until <= y.fact.at
        /\ \A y \in L : ~x.disputed /\ ~y.disputed /\ x.fact.at = y.fact.at => x = y
    BY <2>2 DEF Orderly
  <2>4. ASSUME NEW y \in M, ~z.disputed, z.fact.at < y.fact.at
        PROVE  z.until <= y.fact.at
    <3>1. PICK w \in K : SameRow(y, w) /\ y.disputed = w.disputed
      OBVIOUS
    <3>2. w \in L /\ w.fact = y.fact
      BY <3>1 DEF SameRow
    <3>3. w.fact.at > x.fact.at
      BY <1>1, <2>2, <2>4, <3>2 DEF Row, Fact, Instant
    <3>4. z.until = x.until
      BY <2>1, <3>3
    <3> QED
      BY <2>1, <2>2, <2>3, <2>4, <3>2, <3>4
  <2>5. ASSUME NEW y \in M, ~z.disputed, ~y.disputed, z.fact.at = y.fact.at
        PROVE  z = y
    <3>1. PICK w \in K : SameRow(y, w) /\ y.disputed = w.disputed
      OBVIOUS
    <3>2. w \in L /\ w.fact = y.fact
      BY <3>1 DEF SameRow
    <3>3. x = w
      BY <2>1, <2>2, <2>3, <2>5, <3>1, <3>2
    <3>4. SameRow(z, y)
      BY <2>1, <3>1, <3>3 DEF SameRow
    <3> QED
      BY <3>4 DEF Keyed
  <2>6. z.disputed => z.until = z.fact.at
    BY <2>1, <2>2, <2>3
  <2>7. ~z.disputed => z.fact.at < z.until
    BY <1>1, <2>1, <2>2, <2>3
  <2> QED
    BY <2>4, <2>5, <2>6, <2>7
<1> QED
  BY <1>2 DEF Orderly

(* What a rollback leaves was there, and was not to be cancelled; it is    *)
(* valid as long as before, or open again.                                 *)
LEMMA FinishLeaves ==
  ASSUME Sound, NEW o \in Operator, FinishRollback(o), NEW z \in rows', ~z.rolled
  PROVE  \E x \in rows :
            /\ SameRow(z, x) /\ ~x.rolled /\ z.disputed = x.disputed /\ ~Cancels(o, x)
            /\ z.until = x.until \/ (z.until = Open /\ Reopens(o, x))
<1>1. rows \in SUBSET Row /\ Keyed(rows) /\ Loaded(o) \in SUBSET Row /\ Keyed(Loaded(o))
  BY DEF Sound, TypeOK, Locks, Loads, Loaded, Rollback
<1>2. \A x, y, w : SameRow(x, y) /\ SameRow(x, w) => SameRow(y, w)
  BY DEF SameRow
<1>3. ASSUME NEW c \in rows, NEW s \in Loaded(o), SameRow(c, s), s.rolled PROVE c.rolled
  <2>1. PICK x \in rows : SameRow(x, s) /\ x.rolled
    BY <1>3 DEF Sound, Loads
  <2>2. x = c
    BY <1>1, <1>3, <2>1 DEF Keyed, SameRow
  <2> QED
    BY <2>1, <2>2
<1>4. CASE z \in rows /\ \A s \in Loaded(o) : SameRow(z, s) => Undone(o, s) = s
  <2>1. ASSUME NEW s \in undo[o].created, SameRow(z, s) PROVE FALSE
    <3>1. s \in Loaded(o) /\ s \in Row
      BY <1>1 DEF Loaded
    <3>2. Undone(o, s).rolled
      BY <3>1, UndoneFields
    <3> QED
      BY <1>3, <1>4, <2>1, <3>1, <3>2
  <2> QED
    BY <1>4, <2>1 DEF SameRow, Cancels
<1>5. ASSUME NEW c \in rows, NEW s \in Loaded(o), SameRow(c, s),
             z = Saved(c, s, Undone(o, s)), SameRow(z, c), c.rolled => z.rolled
      PROVE  /\ SameRow(z, c) /\ ~c.rolled /\ z.disputed = c.disputed /\ ~Cancels(o, c)
             /\ z.until = c.until \/ (z.until = Open /\ Reopens(o, c))
  <2> DEFINE u == Undone(o, s)
  <2>1. c \in Row /\ s \in Row
    BY <1>1
  <2>2. /\ u \in Row /\ u.disputed = s.disputed
        /\ u.rolled = (s.rolled \/ s \in undo[o].created)
        /\ s \notin undo[o].created =>
              u.until = IF s \in undo[o].closed THEN Open ELSE s.until
    BY <2>1, UndoneFields
  <2>3. /\ z.until = IF u.until = s.until THEN c.until ELSE u.until
        /\ z.disputed = IF u.disputed = s.disputed THEN c.disputed ELSE u.disputed
        /\ z.rolled = IF u.rolled = s.rolled THEN c.rolled ELSE u.rolled
    BY <1>5, <2>1, <2>2, SavedFields
  <2>4. s.rolled \in BOOLEAN /\ u.rolled \in BOOLEAN
    BY <2>1, <2>2 DEF Row
  <2> HIDE DEF u
  <2>5. ~c.rolled /\ ~s.rolled
    BY <1>3, <1>5
  <2>6. s \notin undo[o].created
    BY <2>2, <2>3, <2>4, <2>5
  <2>7. s \in undo[o].closed
    BY <2>6 DEF Loaded
  <2>8. ~Cancels(o, c)
    <3>1. ASSUME NEW t \in undo[o].created, SameRow(c, t) PROVE t = s
      BY <1>1, <1>2, <1>5, <3>1 DEF Keyed, Loaded
    <3> QED
      BY <2>6, <3>1 DEF Cancels
  <2>9. Reopens(o, c)
    BY <1>5, <2>7, <2>8 DEF Reopens
  <2> QED
    BY <1>5, <2>2, <2>3, <2>5, <2>6, <2>7, <2>8, <2>9
<1> QED
  BY <1>4, <1>5, FinishStep

(* A rollback of a sync on which nothing was built keeps the lanes, in the *)
(* table and in the view of a sync at work: the row locks kept it away     *)
(* from the rows of the draft.                                             *)
LEMMA FinishOrderly ==
  ASSUME Sound, OrderlyViews, NEW o \in Operator, FinishRollback(o), NothingBuiltUpon(o)
  PROVE  OrderlyViews'
<1> DEFINE Keeps(S) == {x \in S : ~Cancels(o, x)}
<1>1. rows \in SUBSET Row /\ Keyed(rows') /\ draft' = draft
  BY FinishStep DEF Sound, TypeOK, FinishRollback
<1>2. \A x, y, z : SameRow(x, y) /\ SameRow(z, y) => SameRow(x, z)
  BY DEF SameRow
<1>3. \A x, y : SameRow(x, y) => SameRow(y, x) /\ x.fact = y.fact
  BY DEF SameRow
<1>4. ASSUME NEW l \in Lane PROVE Orderly(LaneRows(rows', l))
  <2> DEFINE L == LaneRows(rows, l)
             M == LaneRows(rows', l)
  <2>1. L \in SUBSET Row /\ Orderly(L) /\ Keeps(L) \in SUBSET L
    BY <1>1 DEF LaneRows, OrderlyViews
  <2>2. Keyed(M)
    BY <1>1 DEF Keyed, LaneRows
  <2>3. ASSUME NEW z \in M
        PROVE  \E x \in Keeps(L) :
                  /\ SameRow(z, x) /\ z.disputed = x.disputed
                  /\ \/ z.until = x.until
                     \/ /\ z.until = Open /\ ~x.disputed
                        /\ \A y \in Keeps(L) : ~(y.fact.at > x.fact.at)
    <3>1. PICK x \in rows :
            /\ SameRow(z, x) /\ ~x.rolled /\ z.disputed = x.disputed /\ ~Cancels(o, x)
            /\ z.until = x.until \/ (z.until = Open /\ Reopens(o, x))
      BY FinishLeaves DEF LaneRows
    <3>2. x \in Keeps(L)
      BY <3>1, <1>3 DEF LaneRows
    <3>3. ASSUME Reopens(o, x)
          PROVE  ~x.disputed /\ \A y \in Keeps(L) : ~(y.fact.at > x.fact.at)
      BY <3>1, <3>2, <3>3 DEF NothingBuiltUpon, LaneRows
    <3> QED
      BY <3>1, <3>2, <3>3
  <2> HIDE DEF L, M, Keeps
  <2>4. Orderly(M)
    BY <2>1, <2>2, <2>3, ReopenedOrderly
  <2> QED
    BY <2>4 DEF M
<1>5. ASSUME NEW l \in Lane, NEW r \in Run PROVE Orderly(LaneRows(View(r)', l))
  <2> DEFINE V == View(r)'
             L == LaneRows(View(r), l)
             M == LaneRows(V, l)
  <2>1. L \in SUBSET Row /\ Orderly(L) /\ Keeps(L) \in SUBSET L
    BY ViewRows DEF LaneRows, OrderlyViews
  <2>2. \A z : z \in V <=>
          z \in draft[r] \/ (z \in rows' /\ \A y \in draft[r] : ~SameRow(z, y))
    BY <1>1 DEF View, Over
  <2>3. \A z : z \in View(r) <=>
          z \in draft[r] \/ (z \in rows /\ \A y \in draft[r] : ~SameRow(z, y))
    BY DEF View, Over
  <2>4. \A y \in draft[r] : ~Cancels(o, y)
    BY DEF FinishRollback, RowsLocked, Cancels, Loaded
  <2> HIDE DEF V
  <2>5. Keyed(V)
    <3>1. Keyed(draft[r])
      BY DEF Sound, Locks
    <3> QED
      BY <1>1, <1>3, <2>2, <3>1 DEF Keyed
  <2>6. Keyed(M)
    BY <2>5 DEF Keyed, LaneRows
  <2>7. ASSUME NEW z \in M
        PROVE  \E x \in Keeps(L) :
                  /\ SameRow(z, x) /\ z.disputed = x.disputed
                  /\ \/ z.until = x.until
                     \/ /\ z.until = Open /\ ~x.disputed
                        /\ \A y \in Keeps(L) : ~(y.fact.at > x.fact.at)
    <3>1. z \in V /\ z.fact.lane = l /\ ~z.rolled
      BY DEF LaneRows
    <3>2. CASE z \in draft[r]
      <4>1. z \in Keeps(L)
        BY <2>3, <2>4, <3>1, <3>2 DEF LaneRows
      <4> QED
        BY <4>1 DEF SameRow
    <3>3. CASE z \in rows' /\ \A y \in draft[r] : ~SameRow(z, y)
      <4>1. PICK x \in rows :
              /\ SameRow(z, x) /\ ~x.rolled /\ z.disputed = x.disputed /\ ~Cancels(o, x)
              /\ z.until = x.until \/ (z.until = Open /\ Reopens(o, x))
        BY <3>1, <3>3, FinishLeaves
      <4>2. x \in View(r)
        BY <1>2, <1>3, <2>3, <3>3, <4>1
      <4>3. x \in Keeps(L)
        BY <1>3, <3>1, <4>1, <4>2 DEF LaneRows
      <4>4. ASSUME Reopens(o, x)
            PROVE  ~x.disputed /\ \A y \in Keeps(L) : ~(y.fact.at > x.fact.at)
        <5>1. \A y \in Keeps(L) : /\ y \in rows \cup UNION {draft[s] : s \in Run}
                                  /\ y.fact.lane = x.fact.lane
                                  /\ ~y.rolled /\ ~Cancels(o, y)
          BY <2>3, <4>3 DEF LaneRows
        <5> HIDE DEF Keeps, L
        <5> QED
          BY <4>1, <4>4, <5>1 DEF NothingBuiltUpon
      <4> QED
        BY <4>1, <4>3, <4>4
    <3> QED
      BY <2>2, <3>1, <3>2, <3>3
  <2> HIDE DEF L, M, Keeps
  <2>8. Orderly(M)
    BY <2>1, <2>6, <2>7, ReopenedOrderly
  <2> QED
    BY <2>8 DEF M, V
<1> QED
  BY <1>4, <1>5 DEF OrderlyViews, LaneRows

(* Two steps alone can make a lane unsound.                                *)
LEMMA OrderlyStep ==
  ASSUME Sound, OrderlyViews, [Next]_vars,
         \A o \in Operator : FinishRollback(o) => NothingBuiltUpon(o),
         \A r \in Run : Insert(r) => ~Overtaken(r)
  PROVE  OrderlyViews'
<1>1. ASSUME UNCHANGED <<rows, draft>> PROVE OrderlyViews'
  BY <1>1 DEF OrderlyViews, View, LaneRows
<1>2. ASSUME NEW r \in Run, Abort(r), UNCHANGED rows PROVE OrderlyViews'
  <2>1. \A s \in Run : View(s)' = rows \/ View(s)' = View(s)
    BY <1>2 DEF Abort, View, Over, Sound, TypeOK
  <2>2. \A l \in Lane : /\ Orderly(LaneRows(rows', l))
                        /\ \A s \in Run : Orderly(LaneRows(View(s)', l))
    BY <1>2, <2>1 DEF OrderlyViews
  <2> QED
    BY <2>2 DEF OrderlyViews, LaneRows
<1>3. ASSUME NEW r \in Run, Fetch(r) \/ Preflight(r) \/ Search(r) \/ Reuse(r)
      PROVE  OrderlyViews'
  BY <1>1, <1>3 DEF Fetch, Preflight, Search, Reuse
<1>4. ASSUME NEW r \in Run, Reject(r) \/ WaitFails(r) \/ Crash(r) PROVE OrderlyViews'
  BY <1>1, <1>2, <1>4 DEF Reject, WaitFails, Crash
<1>5. ASSUME NEW r \in Run, Insert(r) PROVE OrderlyViews'
  <2>1. rows' = rows
    BY <1>5 DEF Insert
  <2>2. \A s \in Run : s # r => View(s)' = View(s)
    BY <1>5 DEF Insert, View, Sound, TypeOK
  <2>3. \A l \in Lane : Orderly(LaneRows(View(r)', l))
    BY <1>5, InsertOrderly DEF OrderlyViews
  <2>4. \A l \in Lane : /\ Orderly(LaneRows(rows', l))
                        /\ \A s \in Run : Orderly(LaneRows(View(s)', l))
    BY <2>1, <2>2, <2>3 DEF OrderlyViews
  <2> QED
    BY <2>4 DEF OrderlyViews, LaneRows
<1>6. ASSUME NEW r \in Run, Commit(r) PROVE OrderlyViews'
  BY <1>6, CommitOrderly
<1>7. ASSUME NEW o \in Operator, RollBack(o) PROVE OrderlyViews'
  <2>1. CASE FinishRollback(o)
    BY <2>1, FinishOrderly
  <2>2. CASE ~FinishRollback(o)
    <3>1. UNCHANGED <<rows, draft>>
      BY <1>7, <2>2, Zenon DEF RollBack, ReadCreated, ReadClosed, ReadStaging
    <3> QED
      BY <1>1, <3>1
  <2> QED
    BY <2>1, <2>2
<1>8. CASE UNCHANGED vars
  BY <1>1, <1>8 DEF vars
<1> QED
  BY <1>3, <1>4, <1>5, <1>6, <1>7, <1>8 DEF Next, Work

(* No step of a sync, no abort and no rollback makes a lane unsound that   *)
(* was sound for everyone, unless it is a rollback_sync that reopens a row *)
(* after which another run has recorded, or a sync that flushes what it    *)
(* placed among rows which a rollback has changed since it read them.      *)
THEOREM OnlyRollbacksBreakLanes == Spec => OnlyRollbacksBreak
<1>1. Sound /\ Sound' /\ [Next]_vars
        => [~AllSeeSoundLanes' =>
               \/ ~AllSeeSoundLanes
               \/ \E o \in Operator : FinishRollback(o) /\ ~NothingBuiltUpon(o)
               \/ \E r \in Run : Insert(r) /\ Overtaken(r)]_vars
  <2> SUFFICES ASSUME Sound, Sound', [Next]_vars, AllSeeSoundLanes,
                      \A o \in Operator : FinishRollback(o) => NothingBuiltUpon(o),
                      \A r \in Run : Insert(r) => ~Overtaken(r)
               PROVE  AllSeeSoundLanes'
    OBVIOUS
  <2>1. OrderlyViews
    BY ViewsAreOrderly
  <2>2. OrderlyViews'
    BY <2>1, OrderlyStep
  <2>3. (Sound => (AllSeeSoundLanes <=> OrderlyViews))'
    BY ViewsAreOrderly, PTL
  <2> QED
    BY <2>2, <2>3
<1> QED
  BY <1>1, SoundInvariant, PTL DEF Spec, OnlyRollbacksBreak

(* A history whose rollbacks reopen no row that has a later one, and in    *)
(* which no rollback commits between what a sync reads and what it writes  *)
(* of the same lane, keeps the invariants of price_history_lane.py,        *)
(* whatever the interleaving of the syncs.                                 *)
THEOREM LanesSoundAmongRollbacks ==
  Spec /\ [][/\ \A o \in Operator : FinishRollback(o) => NothingBuiltUpon(o)
             /\ \A r \in Run : Insert(r) => ~Overtaken(r)]_vars
    => []LaneInvariants
<1>1. Init => OrderlyViews
  BY DEF Init, OrderlyViews, Orderly, LaneRows, View, Over
<1>2. Sound /\ OrderlyViews /\ [Next]_vars
        /\ [/\ \A o \in Operator : FinishRollback(o) => NothingBuiltUpon(o)
            /\ \A r \in Run : Insert(r) => ~Overtaken(r)]_vars
        => OrderlyViews'
  <2>1. CASE UNCHANGED vars
    BY <2>1 DEF vars, OrderlyViews, LaneRows, View
  <2>2. CASE ~UNCHANGED vars
    BY <2>2, OrderlyStep
  <2> QED
    BY <2>1, <2>2
<1>3. Sound /\ OrderlyViews => LaneInvariants
  BY ViewsAreOrderly DEF AllSeeSoundLanes, LaneInvariants
<1> QED
  BY <1>1, <1>2, <1>3, SoundInvariant, PTL DEF Spec

=============================================================================
