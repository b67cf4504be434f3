---------------------- MODULE HistoryRemediationProofs ----------------------
(***************************************************************************)
(* What HistoryRemediation promises for any lane, any number of operators, *)
(* plans and attempts, and anything the rest of the system does: the types *)
(* are right, a plan that was applied is never sealed again, a failed run  *)
(* has one successor, the runs are the ledger of ReversiblePlan, and what  *)
(* a plan leaves is sound.                                                 *)
(***************************************************************************)
EXTENDS HistoryRemediation, WellFoundedInduction, FiniteSetTheorems,
        SequenceTheorems, TLAPS

(* Where an operation holds the global lock.                               *)
Holding == {"gates", "inserting", "written", "checking", "undoing", "undone"}

LockHeld == \A o \in Operator : op[o].pc \in Holding => lock = o

(* What an operation has written is what its row locks protect; it is an   *)
(* unused plan over it, or an applied run taken back.                      *)
DraftOK(x) ==
    /\ DOMAIN x.after = DOMAIN x.before
    /\ DOMAIN x.before \subseteq DOMAIN rows
    /\ x.before = StatesOf(DOMAIN x.before)
    /\ x.pc \notin {"written", "undone"} => DOMAIN x.before = {}
    /\ x.pc \in {"gates", "inserting", "written"} => x.plan \notin consumed
    /\ x.pc = "written" =>
        /\ DOMAIN x.before = Planned(x.plan)
        /\ \A i \in Planned(x.plan) :
              x.after[i] = IF x.plan.want[i] = x.plan.seen[i].state
                           THEN x.before[i] ELSE x.plan.want[i]
        /\ ~Superseded(x.run)
    /\ x.pc \in ApplyPc /\ x.run # 0 =>
        runs[x.run].plan = x.plan /\ runs[x.run].status = "failed"
    /\ x.pc \in {"checking", "undoing", "undone"} => runs[x.run].status = "applied"
    /\ x.pc = "undone" =>
        x.before = runs[x.run].after /\ x.after = runs[x.run].before

Drafts == \A o \in Operator : DraftOK(op[o])

(* A run covers rows that exist, and consumes its plan alone.              *)
RunsOK ==
    \A k \in DOMAIN runs :
        /\ DOMAIN runs[k].after = DOMAIN runs[k].before
        /\ DOMAIN runs[k].before \subseteq DOMAIN rows
        /\ k \in Succeeded =>
            /\ runs[k].plan \in consumed
            /\ \A l \in Succeeded : runs[l].plan = runs[k].plan => k = l

(* The rows have gone on from where a plan saw them.                       *)
PlansOK ==
    \A p \in plans :
        /\ ~Sound(p.seen)
        /\ \A i \in DOMAIN p.seen :
            /\ i \in DOMAIN rows
            /\ p.seen[i].stamp <= rows[i].stamp
            /\ p.seen[i].stamp = rows[i].stamp => p.seen[i].state = rows[i].state

(* ... and for good when it was applied.                                   *)
ConsumedOK ==
    \A p \in consumed : Planned(p) # {} =>
        \E i \in DOMAIN p.seen : p.seen[i].stamp < rows[i].stamp

(* A sync has read rows that exist.                                        *)
ReadersOK == \A w \in writer : DOMAIN w.lane \subseteq DOMAIN rows

IInv ==
    /\ TypeOK
    /\ LockHeld
    /\ Drafts
    /\ RunsOK
    /\ PlansOK
    /\ ConsumedOK
    /\ ReadersOK
    /\ SupersededOnce

-----------------------------------------------------------------------------
(* Rows and plans.                                                         *)

(* A non-empty set of instants has a least element.                        *)
LEMMA HasLeast ==
  ASSUME NEW n \in Nat, NEW S, S \subseteq 1 .. n, S # {}
  PROVE  \E x \in S : \A y \in S : x <= y
<1> DEFINE T == {1 .. x : x \in S}
<1>1. T \subseteq FiniteSubsetsOf(1 .. n)
  BY FS_Interval, FS_Subset, FS_FiniteSubsetsOfFinite
<1>2. \E X \in T : \A Y \in T : ~(<<Y, X>> \in StrictSubsetOrdering(1 .. n))
  <2>1. T # {}
    OBVIOUS
  <2> QED
    BY <1>1, <2>1, FS_StrictSubsetOrderingWellFounded, WFMin, Zenon
<1>3. PICK x \in S : \A y \in S : ~(<<1 .. y, 1 .. x>> \in StrictSubsetOrdering(1 .. n))
  BY <1>2
<1>4. ASSUME NEW y \in S, y < x PROVE FALSE
  <2>1. 1 .. y \subseteq 1 .. x /\ 1 .. y # 1 .. x
    <3>1. x \in 1 .. x /\ x \notin 1 .. y
      BY <1>4
    <3> QED
      BY <1>4, <3>1
  <2>2. 1 .. y \in SUBSET (1 .. n) /\ 1 .. x \in SUBSET (1 .. n)
    OBVIOUS
  <2>3. <<1 .. y, 1 .. x>> \in StrictSubsetOrdering(1 .. n)
    BY <2>1, <2>2, Zenon DEF StrictSubsetOrdering
  <2> QED
    BY <1>3, <2>3
<1> QED
  BY <1>4

(* The first of some instants, or Open, is an instant or Open.             *)
LEMMA FirstInstant ==
  ASSUME NEW S, S \subseteq Instant
  PROVE  Min(S \cup {Open}) \in 1 .. Open
<1> USE RemediationAssumption
<1>1. Open \in Nat /\ S \cup {Open} \subseteq 1 .. Open /\ S \cup {Open} # {}
  BY DEF Open, Instant
<1>2. \E x \in S \cup {Open} : \A y \in S \cup {Open} : x <= y
  BY <1>1, HasLeast
<1>3. Min(S \cup {Open}) \in S \cup {Open}
  BY <1>2 DEF Min
<1> QED
  BY <1>1, <1>3

(* The state a plan wants is a state.                                      *)
LEMMA ExpectedType ==
  ASSUME NEW L, IsMap(L, Row), NEW i \in DOMAIN L
  PROVE  Expected(L, i) \in State
<1> DEFINE later == {j \in Canonical(L) : L[j].fact.at > L[i].fact.at}
<1>1. \A j \in DOMAIN L : L[j] \in Row /\ L[j].fact.at \in Instant
  BY DEF IsMap, Row, Fact
<1>2. {L[j].fact.at : j \in later} \subseteq Instant
  BY <1>1 DEF Canonical
<1>3. NextAnchor(L, L[i].fact.at) \in 1 .. Open
  BY <1>2, FirstInstant DEF NextAnchor
<1>4. L[i].fact.at \in 1 .. Open /\ L[i].state.until \in 1 .. Open
  BY <1>1, RemediationAssumption DEF Row, State, Instant, Open
<1>5. Expected(L, i).until \in 1 .. Open
  BY <1>3, <1>4 DEF Expected
<1>6. (L[i].state.disputed \/ i \in Conflicting(L)) \in BOOLEAN
  BY <1>1 DEF Row, State
<1> QED
  BY <1>5, <1>6 DEF Expected, State

LEMMA NothingType == \A R : IsMap(Nothing, R) /\ DOMAIN Nothing = {}
  BY DEF IsMap, Nothing

(* A sealed plan is a plan, which wants something of the rows it saw only. *)
LEMMA PlanType ==
  ASSUME NEW L, IsMap(L, Row), NEW n \in Nat
  PROVE  /\ IsPlan(PlanOf(L, n))
         /\ IsMap(PlanOf(L, n).want, State)
         /\ Planned(PlanOf(L, n)) \subseteq DOMAIN L
         /\ PlanOf(L, n).seen = L
<1>1. PlanOf(L, n).seen = L /\ PlanOf(L, n).total = n
  BY DEF PlanOf
<1>2. IsPlan(PlanOf(L, n))
  BY <1>1 DEF IsPlan
<1>3. IsMap([i \in DOMAIN L |-> Expected(L, i)], State)
  BY ExpectedType DEF IsMap
<1>4. PlanOf(L, n).want \in {Nothing, [i \in DOMAIN L |-> Expected(L, i)]}
  BY DEF PlanOf
<1> QED
  BY <1>1, <1>2, <1>3, <1>4, NothingType DEF Planned

LEMMA PlanShape ==
  ASSUME NEW p, IsPlan(p)
  PROVE  /\ IsMap(p.seen, Row) /\ p.total \in Nat
         /\ IsMap(p.want, State) /\ Planned(p) \subseteq DOMAIN p.seen
<1>1. p = PlanOf(p.seen, p.total) /\ IsMap(p.seen, Row) /\ p.total \in Nat
  BY DEF IsPlan
<1> DEFINE q == PlanOf(p.seen, p.total)
<1>2. IsMap(q.want, State) /\ Planned(q) \subseteq DOMAIN p.seen
  BY <1>1, PlanType
<1> HIDE DEF q
<1>3. p = q
  BY <1>1 DEF q
<1> QED
  BY <1>1, <1>2, <1>3

(* A plan that covers its rows, which were not sound, changes one of them. *)
LEMMA PlanChanges ==
  ASSUME NEW p, IsPlan(p), Planned(p) # {}, ~Sound(p.seen)
  PROVE  /\ Planned(p) = DOMAIN p.seen
         /\ \E i \in DOMAIN p.seen : p.want[i] # p.seen[i].state
<1> DEFINE L == p.seen
<1>1. p = PlanOf(L, p.total) /\ IsMap(L, Row)
  BY DEF IsPlan
<1>2. p.want = IF Excluded(L) THEN Nothing ELSE [i \in DOMAIN L |-> Expected(L, i)]
  BY <1>1 DEF PlanOf
<1>3. ~Excluded(L) /\ p.want = [i \in DOMAIN L |-> Expected(L, i)]
  BY <1>2, NothingType DEF Planned
<1>4. Planned(p) = DOMAIN L
  BY <1>3 DEF Planned
<1>5. ASSUME \A i \in DOMAIN L : p.want[i] = L[i].state
      PROVE  FALSE
  <2>1. \A i \in DOMAIN L : [L[i] EXCEPT !.state = Expected(L, i)] = L[i]
    BY <1>1, <1>3, <1>5 DEF IsMap, Row
  <2>2. Projected(L) = [i \in DOMAIN L |-> L[i]]
    BY <2>1 DEF Projected
  <2>3. Projected(L) = L
    BY <1>1, <2>2 DEF IsMap
  <2> QED
    BY <1>3, <2>3 DEF Excluded
<1> QED
  BY <1>4, <1>5

(* An UPDATE keeps the rows, their facts and their occurrences, and counts *)
(* the rows it changes.                                                    *)
LEMMA WithType ==
  ASSUME NEW L, IsMap(L, Row), NEW S, IsMap(S, State)
  PROVE  /\ IsMap(With(L, S), Row)
         /\ DOMAIN With(L, S) = DOMAIN L
         /\ \A i \in DOMAIN L :
              /\ With(L, S)[i].fact = L[i].fact /\ With(L, S)[i].occ = L[i].occ
              /\ With(L, S)[i].state = IF i \in DOMAIN S THEN S[i] ELSE L[i].state
              /\ With(L, S)[i].stamp =
                    IF i \in DOMAIN S /\ S[i] # L[i].state THEN L[i].stamp + 1
                                                           ELSE L[i].stamp
<1>1. DOMAIN With(L, S) = DOMAIN L
  BY DEF With
<1>2. \A i \in DOMAIN L :
        With(L, S)[i] = IF i \in DOMAIN S /\ S[i] # L[i].state
                        THEN [L[i] EXCEPT !.state = S[i], !.stamp = @ + 1]
                        ELSE L[i]
  BY DEF With
<1>3. \A i \in DOMAIN L : L[i] \in Row
  BY DEF IsMap
<1>4. \A i \in DOMAIN S : S[i] \in State
  BY DEF IsMap
<1>5. ASSUME NEW i \in DOMAIN L PROVE With(L, S)[i] \in Row
  <2>1. CASE i \in DOMAIN S /\ S[i] # L[i].state
    <3>1. S[i] \in State /\ L[i].stamp + 1 \in Nat
      BY <1>3, <1>4, <2>1 DEF Row
    <3>2. With(L, S)[i] = [L[i] EXCEPT !.state = S[i], !.stamp = L[i].stamp + 1]
      BY <1>2, <2>1
    <3> QED
      BY <1>3, <3>1, <3>2 DEF Row
  <2> QED
    BY <1>2, <1>3, <2>1
<1>6. IsMap(With(L, S), Row)
  <2>1. With(L, S) = [i \in DOMAIN With(L, S) |-> With(L, S)[i]]
    BY DEF With
  <2> QED
    BY <1>1, <1>5, <2>1 DEF IsMap
<1> QED
  BY <1>1, <1>2, <1>3, <1>6 DEF Row

-----------------------------------------------------------------------------
(* The invariant.                                                          *)

LEMMA IdleType == IsOperation(Idle) /\ DraftOK(Idle) /\ Idle.pc = "idle"
<1>1. IsMap(Idle.before, State) /\ IsMap(Idle.after, State)
      /\ DOMAIN Idle.before = {} /\ DOMAIN Idle.after = {}
  BY NothingType DEF Idle, Doing, Writing
<1>2. IsOperation(Idle)
  BY <1>1 DEF IsOperation, Idle, Doing, Writing, ApplyPc, RestorePc
<1>3. Idle.before = StatesOf(DOMAIN Idle.before)
  BY DEF Idle, Doing, Writing, Nothing, StatesOf
<1>4. DraftOK(Idle)
  BY <1>1, <1>3 DEF DraftOK, Idle, Doing, Writing, ApplyPc
<1> QED
  BY <1>2, <1>4 DEF Idle, Doing, Writing

LEMMA InitIInv == Init => IInv
<1> SUFFICES ASSUME Init PROVE IInv
  OBVIOUS
<1>1. /\ IsMap(rows, Row) /\ total = 0 /\ plans = {} /\ consumed = {}
      /\ runs = << >> /\ lock = NoOne /\ writer = {} /\ attempts = 0 /\ changes = 0
      /\ op = [o \in Operator |-> Idle]
  BY RemediationAssumption DEF Init
<1>2. /\ Len(runs) = 0 /\ DOMAIN runs = {}
      /\ runs = [k \in 1 .. Len(runs) |-> runs[k]]
  BY <1>1
<1>3. \A o \in Operator : op[o] = Idle /\ IsOperation(op[o]) /\ DraftOK(op[o])
  BY <1>1, IdleType
<1>4. TypeOK
  BY <1>1, <1>2, <1>3, RemediationAssumption DEF TypeOK
<1>5. LockHeld
  BY <1>3, IdleType DEF LockHeld, Holding
<1> QED
  BY <1>1, <1>2, <1>3, <1>4, <1>5
  DEF IInv, Drafts, RunsOK, PlansOK, ConsumedOK, ReadersOK, SupersededOnce

(* An operation goes on, and takes or leaves the lock; nothing else        *)
(* changes.                                                                *)
LEMMA OpChange ==
  ASSUME IInv, NEW o \in Operator, NEW r,
         op' = [op EXCEPT ![o] = r],
         IsOperation(r), DraftOK(r),
         r.pc \in Holding => lock' = o,
         lock' = lock \/ (lock = o /\ lock' = NoOne) \/ (lock = NoOne /\ lock' = o),
         UNCHANGED <<rows, total, plans, consumed, runs, envVars>>,
         attempts' \in 0 .. MaxAttempts
  PROVE  IInv'
<1>1. op' = [q \in Operator |-> IF q = o THEN r ELSE op[q]]
  BY DEF IInv, TypeOK
<1>2. \A q \in Operator : op'[q] = IF q = o THEN r ELSE op[q]
  BY <1>1
<1>3. UNCHANGED <<rows, total, plans, consumed, runs, writer, changes>>
  BY DEF envVars
<1>4. ASSUME NEW q \in Operator PROVE IsOperation(op[q])'
  <2>1. IsOperation(op'[q])
    BY <1>2 DEF IInv, TypeOK
  <2> QED
    BY <1>3, <2>1 DEF IsOperation
<1>5. ASSUME NEW q \in Operator PROVE DraftOK(op[q])'
  <2>1. DraftOK(op'[q])
    BY <1>2 DEF IInv, Drafts
  <2>2. StatesOf(DOMAIN op[q].before)' = StatesOf(DOMAIN op'[q].before)
    BY <1>3 DEF StatesOf
  <2>3. Superseded(op[q].run)' <=> Superseded(op'[q].run)
    BY <1>3 DEF Superseded
  <2> QED
    BY <1>3, <2>1, <2>2, <2>3 DEF DraftOK
<1>6. lock' \in Operator \cup {NoOne}
  BY DEF IInv, TypeOK
<1>7. TypeOK'
  <2>1. op' = [q \in Operator |-> op'[q]]
    BY <1>1
  <2>2. \A k \in DOMAIN runs : IsRun(runs[k])'
    BY <1>3 DEF IInv, TypeOK, IsRun
  <2> QED
    BY <1>3, <1>4, <1>6, <2>1, <2>2 DEF IInv, TypeOK
<1>8. LockHeld'
  BY <1>2, RemediationAssumption DEF IInv, LockHeld
<1>9. Drafts'
  BY <1>5 DEF Drafts
<1>10. RunsOK' /\ PlansOK' /\ ConsumedOK' /\ ReadersOK' /\ SupersededOnce'
  BY <1>3 DEF IInv, RunsOK, PlansOK, ConsumedOK, ReadersOK, SupersededOnce, Succeeded
<1> QED
  BY <1>7, <1>8, <1>9, <1>10 DEF IInv

LEMMA GoesTo ==
  ASSUME IInv, NEW o \in Operator, NEW c, Goes(o, c)
  PROVE  op' = [op EXCEPT ![o] =
             [pc |-> c, plan |-> op[o].plan, run |-> op[o].run,
              before |-> op[o].before, after |-> op[o].after, count |-> op[o].count]]
<1>1. op' = [op EXCEPT ![o] = [op[o] EXCEPT !.pc = c]]
  BY DEF Goes
<1>2. IsOperation(op[o])
  BY DEF IInv, TypeOK
<1>3. [op[o] EXCEPT !.pc = c] =
        [pc |-> c, plan |-> op[o].plan, run |-> op[o].run,
         before |-> op[o].before, after |-> op[o].after, count |-> op[o].count]
  BY <1>2 DEF IsOperation
<1> QED
  BY <1>1, <1>3

(* The operation is over.                                                  *)
LEMMA OpEnds ==
  ASSUME IInv, NEW o \in Operator, Ends(o),
         lock' = lock \/ (lock = o /\ lock' = NoOne),
         UNCHANGED <<rows, total, plans, consumed, runs, envVars, attempts>>
  PROVE  IInv'
<1>1. op' = [op EXCEPT ![o] = Idle]
  BY DEF Ends
<1>2. attempts' \in 0 .. MaxAttempts
  BY DEF IInv, TypeOK
<1>3. Idle.pc \notin Holding
  BY IdleType DEF Holding
<1> QED
  BY <1>1, <1>2, <1>3, IdleType, OpChange

(* It fails, with a run to record.                                         *)
LEMMA OpFails ==
  ASSUME IInv, NEW o \in Operator, NEW prev \in {0, op[o].run}, Fails(o, prev),
         op[o].pc \in ApplyPc,
         lock' = lock \/ (lock = o /\ lock' = NoOne),
         UNCHANGED <<rows, total, plans, consumed, runs, envVars, attempts>>
  PROVE  IInv'
<1> DEFINE r == [pc |-> "failed", plan |-> op[o].plan, run |-> prev,
                 before |-> Nothing, after |-> Nothing, count |-> 0]
<1>1. op' = [op EXCEPT ![o] = r]
  BY DEF Fails, Doing, Writing
<1>2. IsOperation(op[o]) /\ DraftOK(op[o])
  BY DEF IInv, TypeOK, Drafts
<1>3. IsOperation(r)
  BY <1>2, NothingType DEF IsOperation, ApplyPc, RestorePc
<1>4. Nothing = StatesOf(DOMAIN Nothing)
  BY DEF Nothing, StatesOf
<1>5. DraftOK(r)
  BY <1>2, <1>4, NothingType DEF DraftOK, ApplyPc
<1>6. attempts' \in 0 .. MaxAttempts
  BY DEF IInv, TypeOK
<1>7. r.pc \notin Holding
  BY DEF Holding
<1> HIDE DEF r
<1> QED
  BY <1>1, <1>3, <1>5, <1>6, <1>7, OpChange

(* It asks for a review of its run.                                        *)
LEMMA OpDrifts ==
  ASSUME IInv, NEW o \in Operator, Drifts(o), op[o].pc \in RestorePc,
         lock' = lock \/ (lock = o /\ lock' = NoOne),
         UNCHANGED <<rows, total, plans, consumed, runs, envVars, attempts>>
  PROVE  IInv'
<1> DEFINE r == [pc |-> "marking", plan |-> NoPlan, run |-> op[o].run,
                 before |-> Nothing, after |-> Nothing, count |-> 0]
<1>1. op' = [op EXCEPT ![o] = r]
  BY DEF Drifts, Doing, Writing
<1>2. IsOperation(op[o])
  BY DEF IInv, TypeOK
<1>3. IsOperation(r)
  BY <1>2, NothingType DEF IsOperation, ApplyPc, RestorePc
<1>4. Nothing = StatesOf(DOMAIN Nothing)
  BY DEF Nothing, StatesOf
<1>5. DraftOK(r)
  BY <1>4, NothingType DEF DraftOK, ApplyPc
<1>6. attempts' \in 0 .. MaxAttempts
  BY DEF IInv, TypeOK
<1>7. r.pc \notin Holding
  BY DEF Holding
<1> HIDE DEF r
<1> QED
  BY <1>1, <1>3, <1>5, <1>6, <1>7, OpChange

-----------------------------------------------------------------------------
(* Steps of an operation that leave the data and the runs alone.           *)

LEMMA StartApplyStep ==
  ASSUME IInv, NEW o \in Operator, NEW p \in plans, NEW prev \in {0} \cup DOMAIN runs,
         StartApply(o, p, prev)
  PROVE  IInv'
<1> DEFINE r == [pc |-> "applying", plan |-> p, run |-> prev,
                 before |-> Nothing, after |-> Nothing, count |-> 0]
<1>1. op' = [op EXCEPT ![o] = r]
  BY DEF StartApply, Doing, Writing
<1>2. IsOperation(r)
  BY NothingType DEF IsOperation, ApplyPc, RestorePc
<1>3. Nothing = StatesOf(DOMAIN Nothing)
  BY DEF Nothing, StatesOf
<1>4. DraftOK(r)
  BY <1>3, NothingType DEF DraftOK, StartApply
<1>5. attempts' \in 0 .. MaxAttempts
  BY RemediationAssumption DEF IInv, TypeOK, StartApply
<1>6. r.pc \notin Holding
  BY DEF Holding
<1>7. UNCHANGED <<rows, total, plans, consumed, runs, lock, envVars>>
  BY DEF StartApply, ledgerVars
<1> HIDE DEF r
<1> QED
  BY <1>1, <1>2, <1>4, <1>5, <1>6, <1>7, OpChange

LEMMA StartRestoreStep ==
  ASSUME IInv, NEW o \in Operator, NEW k \in DOMAIN runs, StartRestore(o, k)
  PROVE  IInv'
<1> DEFINE r == [pc |-> "restoring", plan |-> NoPlan, run |-> k,
                 before |-> Nothing, after |-> Nothing, count |-> 0]
<1>1. op' = [op EXCEPT ![o] = r]
  BY DEF StartRestore, Doing, Writing
<1>2. k # 0
  BY DEF IInv, TypeOK
<1>3. IsOperation(r)
  BY <1>2, NothingType DEF IsOperation, ApplyPc, RestorePc
<1>4. Nothing = StatesOf(DOMAIN Nothing)
  BY DEF Nothing, StatesOf
<1>5. DraftOK(r)
  BY <1>4, NothingType DEF DraftOK, ApplyPc
<1>6. attempts' \in 0 .. MaxAttempts
  BY RemediationAssumption DEF IInv, TypeOK, StartRestore
<1>7. r.pc \notin Holding
  BY DEF Holding
<1>8. UNCHANGED <<rows, total, plans, consumed, runs, lock, envVars>>
  BY DEF StartRestore, ledgerVars
<1> HIDE DEF r
<1> QED
  BY <1>1, <1>3, <1>5, <1>6, <1>7, <1>8, OpChange

(* The operation that holds the global lock is the one that unlocks it.    *)
LEMMA UnlockType ==
  ASSUME IInv, NEW o \in Operator, op[o].pc \in Holding, Unlock(o)
  PROVE  lock = o /\ lock' = NoOne
BY DEF IInv, LockHeld, Unlock

LEMMA LockApplyStep ==
  ASSUME IInv, NEW o \in Operator, LockApply(o)
  PROVE  IInv'
<1>1. /\ op[o].pc = "applying" /\ lock = NoOne
      /\ UNCHANGED <<rows, total, plans, consumed, runs, attempts, envVars>>
  BY DEF LockApply, At, ledgerVars
<1>2. CASE op[o].plan \in consumed
  <2>1. Ends(o) /\ UNCHANGED lock
    BY <1>2 DEF LockApply
  <2> QED
    BY <1>1, <2>1, OpEnds
<1>3. CASE op[o].plan \notin consumed
  <2> DEFINE r == [pc |-> "gates", plan |-> op[o].plan, run |-> op[o].run,
                   before |-> op[o].before, after |-> op[o].after,
                   count |-> op[o].count]
  <2>1. Goes(o, "gates") /\ lock' = o
    BY <1>3 DEF LockApply
  <2>2. op' = [op EXCEPT ![o] = r]
    BY <2>1, GoesTo
  <2>3. IsOperation(op[o]) /\ DraftOK(op[o])
    BY DEF IInv, TypeOK, Drafts
  <2>4. IsOperation(r)
    BY <1>1, <2>3 DEF IsOperation, ApplyPc, RestorePc
  <2>5. DraftOK(r)
    BY <1>1, <1>3, <2>3 DEF DraftOK, ApplyPc
  <2>6. attempts' \in 0 .. MaxAttempts
    BY <1>1 DEF IInv, TypeOK
  <2> HIDE DEF r
  <2> QED
    BY <1>1, <2>1, <2>2, <2>4, <2>5, <2>6, OpChange
<1> QED
  BY <1>2, <1>3

LEMMA OpTypes ==
  ASSUME IInv, NEW o \in Operator
  PROVE  /\ IsOperation(op[o]) /\ DraftOK(op[o])
         /\ attempts \in 0 .. MaxAttempts
BY DEF IInv, TypeOK, Drafts

LEMMA WaitFailsStep ==
  ASSUME IInv, NEW o \in Operator, WaitFails(o)
  PROVE  IInv'
<1>1. UNCHANGED <<rows, total, plans, consumed, runs, lock, attempts, envVars>>
  BY DEF WaitFails, ledgerVars
<1>2. CASE At(o, "applying") /\ Goes(o, "failed")
  <2> DEFINE r == [pc |-> "failed", plan |-> op[o].plan, run |-> op[o].run,
                   before |-> op[o].before, after |-> op[o].after,
                   count |-> op[o].count]
  <2>1. op' = [op EXCEPT ![o] = r]
    BY <1>2, GoesTo
  <2>2. IsOperation(r) /\ DraftOK(r)
    BY <1>2, OpTypes DEF IsOperation, DraftOK, At, ApplyPc, RestorePc
  <2>3. r.pc \notin Holding
    BY DEF Holding
  <2> HIDE DEF r
  <2> QED
    BY <1>1, <2>1, <2>2, <2>3, OpTypes, OpChange
<1>3. CASE At(o, "restoring") /\ Ends(o)
  BY <1>1, <1>3, OpEnds
<1> QED
  BY <1>2, <1>3 DEF WaitFails

LEMMA GatesStep ==
  ASSUME IInv, NEW o \in Operator, Gates(o)
  PROVE  IInv'
<1>1. /\ op[o].pc = "gates"
      /\ UNCHANGED <<rows, total, plans, consumed, runs, attempts, envVars>>
  BY DEF Gates, At, ledgerVars
<1>2. lock = o
  BY <1>1 DEF IInv, LockHeld, Holding
<1>3. CASE op[o].plan.supported /\ AsSealed(op[o].plan)
  <2> DEFINE r == [pc |-> "inserting", plan |-> op[o].plan, run |-> op[o].run,
                   before |-> op[o].before, after |-> op[o].after,
                   count |-> op[o].count]
  <2>1. Goes(o, "inserting") /\ lock' = o
    BY <1>2, <1>3 DEF Gates
  <2>2. op' = [op EXCEPT ![o] = r]
    BY <2>1, GoesTo
  <2>3. IsOperation(r) /\ DraftOK(r)
    BY <1>1, OpTypes DEF IsOperation, DraftOK, ApplyPc, RestorePc
  <2> HIDE DEF r
  <2> QED
    BY <1>1, <1>2, <2>1, <2>2, <2>3, OpTypes, OpChange
<1>4. CASE ~(op[o].plan.supported /\ AsSealed(op[o].plan))
  <2>1. Fails(o, op[o].run) /\ lock' = NoOne
    BY <1>4 DEF Gates, Unlock
  <2> QED
    BY <1>1, <1>2, <2>1, OpFails DEF ApplyPc
<1> QED
  BY <1>3, <1>4

LEMMA WriteStep ==
  ASSUME IInv, NEW o \in Operator, Write(o)
  PROVE  IInv'
<1> DEFINE p == op[o].plan
           b == StatesOf(Planned(p))
           a == [i \in Planned(p) |-> Bound(p, i)]
           r == [pc |-> "written", plan |-> p, run |-> op[o].run,
                 before |-> b, after |-> a, count |-> total]
<1>1. /\ op[o].pc = "inserting"
      /\ ~Superseded(op[o].run)
      /\ op' = [op EXCEPT ![o] = r]
      /\ UNCHANGED <<rows, total, plans, consumed, runs, lock, attempts, envVars>>
  BY DEF Write, At, Writing, ledgerVars
<1>2. lock = o
  BY <1>1 DEF IInv, LockHeld, Holding
<1>3. IsOperation(op[o]) /\ DraftOK(op[o]) /\ p \in plans /\ IsPlan(p)
  <2>1. p \in plans
    BY <1>1, OpTypes DEF IsOperation, ApplyPc
  <2> QED
    BY <2>1, OpTypes DEF IInv, TypeOK
<1>4. /\ IsMap(p.seen, Row) /\ IsMap(p.want, State)
      /\ Planned(p) \subseteq DOMAIN p.seen /\ Planned(p) = DOMAIN p.want
  BY <1>3, PlanShape DEF Planned
<1>5. IsMap(rows, Row) /\ Planned(p) \subseteq DOMAIN rows
  BY <1>3, <1>4 DEF IInv, TypeOK, PlansOK
<1>6. IsMap(b, State) /\ DOMAIN b = Planned(p)
  <2>1. \A i \in Planned(p) : rows[i].state \in State
    BY <1>5 DEF IsMap, Row
  <2> QED
    BY <1>5, <2>1 DEF StatesOf, IsMap
<1>7. IsMap(a, State) /\ DOMAIN a = Planned(p)
  <2>1. \A i \in Planned(p) : rows[i].state \in State /\ p.want[i] \in State
    BY <1>4, <1>5 DEF IsMap, Row
  <2> QED
    BY <1>4, <2>1 DEF Bound, IsMap
<1>8. \A i \in Planned(p) :
        a[i] = IF p.want[i] = p.seen[i].state THEN b[i] ELSE p.want[i]
  BY DEF Bound, StatesOf
<1>9. total \in Nat
  BY DEF IInv, TypeOK
<1> HIDE DEF a, b
<1>10. IsOperation(r)
  BY <1>1, <1>3, <1>6, <1>7, <1>9 DEF IsOperation, ApplyPc, RestorePc
<1>11. b = StatesOf(DOMAIN b)
  BY <1>6 DEF b
<1>12. DraftOK(r)
  BY <1>1, <1>3, <1>5, <1>6, <1>7, <1>8, <1>11 DEF DraftOK, ApplyPc
<1> HIDE DEF r
<1> QED
  BY <1>1, <1>2, <1>10, <1>12, OpTypes, OpChange

(* What ends with the data transaction rolled back.                        *)
LEMMA ApplyStops ==
  ASSUME IInv, NEW o \in Operator,
         DuplicateRun(o) \/ CountsDiffer(o) \/ CommitApplyFails(o) \/ ApplyFails(o)
  PROVE  IInv'
<1>1. /\ op[o].pc \in {"gates", "inserting", "written"}
      /\ Unlock(o)
      /\ UNCHANGED <<rows, total, plans, consumed, runs, attempts, envVars>>
      /\ \/ Ends(o)
         \/ \E prev \in {0, op[o].run} : Fails(o, prev)
  BY DEF DuplicateRun, CountsDiffer, CommitApplyFails, ApplyFails, At, ledgerVars
<1>2. lock = o /\ lock' = NoOne
  BY <1>1, UnlockType DEF Holding
<1>3. CASE Ends(o)
  BY <1>1, <1>2, <1>3, OpEnds
<1>4. ASSUME NEW prev \in {0, op[o].run}, Fails(o, prev) PROVE IInv'
  BY <1>1, <1>2, <1>4, OpFails DEF ApplyPc
<1> QED
  BY <1>1, <1>3, <1>4

LEMMA LockRestoreStep ==
  ASSUME IInv, NEW o \in Operator, LockRestore(o)
  PROVE  IInv'
<1>1. /\ op[o].pc = "restoring" /\ lock = NoOne
      /\ UNCHANGED <<rows, total, plans, consumed, runs, attempts, envVars>>
  BY DEF LockRestore, At, ledgerVars
<1>2. CASE Ends(o) /\ UNCHANGED lock
  BY <1>1, <1>2, OpEnds
<1>3. CASE runs[op[o].run].status = "applied" /\ Goes(o, "checking") /\ lock' = o
  <2> DEFINE r == [pc |-> "checking", plan |-> op[o].plan, run |-> op[o].run,
                   before |-> op[o].before, after |-> op[o].after,
                   count |-> op[o].count]
  <2>1. op' = [op EXCEPT ![o] = r]
    BY <1>3, GoesTo
  <2>2. IsOperation(r) /\ DraftOK(r)
    BY <1>1, <1>3, OpTypes DEF IsOperation, DraftOK, ApplyPc, RestorePc
  <2> HIDE DEF r
  <2> QED
    BY <1>1, <1>3, <2>1, <2>2, OpTypes, OpChange
<1> QED
  BY <1>2, <1>3 DEF LockRestore

LEMMA CheckEvidenceStep ==
  ASSUME IInv, NEW o \in Operator, CheckEvidence(o)
  PROVE  IInv'
<1>1. /\ op[o].pc = "checking"
      /\ UNCHANGED <<rows, total, plans, consumed, runs, attempts, envVars>>
  BY DEF CheckEvidence, At, ledgerVars
<1>2. lock = o
  BY <1>1 DEF IInv, LockHeld, Holding
<1>3. CASE Goes(o, "undoing") /\ UNCHANGED lock
  <2> DEFINE r == [pc |-> "undoing", plan |-> op[o].plan, run |-> op[o].run,
                   before |-> op[o].before, after |-> op[o].after,
                   count |-> op[o].count]
  <2>1. op' = [op EXCEPT ![o] = r]
    BY <1>3, GoesTo
  <2>2. IsOperation(r) /\ DraftOK(r)
    BY <1>1, OpTypes DEF IsOperation, DraftOK, ApplyPc, RestorePc
  <2> HIDE DEF r
  <2> QED
    BY <1>1, <1>2, <1>3, <2>1, <2>2, OpTypes, OpChange
<1>4. CASE Drifts(o) /\ Unlock(o)
  BY <1>1, <1>2, <1>4, OpDrifts DEF RestorePc, Unlock
<1> QED
  BY <1>3, <1>4 DEF CheckEvidence

LEMMA RestoreRowsStep ==
  ASSUME IInv, NEW o \in Operator, RestoreRows(o)
  PROVE  IInv'
<1> DEFINE run == runs[op[o].run]
<1>1. /\ op[o].pc = "undoing"
      /\ UNCHANGED <<rows, total, plans, consumed, runs, attempts, envVars>>
  BY DEF RestoreRows, At, ledgerVars
<1>2. lock = o
  BY <1>1 DEF IInv, LockHeld, Holding
<1>3. IsOperation(op[o]) /\ DraftOK(op[o]) /\ op[o].run \in DOMAIN runs /\ op[o].run # 0
  BY <1>1, OpTypes DEF IsOperation, RestorePc
<1>4. CASE StatesOf(DOMAIN run.before) = run.after
  <2> DEFINE r == [pc |-> "undone", plan |-> NoPlan, run |-> op[o].run,
                   before |-> run.after, after |-> run.before, count |-> 0]
  <2>1. op' = [op EXCEPT ![o] = r] /\ UNCHANGED lock
    BY <1>4 DEF RestoreRows, Writing
  <2>2. IsMap(run.before, State) /\ IsMap(run.after, State)
    BY <1>3 DEF IInv, TypeOK, IsRun
  <2>3. IsOperation(r)
    BY <1>3, <2>2 DEF IsOperation, ApplyPc, RestorePc
  <2>4. DOMAIN run.after = DOMAIN run.before /\ DOMAIN run.before \subseteq DOMAIN rows
    BY <1>3 DEF IInv, RunsOK
  <2>5. DraftOK(r)
    BY <1>1, <1>3, <1>4, <2>4 DEF DraftOK, ApplyPc
  <2> HIDE DEF r
  <2> QED
    BY <1>1, <1>2, <2>1, <2>3, <2>5, OpTypes, OpChange
<1>5. CASE StatesOf(DOMAIN run.before) # run.after
  <2>1. Drifts(o) /\ Unlock(o)
    BY <1>5 DEF RestoreRows
  <2> QED
    BY <1>1, <1>2, <2>1, OpDrifts DEF RestorePc, Unlock
<1> QED
  BY <1>4, <1>5

LEMMA RestoreStops ==
  ASSUME IInv, NEW o \in Operator, CommitRestoreFails(o) \/ RestoreFails(o)
  PROVE  IInv'
<1>1. /\ op[o].pc \in {"checking", "undoing", "undone"}
      /\ Unlock(o)
      /\ UNCHANGED <<rows, total, plans, consumed, runs, attempts, envVars>>
      /\ Ends(o) \/ Drifts(o)
  BY DEF CommitRestoreFails, RestoreFails, At, ledgerVars
<1>2. lock = o /\ lock' = NoOne
  BY <1>1, UnlockType DEF Holding
<1> QED
  BY <1>1, <1>2, OpEnds, OpDrifts DEF RestorePc

LEMMA CrashStep ==
  ASSUME IInv, NEW o \in Operator, Crash(o)
  PROVE  IInv'
<1>1. /\ Ends(o)
      /\ lock' = lock \/ (lock = o /\ lock' = NoOne)
      /\ UNCHANGED <<rows, total, plans, consumed, runs, attempts, envVars>>
  BY DEF Crash, ledgerVars
<1> QED
  BY <1>1, OpEnds

-----------------------------------------------------------------------------
(* Records of failures, and marks.                                         *)

LEMMA AppendShape ==
  ASSUME NEW s, s = [k \in 1 .. Len(s) |-> s[k]], Len(s) \in Nat, NEW x
  PROVE  /\ DOMAIN s = 1 .. Len(s)
         /\ Len(Append(s, x)) = Len(s) + 1
         /\ DOMAIN Append(s, x) = 1 .. Len(s) + 1
         /\ \A k \in 1 .. Len(s) : Append(s, x)[k] = s[k]
         /\ Append(s, x)[Len(s) + 1] = x
         /\ Append(s, x) = [k \in 1 .. Len(s) + 1 |-> Append(s, x)[k]]
<1> DEFINE S == {s[k] : k \in 1 .. Len(s)} \cup {x}
<1>1. s \in [1 .. Len(s) -> S]
  OBVIOUS
<1>2. s \in Seq(S) /\ x \in S
  BY <1>1
<1> HIDE DEF S
<1>3. Append(s, x) \in Seq(S)
  BY <1>2
<1>4. Len(Append(s, x)) = Len(s) + 1
  BY <1>2
<1>5. DOMAIN s = 1 .. Len(s) /\ DOMAIN Append(s, x) = 1 .. Len(s) + 1
  BY <1>2, <1>3, <1>4
<1>6. \A k \in 1 .. Len(s) : Append(s, x)[k] = s[k]
  BY <1>2
<1>7. Append(s, x)[Len(s) + 1] = x
  BY <1>2
<1>8. Append(s, x) \in [1 .. Len(s) + 1 -> S]
  BY <1>3, <1>4, LenProperties
<1> QED
  BY <1>4, <1>5, <1>6, <1>7, <1>8

(* A run that is recorded for an operation retries a failed run of its     *)
(* plan that nothing has retried.                                          *)
LEMMA AppendRun ==
  ASSUME IInv, NEW x, runs' = Append(runs, x), x.supersedes \in {0} \cup DOMAIN runs,
         x.supersedes # 0 =>
            /\ runs[x.supersedes].status = "failed"
            /\ runs[x.supersedes].plan = x.plan
            /\ ~Superseded(x.supersedes)
  PROVE  /\ runs' = [k \in 1 .. Len(runs') |-> runs'[k]] /\ Len(runs') \in Nat
         /\ Len(runs) \in Nat
         /\ DOMAIN runs = 1 .. Len(runs)
         /\ DOMAIN runs' = DOMAIN runs \cup {Len(runs) + 1}
         /\ \A k \in DOMAIN runs : runs'[k] = runs[k]
         /\ runs'[Len(runs) + 1] = x
         /\ SupersededOnce'
<1>1. runs = [k \in 1 .. Len(runs) |-> runs[k]] /\ Len(runs) \in Nat
  BY DEF IInv, TypeOK
<1>2. /\ DOMAIN runs = 1 .. Len(runs)
      /\ Len(runs') = Len(runs) + 1
      /\ DOMAIN runs' = 1 .. Len(runs) + 1
      /\ \A k \in 1 .. Len(runs) : runs'[k] = runs[k]
      /\ runs'[Len(runs) + 1] = x
      /\ runs' = [k \in 1 .. Len(runs) + 1 |-> runs'[k]]
  BY <1>1, AppendShape
<1>3. DOMAIN runs' = DOMAIN runs \cup {Len(runs) + 1}
  BY <1>1, <1>2
<1>4. SupersededOnce'
  <2> SUFFICES ASSUME NEW k \in DOMAIN runs', NEW l \in DOMAIN runs',
                      runs'[k].supersedes # 0
               PROVE  LET prev == runs'[k].supersedes
                      IN /\ prev < k
                         /\ runs'[prev].status = "failed"
                         /\ runs'[prev].plan = runs'[k].plan
                         /\ runs'[l].supersedes = prev => k = l
    BY Zenon DEF SupersededOnce
  <2>1. CASE k \in DOMAIN runs
    <3>1. runs'[k] = runs[k] /\ runs[k].supersedes \in Nat
      BY <1>2, <2>1 DEF IInv, TypeOK, IsRun
    <3>2. /\ runs[k].supersedes < k
          /\ runs[runs[k].supersedes].status = "failed"
          /\ runs[runs[k].supersedes].plan = runs[k].plan
          /\ \A j \in DOMAIN runs : runs[j].supersedes = runs[k].supersedes => k = j
      BY <2>1, <3>1 DEF IInv, SupersededOnce
    <3>3. runs[k].supersedes \in DOMAIN runs
      BY <1>1, <1>2, <2>1, <3>1, <3>2
    <3>4. CASE l \in DOMAIN runs
      BY <1>2, <3>1, <3>2, <3>3, <3>4
    <3>5. CASE l = Len(runs) + 1
      <4>1. x.supersedes # runs[k].supersedes
        BY <2>1, <3>1 DEF Superseded
      <4> QED
        BY <1>2, <3>1, <3>2, <3>3, <3>5, <4>1
    <3> QED
      BY <1>3, <3>4, <3>5
  <2>2. CASE k = Len(runs) + 1
    <3>1. runs'[k] = x /\ x.supersedes \in DOMAIN runs
      BY <1>2, <2>2
    <3>2. x.supersedes < k
      BY <1>1, <1>2, <2>2, <3>1
    <3>3. \A j \in DOMAIN runs : runs[j].supersedes # x.supersedes
      BY <2>2, <3>1 DEF Superseded
    <3> QED
      BY <1>2, <1>3, <2>2, <3>1, <3>2, <3>3
  <2> QED
    BY <1>3, <2>1, <2>2
<1> QED
  BY <1>1, <1>2, <1>3, <1>4

(* An operation whose rows and runs stay as they are.                      *)
LEMMA OtherOps ==
  ASSUME IInv, NEW q \in Operator, op'[q] = op[q],
         UNCHANGED <<rows, plans, consumed>>,
         \A k \in DOMAIN runs :
            /\ k \in DOMAIN runs'
            /\ runs'[k].plan = runs[k].plan /\ runs'[k].status = runs[k].status
            /\ runs'[k].before = runs[k].before /\ runs'[k].after = runs[k].after,
         op[q].pc = "written" => ~Superseded(op[q].run)'
  PROVE  IsOperation(op[q])' /\ DraftOK(op[q])'
<1>1. IsOperation(op[q]) /\ DraftOK(op[q])
  BY OpTypes
<1>2. IsOperation(op[q])'
  BY <1>1 DEF IsOperation
<1>3. op[q].pc \in ApplyPc \cup {"checking", "undoing", "undone"} /\ op[q].run # 0
        => op[q].run \in DOMAIN runs
  BY <1>1 DEF IsOperation
<1>4. op[q].pc \in {"checking", "undoing", "undone"} => op[q].run # 0
  BY <1>1 DEF IsOperation, RestorePc
<1>5. DraftOK(op[q])'
  BY <1>1, <1>3, <1>4 DEF DraftOK, StatesOf, ApplyPc
<1> QED
  BY <1>2, <1>5

LEMMA RecordFailedStep ==
  ASSUME IInv, NEW o \in Operator, RecordFailed(o)
  PROVE  IInv'
<1>1. /\ op[o].pc = "failed" /\ Ends(o)
      /\ UNCHANGED <<rows, total, plans, consumed, lock, attempts, envVars>>
  BY DEF RecordFailed, At
<1>2. CASE Superseded(op[o].run)
  <2>1. UNCHANGED runs
    BY <1>2 DEF RecordFailed
  <2> QED
    BY <1>1, <2>1, OpEnds
<1>3. CASE ~Superseded(op[o].run)
  <2> DEFINE x == FailedRun(op[o].plan, op[o].run)
  <2>1. runs' = Append(runs, x)
    BY <1>3 DEF RecordFailed
  <2>2. IsOperation(op[o]) /\ DraftOK(op[o])
    BY OpTypes
  <2>3. /\ x.plan = op[o].plan /\ x.status = "failed" /\ x.supersedes = op[o].run
        /\ x.before = Nothing /\ x.after = Nothing
    BY DEF FailedRun, NewRun
  <2>4. IsRun(x)
    <3>1. op[o].plan \in plans /\ op[o].run \in Nat
      BY <1>1, <2>2 DEF IsOperation, ApplyPc, IInv, TypeOK
    <3> QED
      BY <3>1, NothingType DEF IsRun, FailedRun, NewRun, Status, RestoreStatus
  <2>5. x.supersedes \in {0} \cup DOMAIN runs
    BY <2>2, <2>3 DEF IsOperation
  <2>6. x.supersedes # 0 =>
            /\ runs[x.supersedes].status = "failed"
            /\ runs[x.supersedes].plan = x.plan
            /\ ~Superseded(x.supersedes)
    BY <1>1, <1>3, <2>2, <2>3 DEF DraftOK, ApplyPc
  <2> HIDE DEF x
  <2>7. /\ runs' = [k \in 1 .. Len(runs') |-> runs'[k]] /\ Len(runs') \in Nat
        /\ Len(runs) \in Nat
        /\ DOMAIN runs = 1 .. Len(runs)
        /\ DOMAIN runs' = DOMAIN runs \cup {Len(runs) + 1}
        /\ \A k \in DOMAIN runs : runs'[k] = runs[k]
        /\ runs'[Len(runs) + 1] = x
        /\ SupersededOnce'
    BY <2>1, <2>5, <2>6, AppendRun
  <2>8. op' = [q \in Operator |-> IF q = o THEN Idle ELSE op[q]]
    BY <1>1 DEF Ends, IInv, TypeOK
  <2>9. ASSUME NEW q \in Operator PROVE IsOperation(op[q])' /\ DraftOK(op[q])'
    <3>1. CASE q = o
      <4>1. op'[q] = Idle
        BY <2>8, <3>1
      <4>2. IsOperation(op'[q]) /\ DraftOK(op'[q]) /\ op'[q].pc = "idle"
        BY <4>1, IdleType
      <4>3. IsOperation(op[q])'
        BY <1>1, <2>7, <4>2 DEF IsOperation, ApplyPc, RestorePc
      <4>4. DraftOK(op[q])'
        BY <1>1, <4>2 DEF DraftOK, StatesOf, ApplyPc
      <4> QED
        BY <4>3, <4>4
    <3>2. CASE q # o
      <4>1. op'[q] = op[q]
        BY <2>8, <3>2
      <4>2. ASSUME op[q].pc = "written" PROVE ~Superseded(op[q].run)'
        <5>1. ~Superseded(op[q].run)
          BY <4>2, OpTypes DEF DraftOK
        <5>2. op[q].run = 0 \/ op[q].run # op[o].run
          BY <4>2 DEF RecordFailed, At
        <5> QED
          BY <2>3, <2>7, <4>1, <5>1, <5>2 DEF Superseded
      <4> QED
        BY <1>1, <2>7, <4>1, <4>2, OtherOps
    <3> QED
      BY <3>1, <3>2
  <2>10. TypeOK'
    <3>1. op' = [q \in Operator |-> op'[q]]
      BY <2>8
    <3>2. ASSUME NEW k \in DOMAIN runs' PROVE IsRun(runs[k])'
      <4>1. IsRun(runs'[k])
        BY <2>4, <2>7 DEF IInv, TypeOK
      <4> QED
        BY <1>1, <4>1 DEF IsRun
    <3> QED
      BY <1>1, <2>7, <2>9, <3>1, <3>2 DEF IInv, TypeOK, envVars
  <2>11. LockHeld'
    BY <1>1, <2>8, IdleType DEF IInv, LockHeld, Holding
  <2>12. Drafts'
    BY <2>9 DEF Drafts
  <2>13. RunsOK'
    BY <1>1, <2>3, <2>7, NothingType DEF IInv, RunsOK, Succeeded
  <2>14. PlansOK' /\ ConsumedOK' /\ ReadersOK'
    BY <1>1 DEF IInv, PlansOK, ConsumedOK, ReadersOK, envVars
  <2> QED
    BY <2>7, <2>10, <2>11, <2>12, <2>13, <2>14 DEF IInv
<1> QED
  BY <1>2, <1>3

LEMMA MarkStep ==
  ASSUME IInv, NEW o \in Operator, Mark(o)
  PROVE  IInv'
<1> DEFINE m == op[o].run
<1>1. /\ op[o].pc = "marking" /\ Ends(o)
      /\ runs' = [runs EXCEPT ![m].restore = "manual"]
      /\ UNCHANGED <<rows, total, plans, consumed, lock, attempts, envVars>>
  BY DEF Mark, At
<1>2. m \in DOMAIN runs
  BY <1>1, OpTypes DEF IsOperation, RestorePc
<1>3. runs = [k \in 1 .. Len(runs) |-> runs[k]] /\ Len(runs) \in Nat
  BY DEF IInv, TypeOK
<1>4. \A k \in DOMAIN runs : IsRun(runs[k])
  BY DEF IInv, TypeOK
<1>5. /\ DOMAIN runs' = DOMAIN runs
      /\ \A k \in DOMAIN runs :
            runs'[k] = IF k = m THEN [runs[k] EXCEPT !.restore = "manual"] ELSE runs[k]
  BY <1>1, <1>2, <1>3
<1>6. \A k \in DOMAIN runs :
        /\ runs'[k].plan = runs[k].plan /\ runs'[k].status = runs[k].status
        /\ runs'[k].before = runs[k].before /\ runs'[k].after = runs[k].after
        /\ runs'[k].supersedes = runs[k].supersedes
        /\ IsRun(runs[k])'
  <2> SUFFICES ASSUME NEW k \in DOMAIN runs
               PROVE  /\ runs'[k].plan = runs[k].plan /\ runs'[k].status = runs[k].status
                      /\ runs'[k].before = runs[k].before /\ runs'[k].after = runs[k].after
                      /\ runs'[k].supersedes = runs[k].supersedes
                      /\ IsRun(runs[k])'
    OBVIOUS
  <2> QED
    BY <1>1, <1>4, <1>5 DEF IsRun, RestoreStatus
<1>7. runs' = [k \in 1 .. Len(runs') |-> runs'[k]] /\ Len(runs') \in Nat
  <2>1. runs' = [k \in 1 .. Len(runs) |-> runs'[k]]
    BY <1>1, <1>3
  <2> QED
    BY <1>3, <2>1
<1>8. op' = [q \in Operator |-> IF q = o THEN Idle ELSE op[q]]
  BY <1>1 DEF Ends, IInv, TypeOK
<1>9. ASSUME NEW q \in Operator PROVE IsOperation(op[q])' /\ DraftOK(op[q])'
  <2>1. CASE q = o
    <3>1. op'[q] = Idle
      BY <1>8, <2>1
    <3>2. IsOperation(op'[q]) /\ DraftOK(op'[q]) /\ op'[q].pc = "idle"
      BY <3>1, IdleType
    <3>3. IsOperation(op[q])'
      BY <1>1, <1>5, <3>2 DEF IsOperation, ApplyPc, RestorePc
    <3>4. DraftOK(op[q])'
      BY <1>1, <3>2 DEF DraftOK, StatesOf, ApplyPc
    <3> QED
      BY <3>3, <3>4
  <2>2. CASE q # o
    <3>1. op'[q] = op[q]
      BY <1>8, <2>2
    <3>2. ASSUME op[q].pc = "written" PROVE ~Superseded(op[q].run)'
      <4>1. ~Superseded(op[q].run)
        BY <3>2, OpTypes DEF DraftOK
      <4> QED
        BY <1>5, <1>6, <3>1, <4>1 DEF Superseded
    <3> QED
      BY <1>1, <1>5, <1>6, <3>1, <3>2, OtherOps
  <2> QED
    BY <2>1, <2>2
<1>10. TypeOK'
  <2>1. op' = [q \in Operator |-> op'[q]]
    BY <1>8
  <2>2. \A k \in DOMAIN runs' : IsRun(runs[k])'
    BY <1>5, <1>6
  <2> QED
    BY <1>1, <1>7, <1>9, <2>1, <2>2 DEF IInv, TypeOK, envVars
<1>11. LockHeld'
  BY <1>1, <1>8, IdleType DEF IInv, LockHeld, Holding
<1>12. Drafts'
  BY <1>9 DEF Drafts
<1>13. RunsOK'
  BY <1>1, <1>5, <1>6 DEF IInv, RunsOK, Succeeded
<1>14. SupersededOnce'
  <2> SUFFICES ASSUME NEW k \in DOMAIN runs, NEW l \in DOMAIN runs,
                      runs[k].supersedes # 0
               PROVE  LET prev == runs[k].supersedes
                      IN /\ prev < k
                         /\ runs'[prev].status = "failed"
                         /\ runs'[prev].plan = runs'[k].plan
                         /\ runs'[l].supersedes = prev => k = l
    BY <1>5, <1>6 DEF SupersededOnce
  <2>1. /\ runs[k].supersedes < k /\ runs[runs[k].supersedes].status = "failed"
        /\ runs[runs[k].supersedes].plan = runs[k].plan
        /\ runs[l].supersedes = runs[k].supersedes => k = l
    BY DEF IInv, SupersededOnce
  <2>2. runs[k].supersedes \in DOMAIN runs
    BY <1>3, <1>4, <2>1 DEF IsRun
  <2> QED
    BY <1>6, <2>1, <2>2
<1>15. PlansOK' /\ ConsumedOK' /\ ReadersOK'
  BY <1>1 DEF IInv, PlansOK, ConsumedOK, ReadersOK, envVars
<1> QED
  BY <1>10, <1>11, <1>12, <1>13, <1>14, <1>15 DEF IInv

-----------------------------------------------------------------------------
(* Steps that change rows.                                                 *)

(* Rows stay, and one whose state changes counts the change.               *)
Grows ==
    /\ IsMap(rows', Row)
    /\ \A i \in DOMAIN rows :
        /\ i \in DOMAIN rows'
        /\ rows[i].stamp <= rows'[i].stamp
        /\ rows[i].stamp = rows'[i].stamp => rows'[i].state = rows[i].state

LEMMA PlansKept ==
  ASSUME IInv, Grows
  PROVE  /\ \A p \in plans : \A i \in DOMAIN p.seen :
              /\ i \in DOMAIN rows'
              /\ p.seen[i].stamp <= rows'[i].stamp
              /\ p.seen[i].stamp = rows'[i].stamp => p.seen[i].state = rows'[i].state
         /\ UNCHANGED plans => PlansOK'
         /\ \A p \in consumed : Planned(p) # {} =>
              \E i \in DOMAIN p.seen : p.seen[i].stamp < rows'[i].stamp
<1>1. \A p \in plans : \A i \in DOMAIN p.seen :
        /\ i \in DOMAIN rows /\ i \in DOMAIN rows'
        /\ p.seen[i].stamp \in Nat /\ rows[i].stamp \in Nat /\ rows'[i].stamp \in Nat
        /\ p.seen[i].stamp <= rows[i].stamp /\ rows[i].stamp <= rows'[i].stamp
  <2> SUFFICES ASSUME NEW p \in plans, NEW i \in DOMAIN p.seen
               PROVE  /\ i \in DOMAIN rows /\ i \in DOMAIN rows'
                      /\ p.seen[i].stamp \in Nat /\ rows[i].stamp \in Nat
                      /\ rows'[i].stamp \in Nat
                      /\ p.seen[i].stamp <= rows[i].stamp
                      /\ rows[i].stamp <= rows'[i].stamp
    OBVIOUS
  <2>1. i \in DOMAIN rows /\ p.seen[i].stamp <= rows[i].stamp
    BY DEF IInv, PlansOK
  <2>2. i \in DOMAIN rows' /\ rows[i].stamp <= rows'[i].stamp
    BY <2>1 DEF Grows
  <2>3. IsMap(p.seen, Row) /\ IsMap(rows, Row) /\ IsMap(rows', Row)
    BY DEF IInv, TypeOK, IsPlan, Grows
  <2>4. p.seen[i] \in Row /\ rows[i] \in Row /\ rows'[i] \in Row
    BY <2>1, <2>2, <2>3 DEF IsMap
  <2> QED
    BY <2>1, <2>2, <2>4 DEF Row
<1>2. ASSUME NEW p \in plans, NEW i \in DOMAIN p.seen, p.seen[i].stamp = rows'[i].stamp
      PROVE  p.seen[i].state = rows'[i].state
  <2>1. p.seen[i].stamp = rows[i].stamp /\ rows[i].stamp = rows'[i].stamp
    BY <1>1, <1>2
  <2> QED
    BY <1>1, <2>1 DEF IInv, PlansOK, Grows
<1>3. UNCHANGED plans => PlansOK'
  BY <1>1, <1>2 DEF IInv, PlansOK
<1>4. ASSUME NEW p \in consumed, Planned(p) # {}
      PROVE  \E i \in DOMAIN p.seen : p.seen[i].stamp < rows'[i].stamp
  <2>1. p \in plans
    BY DEF IInv, TypeOK
  <2>2. PICK i \in DOMAIN p.seen : p.seen[i].stamp < rows[i].stamp
    BY <1>4 DEF IInv, ConsumedOK
  <2> QED
    BY <1>1, <2>1, <2>2
<1> QED
  BY <1>1, <1>2, <1>3, <1>4

LEMMA RunsKept ==
  ASSUME IInv, Grows
  PROVE  /\ \A k \in DOMAIN runs : DOMAIN runs[k].before \subseteq DOMAIN rows'
         /\ DOMAIN rows \subseteq DOMAIN rows'
BY DEF IInv, RunsOK, Grows

(* The rest of the system changes rows that no operation has locked.       *)
LEMMA EnvironmentChange ==
  ASSUME IInv, Grows, \A i \in Locked : rows'[i].state = rows[i].state,
         UNCHANGED <<plans, consumed, runs, lock, op, attempts>>,
         total' \in Nat, changes' \in 0 .. MaxChanges, writer' \subseteq writer
  PROVE  IInv'
<1>1. ASSUME NEW q \in Operator PROVE IsOperation(op[q])' /\ DraftOK(op[q])'
  <2>1. IsOperation(op[q]) /\ DraftOK(op[q])
    BY OpTypes
  <2>2. IsOperation(op[q])'
    BY <2>1 DEF IsOperation
  <2>3. DOMAIN op[q].before \subseteq Locked /\ DOMAIN op[q].before \subseteq DOMAIN rows
    BY <2>1 DEF Locked, DraftOK
  <2>4. op[q].before = StatesOf(DOMAIN op[q].before)'
    <3>1. op[q].before = StatesOf(DOMAIN op[q].before)
      BY <2>1 DEF DraftOK
    <3> QED
      BY <2>3, <3>1 DEF StatesOf
  <2>5. DOMAIN op[q].before \subseteq DOMAIN rows'
    BY <2>3, RunsKept
  <2>6. DraftOK(op[q])'
    BY <2>1, <2>4, <2>5 DEF DraftOK, Superseded
  <2> QED
    BY <2>2, <2>6
<1>2. TypeOK'
  BY <1>1 DEF IInv, TypeOK, Grows, IsRun
<1>3. LockHeld' /\ Drafts'
  BY <1>1 DEF IInv, LockHeld, Drafts
<1>4. RunsOK'
  BY RunsKept DEF IInv, RunsOK, Succeeded
<1>5. PlansOK' /\ ConsumedOK'
  BY PlansKept DEF ConsumedOK
<1>6. ReadersOK'
  BY RunsKept DEF IInv, ReadersOK
<1>7. SupersededOnce'
  BY DEF IInv, SupersededOnce
<1> QED
  BY <1>2, <1>3, <1>4, <1>5, <1>6, <1>7 DEF IInv

LEMMA RollbackStep ==
  ASSUME IInv, NEW orphans \in BOOLEAN, RollbackStaging(orphans)
  PROVE  IInv'
<1> DEFINE matched == IF orphans THEN Live(rows) \cap Orphan ELSE Live(rows)
           until(i) == IF rows[i].state.until = Open THEN rows[i].fact.at
                                                     ELSE rows[i].state.until
           S == [i \in matched |-> [rows[i].state EXCEPT !.rolled = TRUE, !.until = until(i)]]
<1>1. /\ rows' = With(rows, S) /\ matched \cap Locked = {}
      /\ changes < MaxChanges /\ changes' = changes + 1
      /\ UNCHANGED <<total, plans, consumed, runs, lock, op, attempts, writer>>
  BY DEF RollbackStaging, ledgerVars, operatorVars
<1>2. IsMap(rows, Row) /\ matched \subseteq DOMAIN rows
  BY DEF IInv, TypeOK, Live
<1>3. IsMap(S, State)
  <2>1. ASSUME NEW i \in matched
        PROVE  [rows[i].state EXCEPT !.rolled = TRUE, !.until = until(i)] \in State
    <3>1. rows[i].state \in State /\ rows[i].fact \in Fact
      BY <1>2 DEF IsMap, Row
    <3>2. until(i) \in 1 .. Open
      BY <3>1, RemediationAssumption DEF State, Fact, Instant, Open
    <3> HIDE DEF until
    <3>3. [rows[i].state EXCEPT !.rolled = TRUE] \in State
      BY <3>1 DEF State
    <3> QED
      BY <3>2, <3>3 DEF State
  <2>2. matched \subseteq Id
    BY <1>2 DEF IsMap
  <2> QED
    BY <2>1, <2>2 DEF IsMap
<1>4. DOMAIN S = matched
  OBVIOUS
<1> HIDE DEF S, matched
<1>5. \A i \in DOMAIN rows : rows[i].stamp \in Nat
  BY <1>2 DEF IsMap, Row
<1>6. Grows
  BY <1>1, <1>2, <1>3, <1>5, WithType DEF Grows
<1>7. Locked \subseteq DOMAIN rows
  BY OpTypes DEF Locked, DraftOK
<1>8. \A i \in Locked : rows'[i].state = rows[i].state
  BY <1>1, <1>2, <1>3, <1>4, <1>7, WithType
<1>9. total' \in Nat /\ changes' \in 0 .. MaxChanges
  BY <1>1, RemediationAssumption DEF IInv, TypeOK
<1> QED
  BY <1>1, <1>6, <1>8, <1>9, EnvironmentChange

LEMMA WriterConfirmsStep ==
  ASSUME IInv, WriterConfirms
  PROVE  IInv'
<1>1. PICK i : /\ i \notin Locked
               /\ rows' = [rows EXCEPT ![i] = [rows[i] EXCEPT !.occ = rows[i].occ + 1]]
  BY DEF WriterConfirms
<1>2. /\ total' = total + 1 /\ writer' = {}
      /\ UNCHANGED <<plans, consumed, runs, lock, op, attempts, changes>>
  BY DEF WriterConfirms, ledgerVars, operatorVars
<1>3. IsMap(rows, Row)
  BY DEF IInv, TypeOK
<1>4. /\ DOMAIN rows' = DOMAIN rows
      /\ \A j \in DOMAIN rows :
            rows'[j] = IF j = i THEN [rows[i] EXCEPT !.occ = rows[i].occ + 1] ELSE rows[j]
  BY <1>1, <1>3 DEF IsMap
<1>5. \A j \in DOMAIN rows :
        /\ rows'[j] \in Row /\ rows[j].stamp \in Nat
        /\ rows'[j].state = rows[j].state /\ rows'[j].stamp = rows[j].stamp
  BY <1>3, <1>4 DEF IsMap, Row
<1>6. rows' = [j \in DOMAIN rows |-> rows'[j]]
  BY <1>1, <1>3 DEF IsMap
<1>7. Grows
  BY <1>3, <1>4, <1>5, <1>6 DEF Grows, IsMap
<1>8. Locked \subseteq DOMAIN rows
  BY OpTypes DEF Locked, DraftOK
<1>9. total' \in Nat /\ changes' \in 0 .. MaxChanges
  BY <1>2 DEF IInv, TypeOK
<1> QED
  BY <1>2, <1>5, <1>7, <1>8, <1>9, EnvironmentChange

LEMMA NewStateType ==
  ASSUME IInv, NEW w \in writer
  PROVE  NewState(w) \in State
<1> DEFINE later == {w.lane[i].fact.at : i \in {i \in DOMAIN w.lane : w.lane[i].fact.at > w.fact.at}}
<1>1. w.fact \in Fact /\ IsMap(w.lane, Row)
  BY DEF IInv, TypeOK
<1>2. \A i \in DOMAIN w.lane : w.lane[i].fact.at \in Instant
  BY <1>1 DEF IsMap, Row, Fact
<1>3. Min(later \cup {Open}) \in 1 .. Open
  BY <1>2, FirstInstant
<1>4. w.fact.at \in 1 .. Open
  BY <1>1, RemediationAssumption DEF Fact, Instant, Open
<1> HIDE DEF later
<1>5. NewState(w) = [until |-> IF Rivals(w) # {} THEN w.fact.at ELSE Min(later \cup {Open}),
                     disputed |-> Rivals(w) # {}, rolled |-> FALSE]
  BY DEF NewState, later
<1> QED
  BY <1>3, <1>4, <1>5 DEF State

LEMMA WriterInsertsStep ==
  ASSUME IInv, WriterInserts
  PROVE  IInv'
<1> DEFINE S(w) == [i \in Touched(w) |->
                       [rows[i].state EXCEPT !.until = w.fact.at,
                                             !.disputed = @ \/ Rivals(w) # {}]]
           new(w) == [fact |-> w.fact, state |-> NewState(w), stamp |-> 0, occ |-> 1]
<1>1. PICK w \in writer, n \in Id \ DOMAIN rows :
        /\ Touched(w) \cap Locked = {}
        /\ rows' = [i \in DOMAIN rows \cup {n} |->
                       IF i = n THEN new(w) ELSE With(rows, S(w))[i]]
  BY DEF WriterInserts
<1>2. /\ total' = total + 1 /\ writer' = {}
      /\ UNCHANGED <<plans, consumed, runs, lock, op, attempts, changes>>
  BY DEF WriterInserts, ledgerVars, operatorVars
<1>3. IsMap(rows, Row) /\ w.fact \in Fact /\ IsMap(w.lane, Row)
  BY DEF IInv, TypeOK
<1>4. Touched(w) \subseteq DOMAIN rows
  BY DEF Touched, Rivals, Predecessor, IInv, ReadersOK
<1>5. IsMap(S(w), State) /\ DOMAIN S(w) = Touched(w)
  <2>1. ASSUME NEW i \in Touched(w)
        PROVE  [rows[i].state EXCEPT !.until = w.fact.at,
                                     !.disputed = @ \/ Rivals(w) # {}] \in State
    <3>1. rows[i].state \in State
      BY <1>3, <1>4 DEF IsMap, Row
    <3>2. w.fact.at \in 1 .. Open
      BY <1>3, RemediationAssumption DEF Fact, Instant, Open
    <3>3. [rows[i].state EXCEPT !.until = w.fact.at] \in State
      BY <3>1, <3>2 DEF State
    <3>4. (rows[i].state.disputed \/ Rivals(w) # {}) \in BOOLEAN
      OBVIOUS
    <3> QED
      BY <3>1, <3>3, <3>4 DEF State
  <2>2. Touched(w) \subseteq Id
    BY <1>3, <1>4 DEF IsMap
  <2> QED
    BY <2>1, <2>2 DEF IsMap
<1>6. new(w) \in Row
  BY <1>3, NewStateType DEF Row
<1> HIDE DEF S, new
<1> DEFINE L == With(rows, S(w))
<1>7. /\ IsMap(L, Row) /\ DOMAIN L = DOMAIN rows
      /\ \A i \in DOMAIN rows :
           /\ L[i].state = IF i \in Touched(w) THEN S(w)[i] ELSE rows[i].state
           /\ L[i].stamp = IF i \in Touched(w) /\ S(w)[i] # rows[i].state
                           THEN rows[i].stamp + 1 ELSE rows[i].stamp
  BY <1>3, <1>5, WithType
<1> HIDE DEF L
<1>8. rows' = [i \in DOMAIN rows \cup {n} |-> IF i = n THEN new(w) ELSE L[i]]
  BY <1>1 DEF L
<1>9. /\ DOMAIN rows' = DOMAIN rows \cup {n}
      /\ \A i \in DOMAIN rows : rows'[i] = L[i]
  BY <1>8
<1>10. IsMap(rows', Row)
  BY <1>3, <1>6, <1>7, <1>8 DEF IsMap
<1>11. \A i \in DOMAIN rows : rows[i].stamp \in Nat
  BY <1>3 DEF IsMap, Row
<1>12. Grows
  BY <1>7, <1>9, <1>10, <1>11 DEF Grows
<1>13. Locked \subseteq DOMAIN rows
  BY OpTypes DEF Locked, DraftOK
<1>14. \A i \in Locked : rows'[i].state = rows[i].state
  BY <1>1, <1>7, <1>9, <1>13
<1>15. total' \in Nat /\ changes' \in 0 .. MaxChanges
  BY <1>2 DEF IInv, TypeOK
<1> QED
  BY <1>2, <1>12, <1>14, <1>15, EnvironmentChange

LEMMA StillGrows ==
  ASSUME IInv, UNCHANGED rows
  PROVE  Grows /\ \A i \in Locked : rows'[i].state = rows[i].state
<1>1. IsMap(rows, Row) /\ \A i \in DOMAIN rows : rows[i].stamp \in Nat
  BY DEF IInv, TypeOK, IsMap, Row
<1> QED
  BY <1>1 DEF Grows

LEMMA WriterAbortsStep ==
  ASSUME IInv, WriterAborts \/ WriteElsewhere
  PROVE  IInv'
<1>1. /\ UNCHANGED <<rows, plans, consumed, runs, lock, op, attempts>>
      /\ writer' \subseteq writer
  BY DEF WriterAborts, WriteElsewhere, ledgerVars, operatorVars
<1>2. total' \in Nat /\ changes' \in 0 .. MaxChanges
  BY RemediationAssumption DEF WriterAborts, WriteElsewhere, IInv, TypeOK
<1> QED
  BY <1>1, <1>2, StillGrows, EnvironmentChange

LEMMA SnapshotType ==
  ASSUME IInv
  PROVE  /\ IsMap(Snapshot, Row)
         /\ DOMAIN Snapshot \subseteq DOMAIN rows
         /\ \A i \in DOMAIN Snapshot : Snapshot[i] = rows[i]
<1>1. IsMap(rows, Row)
  BY DEF IInv, TypeOK
<1> QED
  BY <1>1 DEF Snapshot, Live, IsMap

LEMMA WriterReadsStep ==
  ASSUME IInv, NEW f \in Catalogue, WriterReads(f)
  PROVE  IInv'
<1>1. /\ writer' = {[fact |-> f, lane |-> Snapshot]}
      /\ changes < MaxChanges /\ changes' = changes + 1
      /\ UNCHANGED <<rows, total, plans, consumed, runs, lock, op, attempts>>
  BY DEF WriterReads, ledgerVars, operatorVars
<1>2. f \in Fact
  BY RemediationAssumption
<1>3. \A w \in writer' : /\ w.fact \in Fact /\ IsMap(w.lane, Row)
                         /\ DOMAIN w.lane \subseteq DOMAIN rows'
  BY <1>1, <1>2, SnapshotType
<1>4. \A q \in Operator : IsOperation(op[q])' /\ DraftOK(op[q])'
  <2> SUFFICES ASSUME NEW q \in Operator PROVE IsOperation(op[q])' /\ DraftOK(op[q])'
    OBVIOUS
  <2>1. IsOperation(op[q]) /\ DraftOK(op[q])
    BY OpTypes
  <2>2. IsOperation(op[q])'
    BY <1>1, <2>1 DEF IsOperation
  <2>3. DraftOK(op[q])'
    BY <1>1, <2>1 DEF DraftOK, StatesOf, Superseded
  <2> QED
    BY <2>2, <2>3
<1>5. TypeOK'
  <2>1. changes' \in 0 .. MaxChanges
    BY <1>1, RemediationAssumption DEF IInv, TypeOK
  <2> QED
    BY <1>1, <1>3, <1>4, <2>1 DEF IInv, TypeOK, IsRun
<1>6. LockHeld' /\ Drafts'
  BY <1>1, <1>4 DEF IInv, LockHeld, Drafts
<1>7. RunsOK' /\ PlansOK' /\ ConsumedOK' /\ SupersededOnce'
  <2>1. RunsOK'
    BY <1>1 DEF IInv, RunsOK, Succeeded
  <2>2. PlansOK'
    BY <1>1 DEF IInv, PlansOK
  <2>3. ConsumedOK'
    BY <1>1 DEF IInv, ConsumedOK
  <2>4. SupersededOnce'
    BY <1>1 DEF IInv, SupersededOnce
  <2> QED
    BY <2>1, <2>2, <2>3, <2>4
<1>8. ReadersOK'
  BY <1>3 DEF ReadersOK
<1> QED
  BY <1>5, <1>6, <1>7, <1>8 DEF IInv

LEMMA SealStep ==
  ASSUME IInv, Seal
  PROVE  IInv'
<1> DEFINE p == PlanOf(Snapshot, total)
<1>1. /\ ~Sound(rows) /\ plans' = plans \cup {p}
      /\ UNCHANGED <<rows, total, consumed, runs, lock, op, attempts, writer, changes>>
  BY DEF Seal, ledgerVars, operatorVars, envVars
<1>2. IsPlan(p) /\ p.seen = Snapshot
  BY SnapshotType, PlanType DEF IInv, TypeOK
<1>3. ~Sound(Snapshot)
  <2> HIDE DEF p
  <2>1. Live(Snapshot) = Live(rows) /\ \A i \in Live(rows) : Snapshot[i] = rows[i]
    BY DEF Snapshot, Live
  <2>2. Sound(Snapshot) => Sound(rows)
    BY <2>1, ZenonT(60) DEF Sound
  <2>3. ~Sound(rows)
    BY DEF Seal
  <2> QED
    BY <2>2, <2>3, Zenon
<1> HIDE DEF p
<1>4. \A q \in Operator : IsOperation(op[q])' /\ DraftOK(op[q])'
  <2> SUFFICES ASSUME NEW q \in Operator PROVE IsOperation(op[q])' /\ DraftOK(op[q])'
    OBVIOUS
  <2>1. IsOperation(op[q])'
    BY <1>1, OpTypes DEF IsOperation
  <2>2. DraftOK(op[q])'
    BY <1>1, OpTypes DEF DraftOK, StatesOf, Superseded
  <2> QED
    BY <2>1, <2>2
<1>5. TypeOK'
  <2>1. \A x \in plans' : IsPlan(x)
    BY <1>1, <1>2 DEF IInv, TypeOK
  <2>2. \A k \in DOMAIN runs' : IsRun(runs[k])'
    BY <1>1 DEF IInv, TypeOK, IsRun
  <2> QED
    BY <1>1, <1>4, <2>1, <2>2 DEF IInv, TypeOK
<1>6. LockHeld' /\ Drafts'
  BY <1>1, <1>4 DEF IInv, LockHeld, Drafts
<1>7. RunsOK' /\ ConsumedOK' /\ ReadersOK' /\ SupersededOnce'
  BY <1>1 DEF IInv, RunsOK, Succeeded, ConsumedOK, ReadersOK, SupersededOnce
<1>8. PlansOK'
  <2>1. \A i \in DOMAIN p.seen :
          i \in DOMAIN rows /\ p.seen[i] = rows[i] /\ rows[i].stamp \in Nat
    BY <1>2, SnapshotType DEF IInv, TypeOK, IsMap, Row
  <2> QED
    BY <1>1, <1>2, <1>3, <2>1 DEF IInv, PlansOK
<1> QED
  BY <1>5, <1>6, <1>7, <1>8 DEF IInv

-----------------------------------------------------------------------------
(* The two commits.                                                        *)

LEMMA WithGrows ==
  ASSUME IInv, NEW S, IsMap(S, State), rows' = With(rows, S)
  PROVE  Grows
<1>1. IsMap(rows, Row) /\ \A i \in DOMAIN rows : rows[i].stamp \in Nat
  BY DEF IInv, TypeOK, IsMap, Row
<1> QED
  BY <1>1, WithType DEF Grows

(* While an operation commits, the others do not hold the lock, and they   *)
(* do not care about the rows.                                             *)
LEMMA CommitOps ==
  ASSUME IInv, NEW o \in Operator, lock = o, NEW r,
         op' = [op EXCEPT ![o] = r],
         r \in {Idle, Doing("failed", op[o].plan, 0), Doing("marking", NoPlan, op[o].run)},
         op[o].plan \in plans \/ r # Doing("failed", op[o].plan, 0),
         op[o].run # 0 \/ r # Doing("marking", NoPlan, op[o].run),
         UNCHANGED plans,
         \A k \in DOMAIN runs :
            /\ k \in DOMAIN runs'
            /\ runs'[k].plan = runs[k].plan
            /\ runs[k].status = "failed" => runs'[k].status = "failed"
  PROVE  /\ \A q \in Operator : IsOperation(op[q])'
         /\ Drafts' /\ op' = [q \in Operator |-> op'[q]]
         /\ \A q \in Operator : op'[q].pc \notin Holding
<1>1. op' = [q \in Operator |-> IF q = o THEN r ELSE op[q]]
  BY DEF IInv, TypeOK
<1>2. o # NoOne
  BY RemediationAssumption
<1>3. ASSUME NEW q \in Operator, q # o
      PROVE  IsOperation(op[q])' /\ DraftOK(op[q])' /\ op'[q].pc \notin Holding
  <2>1. op'[q] = op[q] /\ op[q].pc \notin Holding
    BY <1>1, <1>3 DEF IInv, LockHeld
  <2>2. IsOperation(op[q]) /\ DraftOK(op[q])
    BY OpTypes
  <2>3. IsOperation(op[q])'
    BY <2>1, <2>2 DEF IsOperation
  <2>4. /\ DOMAIN op[q].before = {} /\ DOMAIN op[q].after = {}
        /\ op[q].before = StatesOf({})
    BY <2>1, <2>2 DEF DraftOK, Holding
  <2>5. op[q].pc \in ApplyPc /\ op[q].run # 0 =>
          /\ op[q].run \in DOMAIN runs
          /\ runs[op[q].run].plan = op[q].plan /\ runs[op[q].run].status = "failed"
    BY <2>2 DEF IsOperation, DraftOK
  <2>6. DraftOK(op[q])'
    BY <2>1, <2>4, <2>5 DEF DraftOK, Holding, StatesOf
  <2> QED
    BY <2>1, <2>3, <2>6
<1>4. IsOperation(op[o])' /\ DraftOK(op[o])' /\ op'[o].pc \notin Holding
  <2>1. /\ op'[o] = r
        /\ r.pc \in {"idle", "failed", "marking"}
        /\ r.before = Nothing /\ r.after = Nothing /\ r.count = 0
        /\ r = [pc |-> r.pc, plan |-> r.plan, run |-> r.run,
                before |-> r.before, after |-> r.after, count |-> r.count]
        /\ r.pc = "failed" => r.plan \in plans /\ r.run = 0
        /\ r.pc = "marking" => r.run = op[o].run /\ r.run # 0 /\ r.plan = NoPlan
        /\ r.pc = "idle" => r.run = 0 /\ r.plan = NoPlan
    BY <1>1 DEF Idle, Doing, Writing
  <2>2. op[o].run \in {0} \cup DOMAIN runs
    BY OpTypes DEF IsOperation
  <2>3. IsOperation(op[o])'
    BY <2>1, <2>2, NothingType DEF IsOperation, ApplyPc, RestorePc
  <2>4. Nothing = StatesOf(DOMAIN Nothing)'
    BY DEF Nothing, StatesOf
  <2>5. DraftOK(op[o])'
    BY <2>1, <2>4, NothingType DEF DraftOK, ApplyPc
  <2> QED
    BY <2>1, <2>3, <2>5 DEF Holding
<1>5. op' = [q \in Operator |-> op'[q]]
  BY <1>1
<1> QED
  BY <1>3, <1>4, <1>5 DEF Drafts

LEMMA CommitsApplyStep ==
  ASSUME IInv, NEW o \in Operator, CommitsApply(o), Ends(o) \/ Fails(o, 0)
  PROVE  IInv'
<1> DEFINE p == op[o].plan
           b == op[o].before
           a == op[o].after
           x == NewRun(p, "applied", op[o].run, b, a, OccurrencesOf(DOMAIN b))
<1>1. /\ op[o].pc = "written"
      /\ rows' = With(rows, a)
      /\ runs' = Append(runs, x)
      /\ consumed' = consumed \cup {p}
      /\ Unlock(o)
      /\ UNCHANGED <<total, plans, attempts, writer, changes>>
  BY DEF CommitsApply, At, envVars
<1>2. lock = o /\ lock' = NoOne
  BY <1>1, UnlockType DEF Holding
<1>3. IsOperation(op[o]) /\ DraftOK(op[o])
  BY OpTypes
<1>4. /\ p \in plans /\ p \notin consumed
      /\ IsMap(b, State) /\ IsMap(a, State)
      /\ DOMAIN a = DOMAIN b /\ DOMAIN b = Planned(p) /\ DOMAIN b \subseteq DOMAIN rows
      /\ b = StatesOf(DOMAIN b)
      /\ \A i \in Planned(p) :
            a[i] = IF p.want[i] = p.seen[i].state THEN b[i] ELSE p.want[i]
      /\ op[o].run \in {0} \cup DOMAIN runs
      /\ op[o].run # 0 => /\ runs[op[o].run].status = "failed"
                          /\ runs[op[o].run].plan = p
                          /\ ~Superseded(op[o].run)
  BY <1>1, <1>3 DEF IsOperation, DraftOK, ApplyPc
<1>5. Grows
  BY <1>1, <1>4, WithGrows
<1>6. /\ x.plan = p /\ x.status = "applied" /\ x.supersedes = op[o].run
      /\ x.before = b /\ x.after = a
  BY DEF NewRun
<1>7. IsRun(x)
  <2>1. IsMap(OccurrencesOf(DOMAIN b), Nat)
    <3>1. IsMap(rows, Row)
      BY DEF IInv, TypeOK
    <3>2. \A i \in DOMAIN b : rows[i].occ \in Nat
      BY <1>4, <3>1 DEF IsMap, Row
    <3> QED
      BY <1>4, <3>2 DEF OccurrencesOf, IsMap
  <2>2. op[o].run \in Nat
    BY <1>4 DEF IInv, TypeOK
  <2> QED
    BY <1>4, <2>1, <2>2 DEF IsRun, NewRun, Status, RestoreStatus
<1> HIDE DEF x
<1>8. /\ runs' = [k \in 1 .. Len(runs') |-> runs'[k]] /\ Len(runs') \in Nat
      /\ Len(runs) \in Nat
      /\ DOMAIN runs = 1 .. Len(runs)
      /\ DOMAIN runs' = DOMAIN runs \cup {Len(runs) + 1}
      /\ \A k \in DOMAIN runs : runs'[k] = runs[k]
      /\ runs'[Len(runs) + 1] = x
      /\ SupersededOnce'
  BY <1>1, <1>4, <1>6, AppendRun
<1>9. /\ \A q \in Operator : IsOperation(op[q])'
      /\ Drafts' /\ op' = [q \in Operator |-> op'[q]]
      /\ \A q \in Operator : op'[q].pc \notin Holding
  <2> DEFINE r == IF Ends(o) THEN Idle ELSE Doing("failed", p, 0)
  <2>1. op' = [op EXCEPT ![o] = r]
    BY DEF Ends, Fails
  <2>2. r \in {Idle, Doing("failed", p, 0), Doing("marking", NoPlan, op[o].run)}
    OBVIOUS
  <2>3. r # Doing("marking", NoPlan, op[o].run)
    <3>1. r.pc # "marking" /\ Doing("marking", NoPlan, op[o].run).pc = "marking"
      BY DEF Idle, Doing, Writing
    <3> QED
      BY <3>1
  <2> HIDE DEF r
  <2> QED
    BY <1>1, <1>2, <1>4, <1>8, <2>1, <2>2, <2>3, CommitOps
<1>10. TypeOK'
  <2>1. ASSUME NEW k \in DOMAIN runs' PROVE IsRun(runs[k])'
    <3>1. IsRun(runs'[k])
      BY <1>7, <1>8 DEF IInv, TypeOK
    <3> QED
      BY <1>1, <3>1 DEF IsRun
  <2>2. consumed' \subseteq plans'
    BY <1>1, <1>4 DEF IInv, TypeOK
  <2>3. IsMap(rows', Row)
    BY <1>5 DEF Grows
  <2> QED
    BY <1>1, <1>2, <1>8, <1>9, <2>1, <2>2, <2>3 DEF IInv, TypeOK
<1>11. LockHeld'
  BY <1>9 DEF LockHeld
<1>12. RunsOK'
  <2>1. \A k \in Succeeded' : runs'[k].plan \in consumed'
    BY <1>1, <1>6, <1>8 DEF IInv, RunsOK, Succeeded
  <2>2. \A k, l \in Succeeded' : runs'[l].plan = runs'[k].plan => k = l
    <3>1. \A k \in Succeeded : runs[k].plan # p
      BY <1>4 DEF IInv, RunsOK, Succeeded
    <3> QED
      BY <1>6, <1>8, <3>1 DEF IInv, RunsOK, Succeeded
  <2>3. \A k \in DOMAIN runs' : /\ DOMAIN runs'[k].after = DOMAIN runs'[k].before
                                /\ DOMAIN runs'[k].before \subseteq DOMAIN rows'
    BY <1>4, <1>5, <1>6, <1>8, RunsKept DEF IInv, RunsOK
  <2> QED
    BY <2>1, <2>2, <2>3 DEF RunsOK
<1>13. PlansOK' /\ ReadersOK'
  BY <1>1, <1>5, PlansKept, RunsKept DEF IInv, ReadersOK
<1>14. ConsumedOK'
  <2> SUFFICES ASSUME NEW c \in consumed', Planned(c) # {}
               PROVE  \E i \in DOMAIN c.seen : c.seen[i].stamp < rows'[i].stamp
    BY DEF ConsumedOK
  <2>1. CASE c \in consumed
    BY <1>5, <2>1, PlansKept
  <2>2. CASE c = p
    <3>1. IsPlan(p) /\ ~Sound(p.seen)
      BY <1>4 DEF IInv, TypeOK, PlansOK
    <3>2. PICK i \in DOMAIN p.seen : p.want[i] # p.seen[i].state /\ i \in Planned(p)
      BY <2>2, <3>1, PlanChanges
    <3>3. /\ i \in DOMAIN rows
          /\ p.seen[i].stamp <= rows[i].stamp
          /\ p.seen[i].stamp = rows[i].stamp => p.seen[i].state = rows[i].state
      BY <1>4 DEF IInv, PlansOK
    <3>4. p.seen[i].stamp \in Nat /\ rows[i].stamp \in Nat
      BY <3>1, <3>3 DEF IInv, TypeOK, IsPlan, IsMap, Row
    <3>5. a[i] = p.want[i]
      BY <1>4, <3>2
    <3>6. rows'[i].stamp = IF a[i] # rows[i].state THEN rows[i].stamp + 1
                                                   ELSE rows[i].stamp
      <4>1. IsMap(rows, Row) /\ i \in DOMAIN a
        BY <1>4, <3>2 DEF IInv, TypeOK
      <4> QED
        BY <1>1, <1>4, <3>3, <4>1, WithType
    <3> QED
      BY <2>2, <3>2, <3>3, <3>4, <3>5, <3>6
  <2> QED
    BY <1>1, <2>1, <2>2
<1> QED
  BY <1>8, <1>9, <1>10, <1>11, <1>12, <1>13, <1>14 DEF IInv

LEMMA CommitsRestoreStep ==
  ASSUME IInv, NEW o \in Operator, CommitsRestore(o), Ends(o) \/ Drifts(o)
  PROVE  IInv'
<1> DEFINE m == op[o].run
           a == op[o].after
           y == [runs[m] EXCEPT !.status = "rolled_back", !.restore = "restored"]
<1>1. /\ op[o].pc = "undone"
      /\ rows' = With(rows, a)
      /\ runs' = [runs EXCEPT ![m] = y]
      /\ Unlock(o)
      /\ UNCHANGED <<total, plans, consumed, attempts, writer, changes>>
  BY DEF CommitsRestore, At, envVars
<1>2. lock = o /\ lock' = NoOne
  BY <1>1, UnlockType DEF Holding
<1>3. IsOperation(op[o]) /\ DraftOK(op[o])
  BY OpTypes
<1>4. m \in DOMAIN runs /\ m # 0 /\ IsMap(a, State) /\ runs[m].status = "applied"
  BY <1>1, <1>3 DEF IsOperation, RestorePc, DraftOK
<1>5. Grows
  BY <1>1, <1>4, WithGrows
<1>6. runs = [k \in 1 .. Len(runs) |-> runs[k]] /\ Len(runs) \in Nat
  BY DEF IInv, TypeOK
<1>7. \A k \in DOMAIN runs : IsRun(runs[k])
  BY DEF IInv, TypeOK
<1>8. /\ IsRun(y) /\ y.plan = runs[m].plan /\ y.status = "rolled_back"
      /\ y.before = runs[m].before /\ y.after = runs[m].after
      /\ y.supersedes = runs[m].supersedes
  <2> DEFINE z == [runs[m] EXCEPT !.status = "rolled_back"]
  <2>1. IsRun(runs[m])
    BY <1>4, <1>7
  <2>2. y = [z EXCEPT !.restore = "restored"]
    <3> DEFINE x == runs[m]
    <3> HIDE DEF x
    <3>1. [x EXCEPT !.status = "rolled_back", !.restore = "restored"]
             = [[x EXCEPT !.status = "rolled_back"] EXCEPT !.restore = "restored"]
      OBVIOUS
    <3> QED
      BY <3>1 DEF x
  <2>3. /\ IsRun(z) /\ z.plan = runs[m].plan /\ z.status = "rolled_back"
        /\ z.before = runs[m].before /\ z.after = runs[m].after
        /\ z.supersedes = runs[m].supersedes
    <3> DEFINE x == runs[m]
    <3> HIDE DEF x
    <3>1. IsRun(x) => LET v == [x EXCEPT !.status = "rolled_back"]
                      IN  /\ IsRun(v) /\ v.plan = x.plan /\ v.status = "rolled_back"
                          /\ v.before = x.before /\ v.after = x.after
                          /\ v.supersedes = x.supersedes
      BY DEF IsRun, Status
    <3> QED
      BY <2>1, <3>1 DEF x
  <2> HIDE DEF y, z
  <2> QED
    BY <2>2, <2>3 DEF IsRun, RestoreStatus
<1> HIDE DEF y
<1>9. /\ DOMAIN runs' = DOMAIN runs
      /\ \A k \in DOMAIN runs : runs'[k] = IF k = m THEN y ELSE runs[k]
  BY <1>1, <1>4, <1>6
<1>10. \A k \in DOMAIN runs :
         /\ runs'[k].plan = runs[k].plan /\ runs'[k].supersedes = runs[k].supersedes
         /\ runs'[k].before = runs[k].before /\ runs'[k].after = runs[k].after
         /\ runs'[k].status = "failed" <=> runs[k].status = "failed"
         /\ IsRun(runs'[k])
  BY <1>4, <1>7, <1>8, <1>9
<1>11. runs' = [k \in 1 .. Len(runs') |-> runs'[k]] /\ Len(runs') \in Nat
  <2>1. runs' = [k \in 1 .. Len(runs) |-> runs'[k]]
    BY <1>1, <1>6
  <2> QED
    BY <1>6, <2>1
<1>12. /\ \A q \in Operator : IsOperation(op[q])'
       /\ Drafts' /\ op' = [q \in Operator |-> op'[q]]
       /\ \A q \in Operator : op'[q].pc \notin Holding
  <2> DEFINE r == IF Ends(o) THEN Idle ELSE Doing("marking", NoPlan, m)
  <2>1. op' = [op EXCEPT ![o] = r]
    BY DEF Ends, Drifts
  <2>2. r \in {Idle, Doing("failed", op[o].plan, 0), Doing("marking", NoPlan, m)}
    OBVIOUS
  <2>3. r # Doing("failed", op[o].plan, 0)
    <3>1. r.pc # "failed" /\ Doing("failed", op[o].plan, 0).pc = "failed"
      BY DEF Idle, Doing, Writing
    <3> QED
      BY <3>1
  <2> HIDE DEF r
  <2> QED
    BY <1>1, <1>2, <1>4, <1>9, <1>10, <2>1, <2>2, <2>3, CommitOps
<1>13. TypeOK'
  <2>1. ASSUME NEW k \in DOMAIN runs' PROVE IsRun(runs[k])'
    <3>1. IsRun(runs'[k])
      BY <1>9, <1>10
    <3> QED
      BY <1>1, <3>1 DEF IsRun
  <2>2. IsMap(rows', Row)
    BY <1>5 DEF Grows
  <2> QED
    BY <1>1, <1>2, <1>11, <1>12, <2>1, <2>2 DEF IInv, TypeOK
<1>14. LockHeld'
  BY <1>12 DEF LockHeld
<1>15. RunsOK'
  <2>1. Succeeded' = Succeeded
    BY <1>9, <1>10 DEF Succeeded
  <2>2. \A k \in DOMAIN runs : DOMAIN runs'[k].before \subseteq DOMAIN rows'
    BY <1>5, <1>10, RunsKept
  <2> QED
    BY <1>1, <1>9, <1>10, <2>1, <2>2 DEF IInv, RunsOK, Succeeded
<1>16. PlansOK' /\ ConsumedOK' /\ ReadersOK'
  BY <1>1, <1>5, PlansKept, RunsKept DEF IInv, ReadersOK, ConsumedOK
<1>17. SupersededOnce'
  <2> SUFFICES ASSUME NEW k \in DOMAIN runs, NEW l \in DOMAIN runs,
                      runs[k].supersedes # 0
               PROVE  LET prev == runs[k].supersedes
                      IN /\ prev < k
                         /\ runs'[prev].status = "failed"
                         /\ runs'[prev].plan = runs'[k].plan
                         /\ runs'[l].supersedes = prev => k = l
    BY <1>9, <1>10 DEF SupersededOnce
  <2>1. /\ runs[k].supersedes < k /\ runs[runs[k].supersedes].status = "failed"
        /\ runs[runs[k].supersedes].plan = runs[k].plan
        /\ runs[l].supersedes = runs[k].supersedes => k = l
    BY DEF IInv, SupersededOnce
  <2>2. runs[k].supersedes \in DOMAIN runs
    BY <1>6, <1>7, <2>1 DEF IsRun
  <2> QED
    BY <1>10, <2>1, <2>2
<1> QED
  BY <1>12, <1>13, <1>14, <1>15, <1>16, <1>17 DEF IInv

-----------------------------------------------------------------------------
(* The invariant holds, and what it says.                                  *)

LEMMA OperatorStep ==
  ASSUME IInv, NEW o \in Operator, Work(o) \/ Accident(o)
  PROVE  IInv'
<1>1. CASE LockApply(o)
  BY <1>1, LockApplyStep
<1>2. CASE Gates(o)
  BY <1>2, GatesStep
<1>3. CASE Write(o)
  BY <1>3, WriteStep
<1>4. CASE DuplicateRun(o) \/ CountsDiffer(o) \/ CommitApplyFails(o) \/ ApplyFails(o)
  BY <1>4, ApplyStops
<1>5. CASE CommitApply(o) \/ CommitApplyUnanswered(o)
  BY <1>5, CommitsApplyStep DEF CommitApply, CommitApplyUnanswered
<1>6. CASE RecordFailed(o)
  BY <1>6, RecordFailedStep
<1>7. CASE LockRestore(o)
  BY <1>7, LockRestoreStep
<1>8. CASE CheckEvidence(o)
  BY <1>8, CheckEvidenceStep
<1>9. CASE RestoreRows(o)
  BY <1>9, RestoreRowsStep
<1>10. CASE CommitRestore(o) \/ CommitRestoreUnanswered(o)
  BY <1>10, CommitsRestoreStep DEF CommitRestore, CommitRestoreUnanswered
<1>11. CASE Mark(o)
  BY <1>11, MarkStep
<1>12. CASE WaitFails(o)
  BY <1>12, WaitFailsStep
<1>13. CASE CommitRestoreFails(o) \/ RestoreFails(o)
  BY <1>13, RestoreStops
<1>14. CASE Crash(o)
  BY <1>14, CrashStep
<1> QED
  BY <1>1, <1>2, <1>3, <1>4, <1>5, <1>6, <1>7, <1>8, <1>9, <1>10, <1>11, <1>12,
     <1>13, <1>14
  DEF Work, Apply, Restore, Accident

LEMMA StutterStep ==
  ASSUME IInv, UNCHANGED vars
  PROVE  IInv'
<1>1. /\ UNCHANGED <<rows, plans, consumed, runs, lock, op, attempts>>
      /\ UNCHANGED <<total, writer, changes>>
  BY DEF vars, envVars
<1>2. total' \in Nat /\ changes' \in 0 .. MaxChanges
  BY <1>1 DEF IInv, TypeOK
<1> QED
  BY <1>1, <1>2, StillGrows, EnvironmentChange

LEMMA NextIInv == IInv /\ [Next]_vars => IInv'
<1> SUFFICES ASSUME IInv, [Next]_vars PROVE IInv'
  OBVIOUS
<1>1. CASE Seal
  BY <1>1, SealStep
<1>2. ASSUME NEW o \in Operator, NEW p \in plans, NEW prev \in {0} \cup DOMAIN runs,
             StartApply(o, p, prev)
      PROVE  IInv'
  BY <1>2, StartApplyStep
<1>3. ASSUME NEW o \in Operator, NEW k \in DOMAIN runs, StartRestore(o, k) PROVE IInv'
  BY <1>3, StartRestoreStep
<1>4. ASSUME NEW o \in Operator, Work(o) \/ Accident(o) PROVE IInv'
  BY <1>4, OperatorStep
<1>5. CASE Environment
  <2>1. ASSUME NEW f \in Catalogue, WriterReads(f) PROVE IInv'
    BY <2>1, WriterReadsStep
  <2>2. ASSUME NEW orphans \in BOOLEAN, RollbackStaging(orphans) PROVE IInv'
    BY <2>2, RollbackStep
  <2> QED
    BY <1>5, <2>1, <2>2, WriterConfirmsStep, WriterInsertsStep, WriterAbortsStep
    DEF Environment
<1>6. CASE UNCHANGED vars
  BY <1>6, StutterStep
<1> QED
  BY <1>1, <1>2, <1>3, <1>4, <1>5, <1>6 DEF Next

THEOREM Invariant == Spec => []IInv
BY InitIInv, NextIInv, PTL DEF Spec

(* The operations leave the rows, the runs and themselves well formed:     *)
(* an operation names a plan that was sealed and a run that exists.        *)
THEOREM TypeCorrect == Spec => []TypeOK
<1>1. IInv => TypeOK
  BY DEF IInv
<1> QED
  BY <1>1, Invariant, PTL

(* An applied plan that had rows to change is never sealed again, whatever *)
(* was undone or rolled back since (HistoryRemediationPlanConsumption).    *)
THEOREM ConsumedPlansAreStale == Spec => []ConsumedPlanIsStale
<1>1. IInv => ConsumedPlanIsStale
  <2> SUFFICES ASSUME IInv, NEW p \in consumed, Planned(p) # {}, p.seen = Snapshot
               PROVE  FALSE
    BY DEF ConsumedPlanIsStale
  <2>1. PICK i \in DOMAIN p.seen : p.seen[i].stamp < rows[i].stamp
    BY DEF IInv, ConsumedOK
  <2>2. p.seen[i] = rows[i] /\ i \in DOMAIN rows
    BY SnapshotType
  <2>3. rows[i].stamp \in Nat
    BY <2>2 DEF IInv, TypeOK, IsMap, Row
  <2> QED
    BY <2>1, <2>2, <2>3
<1> QED
  BY <1>1, Invariant, PTL

(* Of the retries of a failed run, which are checked before the lock, one  *)
(* at most is recorded (history_remediation_run.supersedes_run_id).        *)
THEOREM RunsSupersededOnce == Spec => []SupersededOnce
<1>1. IInv => SupersededOnce
  BY DEF IInv
<1> QED
  BY <1>1, Invariant, PTL

-----------------------------------------------------------------------------
(* The runs are the ledger.                                                *)

LEMMA ApplyEnters ==
  ASSUME IInv, IInv', NEW o \in Operator, CommitsApply(o)
  PROVE  Ledger!Apply
<1> DEFINE p == op[o].plan
           b == op[o].before
           a == op[o].after
           x == NewRun(p, "applied", op[o].run, b, a, OccurrencesOf(DOMAIN b))
           e == Entry(x)
<1>1. op[o].pc = "written" /\ rows' = With(rows, a) /\ runs' = Append(runs, x)
  BY DEF CommitsApply, At
<1>2. /\ IsMap(a, State) /\ a = [i \in DOMAIN b |-> a[i]]
      /\ DOMAIN a = DOMAIN b /\ DOMAIN b \subseteq DOMAIN rows
      /\ b = StatesOf(DOMAIN b) /\ p \notin consumed
  BY <1>1, OpTypes DEF IsOperation, DraftOK, IsMap
<1>3. /\ IsMap(rows, Row) /\ DOMAIN rows' = DOMAIN rows
      /\ \A i \in DOMAIN rows :
            rows'[i].state = IF i \in DOMAIN a THEN a[i] ELSE rows[i].state
  BY <1>1, <1>2, WithType DEF IInv, TypeOK
<1>4. x.plan = p /\ x.status = "applied" /\ x.before = b /\ x.after = a
  BY DEF NewRun
<1> HIDE DEF x
<1>5. e.plan = p /\ e.phase = "applied" /\ e.before = b /\ e.after = a
  BY <1>4 DEF Entry
<1>6. /\ DOMAIN runs' = DOMAIN runs \cup {Len(runs) + 1}
      /\ Len(runs) + 1 \notin DOMAIN runs
      /\ \A k \in DOMAIN runs : runs'[k] = runs[k]
      /\ runs'[Len(runs) + 1] = x
  BY <1>1, AppendShape DEF IInv, TypeOK
<1>7. Succeeded' = Succeeded \cup {Len(runs) + 1}
  BY <1>4, <1>6 DEF Succeeded
<1>8. Entries' = Entries \cup {e}
  BY <1>6, <1>7 DEF Entries, Succeeded, Entry
<1>9. \A f \in Entries : f.plan # p
  BY <1>2 DEF Entries, Succeeded, Entry, IInv, RunsOK
<1> HIDE DEF e
<1>10. e \in Entries' \ Entries
  BY <1>5, <1>8, <1>9
<1>11. /\ DOMAIN RowStates = DOMAIN rows /\ DOMAIN RowStates' = DOMAIN rows
       /\ \A i \in DOMAIN rows : /\ RowStates[i] = rows[i].state
                                 /\ RowStates'[i] = rows'[i].state
  BY <1>3 DEF RowStates, StatesOf
<1>12. e.before = [i \in DOMAIN e.before |-> RowStates[i]]
  BY <1>2, <1>5, <1>11 DEF StatesOf
<1>13. e.after = [i \in DOMAIN e.before |-> RowStates'[i]]
  <2>1. \A i \in DOMAIN b : RowStates'[i] = a[i]
    BY <1>2, <1>3, <1>11
  <2> QED
    BY <1>2, <1>5, <2>1
<1>14. \A i \in DOMAIN RowStates \ DOMAIN e.before : RowStates'[i] = RowStates[i]
  BY <1>2, <1>3, <1>5, <1>11
<1>15. /\ DOMAIN e.before \subseteq DOMAIN RowStates
       /\ DOMAIN RowStates' = DOMAIN RowStates
       /\ e.phase = "applied" /\ \A f \in Entries : f.plan # e.plan
  BY <1>2, <1>5, <1>9, <1>11
<1> HIDE DEF p, a, b
<1> QED
  BY <1>8, <1>10, <1>12, <1>13, <1>14, <1>15 DEF Ledger!Apply, Ledger!Only

LEMMA RestoreReverses ==
  ASSUME IInv, IInv', NEW o \in Operator, CommitsRestore(o)
  PROVE  Ledger!Restore
<1> DEFINE m == op[o].run
           a == op[o].after
           e == Entry(runs[m])
           y == [runs[m] EXCEPT !.status = "rolled_back", !.restore = "restored"]
           g == [e EXCEPT !.phase = "restored"]
<1>1. op[o].pc = "undone" /\ rows' = With(rows, a) /\ runs' = [runs EXCEPT ![m] = y]
  BY DEF CommitsRestore, At
<1>2. /\ m \in DOMAIN runs /\ runs[m].status = "applied" /\ IsMap(a, State)
      /\ op[o].before = runs[m].after /\ a = runs[m].before
      /\ DOMAIN a = DOMAIN op[o].before
      /\ op[o].before = StatesOf(DOMAIN op[o].before)
      /\ DOMAIN a \subseteq DOMAIN rows
  BY <1>1, OpTypes DEF IsOperation, DraftOK, RestorePc
<1>3. /\ DOMAIN rows' = DOMAIN rows
      /\ \A i \in DOMAIN rows :
            rows'[i].state = IF i \in DOMAIN a THEN a[i] ELSE rows[i].state
  BY <1>1, <1>2, WithType DEF IInv, TypeOK
<1>4. IsRun(runs[m]) /\ runs = [k \in 1 .. Len(runs) |-> runs[k]]
  BY <1>2 DEF IInv, TypeOK
<1>5. y.plan = runs[m].plan /\ y.status = "rolled_back"
      /\ y.before = runs[m].before /\ y.after = runs[m].after
  BY <1>4 DEF IsRun
<1> HIDE DEF y
<1>6. /\ DOMAIN runs' = DOMAIN runs
      /\ \A k \in DOMAIN runs : runs'[k] = IF k = m THEN y ELSE runs[k]
  BY <1>1, <1>2, <1>4
<1>7. Succeeded' = Succeeded /\ m \in Succeeded
  BY <1>2, <1>5, <1>6 DEF Succeeded
<1>8. e = [plan |-> runs[m].plan, phase |-> "applied",
           before |-> a, after |-> runs[m].after]
  BY <1>2 DEF Entry
<1>9. g = [plan |-> runs[m].plan, phase |-> "restored",
           before |-> a, after |-> runs[m].after]
  BY <1>8
<1>10. Entry(y) = g
  BY <1>2, <1>5, <1>9 DEF Entry
<1>11. \A k \in Succeeded : Entry(runs[k]) = e => k = m
  <2>1. \A k \in Succeeded : Entry(runs[k]).plan = runs[k].plan
    BY DEF Entry
  <2>2. e.plan = runs[m].plan
    BY <1>8
  <2>3. \A k, l \in Succeeded : runs[k].plan = runs[l].plan => k = l
    BY DEF IInv, RunsOK, Succeeded
  <2> HIDE DEF e
  <2> QED
    BY <1>7, <2>1, <2>2, <2>3
<1> HIDE DEF e, g
<1>12. e \in Entries
  BY <1>7 DEF Entries, e
<1>13. Entries' = (Entries \ {e}) \cup {g}
  <2>1. Entries' = {Entry(runs'[k]) : k \in Succeeded}
    BY <1>7 DEF Entries, Entry
  <2>2. \A k \in Succeeded \ {m} : runs'[k] = runs[k] /\ Entry(runs[k]) # e
    BY <1>6, <1>11 DEF Succeeded
  <2>3. Entry(runs'[m]) = g
    BY <1>2, <1>6, <1>10
  <2>4. Entry(runs[m]) = e
    BY DEF e
  <2> QED
    BY <1>7, <2>1, <2>2, <2>3, <2>4 DEF Entries
<1>14. /\ DOMAIN RowStates = DOMAIN rows /\ DOMAIN RowStates' = DOMAIN rows
       /\ \A i \in DOMAIN rows : /\ RowStates[i] = rows[i].state
                                 /\ RowStates'[i] = rows'[i].state
       /\ RowStates' = [i \in DOMAIN rows |-> rows'[i].state]
  BY <1>3 DEF RowStates, StatesOf
<1>15. e.phase = "applied" /\ e.before = a /\ e.after = op[o].before
  BY <1>2, <1>8
<1>16. e.after = [i \in DOMAIN e.before |-> RowStates[i]]
  BY <1>2, <1>14, <1>15 DEF StatesOf
<1>17. RowStates' = [i \in DOMAIN RowStates |->
                       IF i \in DOMAIN e.before THEN e.before[i] ELSE RowStates[i]]
  BY <1>3, <1>14, <1>15
<1> QED
  BY <1>12, <1>13, <1>15, <1>16, <1>17 DEF Ledger!Restore, Ledger!Only, g

(* The runs that are not failures stay as they are.                        *)
LEMMA EntriesKept ==
  ASSUME IInv, \/ UNCHANGED runs
               \/ \E p, prev : runs' = Append(runs, FailedRun(p, prev))
               \/ \E k \in DOMAIN runs : runs' = [runs EXCEPT ![k].restore = "manual"]
  PROVE  UNCHANGED Entries
<1>1. runs = [k \in 1 .. Len(runs) |-> runs[k]] /\ Len(runs) \in Nat
      /\ \A k \in DOMAIN runs : IsRun(runs[k])
  BY DEF IInv, TypeOK
<1>2. CASE UNCHANGED runs
  BY <1>2 DEF Entries, Succeeded, Entry
<1>3. ASSUME NEW p, NEW prev, runs' = Append(runs, FailedRun(p, prev))
      PROVE  UNCHANGED Entries
  <2> DEFINE x == FailedRun(p, prev)
  <2>1. /\ DOMAIN runs' = DOMAIN runs \cup {Len(runs) + 1}
        /\ \A k \in DOMAIN runs : runs'[k] = runs[k]
        /\ runs'[Len(runs) + 1].status = "failed"
    <3>1. x.status = "failed"
      BY DEF FailedRun, NewRun
    <3> HIDE DEF x
    <3>2. /\ DOMAIN Append(runs, x) = 1 .. Len(runs) + 1 /\ DOMAIN runs = 1 .. Len(runs)
          /\ \A k \in 1 .. Len(runs) : Append(runs, x)[k] = runs[k]
          /\ Append(runs, x)[Len(runs) + 1] = x
      BY <1>1, AppendShape
    <3>3. runs' = Append(runs, x)
      BY <1>3 DEF x
    <3>4. 1 .. Len(runs) + 1 = (1 .. Len(runs)) \cup {Len(runs) + 1}
      BY <1>1
    <3> QED
      BY <3>1, <3>2, <3>3, <3>4
  <2> HIDE DEF x
  <2>2. Succeeded' = Succeeded
    BY <2>1 DEF Succeeded
  <2> QED
    BY <2>1, <2>2 DEF Entries, Succeeded, Entry
<1>4. ASSUME NEW m \in DOMAIN runs, runs' = [runs EXCEPT ![m].restore = "manual"]
      PROVE  UNCHANGED Entries
  <2>1. /\ DOMAIN runs' = DOMAIN runs
        /\ \A k \in DOMAIN runs :
              runs'[k] = IF k = m THEN [runs[m] EXCEPT !.restore = "manual"] ELSE runs[k]
    BY <1>1, <1>4
  <2>2. \A k \in DOMAIN runs :
           /\ runs'[k].plan = runs[k].plan /\ runs'[k].status = runs[k].status
           /\ runs'[k].before = runs[k].before /\ runs'[k].after = runs[k].after
    <3> SUFFICES ASSUME NEW k \in DOMAIN runs
                 PROVE  /\ runs'[k].plan = runs[k].plan /\ runs'[k].status = runs[k].status
                        /\ runs'[k].before = runs[k].before /\ runs'[k].after = runs[k].after
      OBVIOUS
    <3> DEFINE x == runs[k]
               y == runs'[k]
    <3>1. IsRun(x) /\ (y = x \/ y = [x EXCEPT !.restore = "manual"])
      BY <1>1, <2>1
    <3>2. x = [plan |-> x.plan, status |-> x.status, restore |-> x.restore,
               supersedes |-> x.supersedes, before |-> x.before, after |-> x.after,
               occ |-> x.occ]
      BY <3>1 DEF IsRun
    <3> HIDE DEF x, y
    <3>3. y.plan = x.plan /\ y.status = x.status /\ y.before = x.before /\ y.after = x.after
      BY <3>1, <3>2
    <3> QED
      BY <3>3 DEF x, y
  <2>3. Succeeded' = Succeeded
    BY <2>1, <2>2 DEF Succeeded
  <2>4. \A k \in Succeeded : Entry(runs'[k]) = Entry(runs[k])
    <3>1. \A k \in Succeeded : k \in DOMAIN runs
      BY DEF Succeeded
    <3> QED
      BY <2>2, <3>1 DEF Entry
  <2>5. Entries' = {Entry(runs'[k]) : k \in Succeeded}
    BY <2>3 DEF Entries, Entry
  <2>6. {Entry(runs'[k]) : k \in Succeeded} = {Entry(runs[k]) : k \in Succeeded}
    <3>1. ASSUME NEW k \in Succeeded
          PROVE  /\ Entry(runs'[k]) \in {Entry(runs[l]) : l \in Succeeded}
                 /\ Entry(runs[k]) \in {Entry(runs'[l]) : l \in Succeeded}
      <4>1. Entry(runs'[k]) = Entry(runs[k])
        BY <2>4
      <4> QED
        BY <4>1
    <3> QED
      BY <3>1
  <2> QED
    BY <2>5, <2>6, Zenon DEF Entries
<1> QED
  BY <1>2, <1>3, <1>4

LEMMA LedgerStep ==
  IInv /\ IInv' /\ [Next]_vars => [Ledger!Next]_<<RowStates, Entries>>
<1> SUFFICES ASSUME IInv, IInv', [Next]_vars PROVE [Ledger!Next]_<<RowStates, Entries>>
  OBVIOUS
<1>1. ASSUME NEW o \in Operator, CommitsApply(o) PROVE Ledger!Next
  BY <1>1, ApplyEnters DEF Ledger!Next
<1>2. ASSUME NEW o \in Operator, CommitsRestore(o) PROVE Ledger!Next
  BY <1>2, RestoreReverses DEF Ledger!Next
<1>3. ASSUME UNCHANGED <<rows, runs>> PROVE UNCHANGED <<RowStates, Entries>>
  BY <1>3, EntriesKept DEF RowStates, StatesOf
<1>4. ASSUME NEW o \in Operator, RecordFailed(o) PROVE UNCHANGED <<RowStates, Entries>>
  BY <1>4, EntriesKept DEF RecordFailed, RowStates, StatesOf
<1>5. ASSUME NEW o \in Operator, Mark(o) PROVE UNCHANGED <<RowStates, Entries>>
  <2>1. op[o].run \in DOMAIN runs
    BY <1>5, OpTypes DEF Mark, At, IsOperation, RestorePc
  <2> QED
    BY <1>5, <2>1, EntriesKept DEF Mark, RowStates, StatesOf
<1>6. CASE Environment
  <2>1. UNCHANGED runs
    BY <1>6 DEF Environment, WriterReads, WriterConfirms, WriterInserts, WriterAborts,
                WriteElsewhere, RollbackStaging, ledgerVars
  <2>2. DOMAIN rows \subseteq DOMAIN rows'
    BY <1>6 DEF Environment, WriterReads, WriterConfirms, WriterInserts, WriterAborts,
                WriteElsewhere, RollbackStaging, With, IInv, TypeOK, IsMap
  <2>3. DOMAIN RowStates = DOMAIN rows /\ DOMAIN RowStates' = DOMAIN rows'
    BY DEF RowStates, StatesOf
  <2> QED
    BY <2>1, <2>2, <2>3, EntriesKept DEF Ledger!Next, Ledger!Change
<1>7. CASE Seal \/ UNCHANGED vars
  BY <1>3, <1>7 DEF Seal, ledgerVars, vars
<1>8. ASSUME NEW o \in Operator,
             \/ \E p \in plans, prev \in {0} \cup DOMAIN runs : StartApply(o, p, prev)
             \/ \E k \in DOMAIN runs : StartRestore(o, k)
      PROVE  UNCHANGED <<rows, runs>>
  BY <1>8 DEF StartApply, StartRestore, ledgerVars
<1>9. ASSUME NEW o \in Operator, Work(o) \/ Accident(o)
      PROVE  \/ CommitsApply(o) \/ CommitsRestore(o) \/ RecordFailed(o) \/ Mark(o)
             \/ UNCHANGED <<rows, runs>>
  BY <1>9 DEF Work, Accident, Apply, Restore, LockApply, Gates, Write, DuplicateRun,
              CountsDiffer, CommitApply, LockRestore, CheckEvidence, RestoreRows,
              CommitRestore, WaitFails, ApplyFails, CommitApplyFails,
              CommitApplyUnanswered, RestoreFails, CommitRestoreFails,
              CommitRestoreUnanswered, Crash, ledgerVars
<1> QED
  BY <1>1, <1>2, <1>3, <1>4, <1>5, <1>6, <1>7, <1>8, <1>9 DEF Next

(* A plan is applied once at most, its run records what it changed and to  *)
(* what, and a restore puts back exactly that: HistoryRemediation          *)
(* implements ReversiblePlan, whatever fails or dies on the way.           *)
THEOREM LedgerImplemented == Spec => ImplementsLedger
<1>1. Init => Ledger!Init
  <2> SUFFICES ASSUME Init PROVE Ledger!Init
    OBVIOUS
  <2>1. Succeeded = {}
    BY DEF Init, Succeeded
  <2> QED
    BY <2>1 DEF Ledger!Init, Entries
<1> QED
  BY <1>1, LedgerStep, Invariant, PTL DEF Spec, ImplementsLedger, Ledger!Spec

-----------------------------------------------------------------------------
(* What an applied plan leaves.                                            *)

(* No step removes a row or rewrites its fact.                             *)
FactsStay == \A i \in DOMAIN rows : i \in DOMAIN rows' /\ rows'[i].fact = rows[i].fact

(* The rows still have the facts that a plan saw.                          *)
FactsSealed ==
    \A p \in plans : \A i \in DOMAIN p.seen :
        i \in DOMAIN rows /\ rows[i].fact = p.seen[i].fact

(* An UPDATE of the states of some rows leaves every fact.                 *)
LEMMA UpdateKeepsFacts ==
  ASSUME NEW L, IsMap(L, Row), NEW S
  PROVE  \A i \in DOMAIN L : i \in DOMAIN With(L, S) /\ With(L, S)[i].fact = L[i].fact
<1> SUFFICES ASSUME NEW i \in DOMAIN L
             PROVE  i \in DOMAIN With(L, S) /\ With(L, S)[i].fact = L[i].fact
  OBVIOUS
<1>1. L[i] \in Row
  BY DEF IsMap
<1>2. [L[i] EXCEPT !.state = S[i], !.stamp = @ + 1].fact = L[i].fact
  BY <1>1 DEF Row
<1> QED
  BY <1>2 DEF With

LEMMA InsertKeepsFacts ==
  ASSUME IInv, WriterInserts
  PROVE  FactsStay
<1> DEFINE S(w) == [i \in Touched(w) |->
                       [rows[i].state EXCEPT !.until = w.fact.at,
                                             !.disputed = @ \/ Rivals(w) # {}]]
           new(w) == [fact |-> w.fact, state |-> NewState(w), stamp |-> 0, occ |-> 1]
<1>1. PICK w \in writer, n \in Id \ DOMAIN rows :
        /\ Touched(w) \cap Locked = {}
        /\ rows' = [i \in DOMAIN rows \cup {n} |->
                       IF i = n THEN new(w) ELSE With(rows, S(w))[i]]
  BY DEF WriterInserts
<1> HIDE DEF S, new
<1>2. \A i \in DOMAIN rows : With(rows, S(w))[i].fact = rows[i].fact
  BY UpdateKeepsFacts DEF IInv, TypeOK
<1> QED
  BY <1>1, <1>2 DEF FactsStay

LEMMA RollbackKeepsFacts ==
  ASSUME IInv, NEW orphans \in BOOLEAN, RollbackStaging(orphans)
  PROVE  FactsStay
<1> DEFINE matched == IF orphans THEN Live(rows) \cap Orphan ELSE Live(rows)
           until(i) == IF rows[i].state.until = Open THEN rows[i].fact.at
                                                     ELSE rows[i].state.until
           S == [i \in matched |-> [rows[i].state EXCEPT !.rolled = TRUE, !.until = until(i)]]
<1>1. rows' = With(rows, S)
  BY DEF RollbackStaging
<1> HIDE DEF S
<1> QED
  BY <1>1, UpdateKeepsFacts DEF FactsStay, IInv, TypeOK

LEMMA StepKeepsFacts ==
  ASSUME IInv, [Next]_vars
  PROVE  FactsStay
<1>1. IsMap(rows, Row)
  BY DEF IInv, TypeOK
<1>2. ASSUME UNCHANGED rows PROVE FactsStay
  BY <1>2 DEF FactsStay
<1>3. ASSUME NEW S, rows' = With(rows, S) PROVE FactsStay
  BY <1>1, <1>3, UpdateKeepsFacts DEF FactsStay
<1>4. CASE WriterConfirms
  <2>1. PICK i : rows' = [rows EXCEPT ![i].occ = @ + 1]
    BY <1>4 DEF WriterConfirms
  <2> SUFFICES ASSUME NEW j \in DOMAIN rows
               PROVE  j \in DOMAIN rows' /\ rows'[j].fact = rows[j].fact
    BY DEF FactsStay
  <2>2. rows[j] \in Row
    BY <1>1 DEF IsMap
  <2>3. [rows[j] EXCEPT !.occ = @ + 1].fact = rows[j].fact
    BY <2>2 DEF Row
  <2> QED
    BY <2>1, <2>3
<1>5. CASE WriterInserts
  BY <1>5, InsertKeepsFacts
<1>6. ASSUME NEW b \in BOOLEAN, RollbackStaging(b) PROVE FactsStay
  BY <1>6, RollbackKeepsFacts
<1>7. CASE Environment
  BY <1>2, <1>4, <1>5, <1>6, <1>7
  DEF Environment, WriterReads, WriterAborts, WriteElsewhere
<1>8. ASSUME NEW o \in Operator, Work(o) \/ Accident(o)
      PROVE  rows' = rows \/ rows' = With(rows, op[o].after)
  BY <1>8 DEF Work, Accident, Apply, Restore, LockApply, Gates, Write, DuplicateRun,
              CountsDiffer, CommitApply, LockRestore, CheckEvidence, RestoreRows,
              CommitRestore, WaitFails, ApplyFails, CommitApplyFails,
              CommitApplyUnanswered, RestoreFails, CommitRestoreFails,
              CommitRestoreUnanswered, Crash, CommitsApply, CommitsRestore,
              RecordFailed, Mark
<1>9. ASSUME \/ Seal \/ UNCHANGED vars
             \/ \E o \in Operator :
                  \/ \E p \in plans, prev \in {0} \cup DOMAIN runs : StartApply(o, p, prev)
                  \/ \E k \in DOMAIN runs : StartRestore(o, k)
      PROVE  UNCHANGED rows
  BY <1>9 DEF Seal, StartApply, StartRestore, vars
<1> QED
  BY <1>2, <1>3, <1>7, <1>8, <1>9 DEF Next

(* Only a seal adds a plan, and only an apply consumes one.                *)
LEMMA PlansComeAndGo ==
  ASSUME [Next]_vars
  PROVE  /\ plans' = plans \/ plans' = plans \cup {PlanOf(Snapshot, total)}
         /\ consumed' = consumed \/ \E o \in Operator : CommitsApply(o)
<1>1. CASE Environment
  BY <1>1 DEF Environment, WriterReads, WriterConfirms, WriterInserts, WriterAborts,
              WriteElsewhere, RollbackStaging, ledgerVars
<1>2. CASE Seal \/ UNCHANGED vars
  BY <1>2 DEF Seal, ledgerVars, vars
<1>3. ASSUME \E o \in Operator :
                \/ \E p \in plans, prev \in {0} \cup DOMAIN runs : StartApply(o, p, prev)
                \/ \E k \in DOMAIN runs : StartRestore(o, k)
      PROVE  UNCHANGED <<plans, consumed>>
  BY <1>3 DEF StartApply, StartRestore, ledgerVars
<1>4. ASSUME NEW o \in Operator, Work(o) \/ Accident(o)
      PROVE  plans' = plans /\ (consumed' = consumed \/ CommitsApply(o))
  <2>1. CASE Apply(o)
    BY <2>1 DEF Apply, LockApply, Gates, Write, DuplicateRun, CountsDiffer, CommitApply,
                CommitsApply, RecordFailed, ledgerVars
  <2>2. CASE Restore(o)
    BY <2>2 DEF Restore, LockRestore, CheckEvidence, RestoreRows, CommitRestore,
                CommitsRestore, Mark, ledgerVars
  <2>3. CASE WaitFails(o)
    BY <2>3 DEF WaitFails, ledgerVars
  <2>4. CASE Accident(o)
    BY <2>4 DEF Accident, ApplyFails, CommitApplyFails, CommitApplyUnanswered,
                CommitsApply, RestoreFails, CommitRestoreFails, CommitRestoreUnanswered,
                CommitsRestore, Crash, ledgerVars
  <2> QED
    BY <1>4, <2>1, <2>2, <2>3, <2>4 DEF Work
<1> QED
  BY <1>1, <1>2, <1>3, <1>4 DEF Next

(* The rows of the lane keep the facts that the plans saw.                 *)
LEMMA SealedFacts == Spec => []FactsSealed
<1>1. Init => FactsSealed
  BY DEF Init, FactsSealed
<1>2. ASSUME IInv, FactsSealed, [Next]_vars PROVE FactsSealed'
  <2>1. plans' = plans \/ plans' = plans \cup {PlanOf(Snapshot, total)}
    BY <1>2, PlansComeAndGo
  <2>2. PlanOf(Snapshot, total).seen = Snapshot
    BY DEF PlanOf
  <2>3. \A i \in DOMAIN Snapshot : i \in DOMAIN rows /\ Snapshot[i] = rows[i]
    BY <1>2, SnapshotType
  <2>4. \A p \in plans' : \A i \in DOMAIN p.seen :
           i \in DOMAIN rows /\ rows[i].fact = p.seen[i].fact
    BY <1>2, <2>1, <2>2, <2>3 DEF FactsSealed
  <2>5. FactsStay
    BY <1>2, StepKeepsFacts
  <2> QED
    BY <2>4, <2>5 DEF FactsSealed, FactsStay
<1> QED
  BY <1>1, <1>2, Invariant, PTL DEF Spec

(* A sound lane stays sound when some of its rows are rolled back.         *)
LEMMA SoundWithoutSome ==
  ASSUME NEW L, NEW M, Sound(L),
         \A i \in Live(M) :
            i \in Live(L) /\ M[i].fact = L[i].fact /\ M[i].state = L[i].state
  PROVE  Sound(M)
<1> DEFINE activeL == {i \in Live(L) : ~L[i].state.disputed}
           disputedL == Live(L) \ activeL
           activeM == {i \in Live(M) : ~M[i].state.disputed}
           disputedM == Live(M) \ activeM
<1>1. activeM \subseteq activeL /\ disputedM \subseteq disputedL
  OBVIOUS
<1>2. \A i \in activeM \cup disputedM :
         M[i].fact = L[i].fact /\ M[i].state = L[i].state
  OBVIOUS
<1>3. /\ \A i, j \in activeL :
           /\ L[i].fact.at = L[j].fact.at => i = j
           /\ L[i].fact.at < L[j].fact.at => L[i].state.until <= L[j].fact.at
      /\ \A i \in activeL : L[i].fact.at < L[i].state.until
      /\ \A i \in disputedL : L[i].state.until = L[i].fact.at
      /\ \A i \in activeL, j \in disputedL :
           ~(L[i].fact.at < L[j].fact.at /\ L[j].fact.at < L[i].state.until)
  BY DEF Sound
<1> HIDE DEF activeL, disputedL
<1>4. /\ \A i, j \in activeM :
           /\ M[i].fact.at = M[j].fact.at => i = j
           /\ M[i].fact.at < M[j].fact.at => M[i].state.until <= M[j].fact.at
      /\ \A i \in activeM : M[i].fact.at < M[i].state.until
      /\ \A i \in disputedM : M[i].state.until = M[i].fact.at
      /\ \A i \in activeM, j \in disputedM :
           ~(M[i].fact.at < M[j].fact.at /\ M[j].fact.at < M[i].state.until)
  <2> HIDE DEF activeM, disputedM
  <2> QED
    BY <1>1, <1>2, <1>3
<1> QED
  BY <1>4 DEF Sound

LEMMA CommitRepairs ==
  ASSUME IInv, FactsSealed, NEW o \in Operator, CommitsApply(o),
         KeptAsSealed(op[o].plan)
  PROVE  Sound([i \in Planned(op[o].plan) |-> rows'[i]])
<1> DEFINE p == op[o].plan
           a == op[o].after
           b == op[o].before
           M == [i \in Planned(p) |-> rows'[i]]
<1>1. op[o].pc = "written" /\ rows' = With(rows, a)
  BY DEF CommitsApply, At
<1>2. /\ p \in plans /\ IsMap(a, State)
      /\ DOMAIN a = DOMAIN b /\ DOMAIN b = Planned(p) /\ DOMAIN b \subseteq DOMAIN rows
      /\ b = StatesOf(DOMAIN b)
      /\ \A i \in Planned(p) :
            a[i] = IF p.want[i] = p.seen[i].state THEN b[i] ELSE p.want[i]
  BY <1>1, OpTypes DEF IsOperation, DraftOK, ApplyPc
<1>3. \A i \in Planned(p) : rows'[i].fact = rows[i].fact /\ rows'[i].state = a[i]
  BY <1>1, <1>2, WithType DEF IInv, TypeOK
<1>4. IsPlan(p) /\ ~Sound(p.seen)
  BY <1>2 DEF IInv, TypeOK, PlansOK
<1>5. CASE Planned(p) = {}
  <2>1. Live(M) = {}
    BY <1>5 DEF Live
  <2> QED
    BY <2>1 DEF Sound
<1>6. CASE Planned(p) # {}
  <2>1. Planned(p) = DOMAIN p.seen /\ IsMap(p.seen, Row)
    BY <1>4, <1>6, PlanChanges, PlanShape
  <2>2. p.want = IF Excluded(p.seen) THEN Nothing
                 ELSE [i \in DOMAIN p.seen |-> Expected(p.seen, i)]
    BY <1>4 DEF IsPlan, PlanOf
  <2>3. Sound(Projected(p.seen)) /\ \A i \in Planned(p) : p.want[i] = Expected(p.seen, i)
    BY <1>6, <2>1, <2>2, NothingType DEF Planned, Excluded
  <2>4. /\ DOMAIN Projected(p.seen) = Planned(p)
        /\ \A i \in Planned(p) : /\ Projected(p.seen)[i].fact = p.seen[i].fact
                                  /\ Projected(p.seen)[i].state = p.want[i]
    BY <2>1, <2>3 DEF Projected, IsMap, Row
  <2>5. \A i \in Planned(p) : rows'[i].fact = p.seen[i].fact
    BY <1>2, <1>3, <2>1 DEF FactsSealed
  <2>6. \A i \in Planned(p) : rows'[i].state = p.want[i] \/ rows'[i].state.rolled
    <3>1. \A i \in Planned(p) : b[i] = rows[i].state
      BY <1>2 DEF StatesOf
    <3> QED
      BY <1>2, <1>3, <3>1 DEF KeptAsSealed
  <2>7. \A i \in Live(M) : /\ i \in Live(Projected(p.seen))
                            /\ M[i].fact = Projected(p.seen)[i].fact
                            /\ M[i].state = Projected(p.seen)[i].state
    BY <2>4, <2>5, <2>6 DEF Live
  <2> HIDE DEF M
  <2> QED
    BY <2>3, <2>7, SoundWithoutSome DEF M
<1> QED
  BY <1>5, <1>6

(* A plan that is applied leaves the rows it covers with the invariants of *)
(* a lane, whatever was rolled back between the gates and the row locks,   *)
(* unless a sync has changed a row that the plan leaves alone              *)
(* (execute_apply, lane_invariant_report).                                 *)
THEOREM AppliedPlansRepair == Spec => PlanRepairs
<1> DEFINE Repairs == \A p \in consumed' \ consumed :
                        KeptAsSealed(p) => Sound([i \in Planned(p) |-> rows'[i]])
<1>1. ASSUME IInv, FactsSealed, [Next]_vars PROVE Repairs
  <2>1. consumed' = consumed \/ \E o \in Operator : CommitsApply(o)
    BY <1>1, PlansComeAndGo
  <2>2. ASSUME NEW o \in Operator, CommitsApply(o) PROVE Repairs
    <3>1. consumed' \ consumed \subseteq {op[o].plan}
      BY <2>2 DEF CommitsApply
    <3> QED
      BY <1>1, <2>2, <3>1, CommitRepairs
  <2> QED
    BY <2>1, <2>2
<1>2. IInv /\ FactsSealed /\ [Next]_vars => [Repairs]_vars
  BY <1>1
<1> QED
  BY <1>2, Invariant, SealedFacts, PTL DEF Spec, PlanRepairs

=============================================================================
