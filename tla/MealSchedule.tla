------------------------------ MODULE MealSchedule ------------------------------
(***************************************************************************)
(* cestaplan_engine/scheduling.py: the slots of a plan.  The date range is *)
(* 1 .. n.  A requirement is a record:                                     *)
(*   type, count   meal_type, requested_count                              *)
(*   selected      selected_dates, each once; some may lie outside the     *)
(*                 range                                                   *)
(*   preferred     the dates whose weekday is in preferred_days            *)
(*   auto          auto_distribute                                         *)
(*   limit         maximum_preparation_minutes; 0 is no limit              *)
(***************************************************************************)
EXTENDS Integers, Sequences, FiniteSets, SequencesExt

MealOrder == [breakfast |-> 0, lunch |-> 1, snack |-> 2, dinner |-> 3]

Requirement ==
    [type : DOMAIN MealOrder, count : Nat, selected : SUBSET Int, preferred : SUBSET Int,
     auto : BOOLEAN, limit : Nat]

(* Each date from the earliest on, and again from the earliest.            *)
Nth(dates, n) == CHOOSE d \in dates : Cardinality({e \in dates : e < d}) = n

Cycle(dates, count) == [i \in 1 .. count |-> Nth(dates, (i - 1) % Cardinality(dates))]

SpreadFromOne(n, count) ==  \* fault: index 1 .. count where the code has 0 .. count - 1
    [i \in 1 .. count |-> IF (i * n) \div count + 1 > n THEN n ELSE (i * n) \div count + 1]

Spread(n, count) == [i \in 1 .. count |-> ((i - 1) * n) \div count + 1]

PickDates(req, n) ==
    IF req.count = 0 THEN <<>>
    ELSE IF req.selected # {} THEN Cycle(req.selected, req.count)
    ELSE IF req.preferred \cap (1 .. n) # {}
         THEN Cycle(req.preferred \cap (1 .. n), req.count)
    ELSE IF req.preferred = {} /\ req.auto THEN Spread(n, req.count)
    ELSE Cycle(1 .. n, req.count)

SlotsOf(req, n) ==
    [i \in 1 .. req.count |-> [date |-> PickDates(req, n)[i], type |-> req.type,
                               limit |-> req.limit]]

Earlier(s, t) ==
    s.date < t.date \/ (s.date = t.date /\ MealOrder[s.type] < MealOrder[t.type])

(* list.sort, which is stable: of slots with one key the first stays first. *)
Precedes(s, i, j) == Earlier(s[i], s[j]) \/ (~Earlier(s[j], s[i]) /\ i < j)

Place(s, i) == Cardinality({j \in DOMAIN s : Precedes(s, j, i)}) + 1

Sorted(s) == [n \in DOMAIN s |-> s[CHOOSE i \in DOMAIN s : Place(s, i) = n]]

(* MealScheduler.schedule.                                                 *)
Schedule(requirements, n) ==
    Sorted(FlattenSeq([k \in DOMAIN requirements |-> SlotsOf(requirements[k], n)]))

=============================================================================
