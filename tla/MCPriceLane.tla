---------------------------- MODULE MCPriceLane ----------------------------
(* Small catalogues for model checking PriceLane.                          *)
EXTENDS PriceLane, TLC

CONSTANTS milk, bread,     \* lanes
          cheap, dear      \* amounts

Price(l, t, a) == [lane |-> l, at |-> t, amount |-> a]

(* A fact before a conflict, the two facts of the conflict, one after it,  *)
(* and a second lane, for transactions that hold one and want the other.   *)
Barrier ==
    {Price(milk, 1, cheap), Price(milk, 2, cheap), Price(milk, 2, dear),
     Price(milk, 3, cheap), Price(bread, 1, cheap)}

(* A conflict, and three instants: an observation that a rollback reopens, *)
(* one that it cancels, and one that a sync places after them meanwhile.   *)
Undoing ==
    {Price(milk, 1, cheap), Price(milk, 2, cheap), Price(milk, 2, dear),
     Price(milk, 3, cheap)}

(* Three instants, for an observation that arrives late.                   *)
ThreeInstants ==
    {Price(milk, 1, cheap), Price(milk, 2, dear), Price(milk, 3, cheap)}

Runs == Permutations(Discovery) \cup Permutations(Run \ Discovery)

=============================================================================
