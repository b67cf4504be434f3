--------------------------- MODULE PriceTimeline ---------------------------
(***************************************************************************)
(* What the staging price history promises its readers: the price of a     *)
(* lane at an instant depends on the facts recorded in the lane, and not   *)
(* on the order, the transactions or the retries that recorded them.       *)
(***************************************************************************)
EXTENDS Naturals

CONSTANTS Lane, Amount, Instant

VARIABLES
    facts,    \* the recorded prices: lane, instant of observation, amount
    current   \* what a reader is told for a lane at an instant: {} or {amount}

Fact == [lane : Lane, at : Instant, amount : Amount]

(* The facts of the latest instant observed in the lane up to s.           *)
Latest(F, l, s) ==
    {f \in F : /\ f.lane = l /\ f.at <= s
               /\ \A g \in F : g.lane = l /\ g.at <= s => g.at <= f.at}

(* One fact at that instant is the price; two contradict each other, and   *)
(* there is none until a later observation ("barrier", "blocked gap").     *)
PriceAt(F, l, s) ==
    {f.amount : f \in {f \in Latest(F, l, s) : Latest(F, l, s) = {f}}}

Timeline(F) == [l \in Lane |-> [s \in Instant |-> PriceAt(F, l, s)]]

Init == facts = {} /\ current = Timeline({})

(* A sync publishes what it recorded, all at once.                         *)
Publish ==
    \E F \in SUBSET Fact :
        /\ facts' = facts \cup F
        /\ current' = Timeline(facts')

Spec == Init /\ [][Publish]_<<facts, current>>

=============================================================================
