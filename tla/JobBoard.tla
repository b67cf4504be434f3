------------------------------ MODULE JobBoard ------------------------------
(***************************************************************************)
(* What the plan queue promises whoever posts a job and polls its run: the *)
(* job is in one pair of hands at a time; those hands settle it or use up  *)
(* one of its tries; when they vanish, the job stays where it is until it  *)
(* is taken back, at the same price; after the last try it has failed; and *)
(* nothing moves a settled job.                                            *)
(***************************************************************************)
EXTENDS Naturals

CONSTANTS
    Job,
    Holder,     \* those who may take a job
    MaxTries

VARIABLES
    state,      \* job -> absent, queued, taken, completed, failed
    tries,      \* job -> its failed tries
    shown,      \* job -> what its run says to a poll
    holders     \* job -> those who have it in hand

board == <<state, tries, shown, holders>>

Init ==
    /\ state = [j \in Job |-> "absent"]
    /\ tries = [j \in Job |-> 0]
    /\ shown = [j \in Job |-> "absent"]
    /\ holders = [j \in Job |-> {}]

Post(j) ==
    /\ state[j] = "absent"
    /\ state' = [state EXCEPT ![j] = "queued"]
    /\ shown' = [shown EXCEPT ![j] = "queued"]
    /\ tries' = [tries EXCEPT ![j] = 0]
    /\ UNCHANGED holders

(* One job at a time for each holder, and one holder for each job.         *)
Take(h, j) ==
    /\ state[j] = "queued"
    /\ holders[j] = {}
    /\ \A i \in Job : h \notin holders[i]
    /\ state' = [state EXCEPT ![j] = "taken"]
    /\ holders' = [holders EXCEPT ![j] = {h}]
    /\ UNCHANGED <<tries, shown>>

InHand(h, j) == state[j] = "taken" /\ holders[j] = {h}

Settle(h, j, outcome) ==
    /\ InHand(h, j)
    /\ state' = [state EXCEPT ![j] = outcome]
    /\ shown' = [shown EXCEPT ![j] = outcome]
    /\ holders' = [holders EXCEPT ![j] = {}]
    /\ UNCHANGED tries

(* A try is used up: the jobs of J wait for the next one, if there is one. *)
UseTry(J) ==
    LET outcome(j) == IF tries[j] + 1 < MaxTries THEN "queued" ELSE "failed"
    IN /\ state' = [j \in Job |-> IF j \in J THEN outcome(j) ELSE state[j]]
       /\ shown' = [j \in Job |-> IF j \in J THEN outcome(j) ELSE shown[j]]
       /\ tries' = [j \in Job |-> IF j \in J THEN tries[j] + 1 ELSE tries[j]]

Fail(h, j) ==
    /\ InHand(h, j)
    /\ UseTry({j})
    /\ holders' = [holders EXCEPT ![j] = {}]

(* The hands are gone, the job is not.                                     *)
Vanish(h) ==
    /\ holders' = [j \in Job |-> holders[j] \ {h}]
    /\ UNCHANGED <<state, tries, shown>>

TakeBack(J) ==
    /\ \A j \in J : state[j] = "taken" /\ holders[j] = {}
    /\ UseTry(J)
    /\ UNCHANGED holders

Next ==
    \/ \E j \in Job : Post(j)
    \/ \E h \in Holder, j \in Job :
          \/ Take(h, j)
          \/ \E outcome \in {"completed", "failed"} : Settle(h, j, outcome)
          \/ Fail(h, j)
    \/ \E h \in Holder : Vanish(h)
    \/ \E J \in SUBSET Job : TakeBack(J)

Spec == Init /\ [][Next]_board

=============================================================================
