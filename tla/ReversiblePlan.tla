--------------------------- MODULE ReversiblePlan ---------------------------
(***************************************************************************)
(* What the remediation of the price history promises its auditors: a      *)
(* sealed plan is applied once at most, the ledger says exactly what it    *)
(* changed and to what, and undoing it is exact or does not happen.  The   *)
(* rest of the system may change the rows at any time.                     *)
(***************************************************************************)
VARIABLES
    states,   \* the state of every row, by its id
    ledger    \* what was applied: plan, phase, the states before and after

Only(D) == [i \in D |-> states[i]]

Init == ledger = {}

(* A plan changes some rows, and the ledger takes note.                    *)
Apply ==
    /\ \E e \in ledger' \ ledger :
        /\ \A f \in ledger : f.plan # e.plan
        /\ e.phase = "applied"
        /\ DOMAIN e.before \subseteq DOMAIN states
        /\ e.before = Only(DOMAIN e.before)
        /\ e.after = [i \in DOMAIN e.before |-> states'[i]]
        /\ ledger' = ledger \cup {e}
        /\ \A i \in DOMAIN states \ DOMAIN e.before : states'[i] = states[i]
    /\ DOMAIN states' = DOMAIN states

(* The rows are still as the plan left them: they are again what they      *)
(* were, and no other row is touched.                                      *)
Restore ==
    /\ \E e \in ledger :
        /\ e.phase = "applied"
        /\ e.after = Only(DOMAIN e.before)
        /\ states' = [i \in DOMAIN states |->
              IF i \in DOMAIN e.before THEN e.before[i] ELSE states[i]]
        /\ ledger' = (ledger \ {e}) \cup {[e EXCEPT !.phase = "restored"]}

(* Syncs and rollbacks; rows are never deleted.                            *)
Change ==
    /\ DOMAIN states \subseteq DOMAIN states'
    /\ UNCHANGED ledger

Next == Apply \/ Restore \/ Change

Spec == Init /\ [][Next]_<<states, ledger>>

=============================================================================
