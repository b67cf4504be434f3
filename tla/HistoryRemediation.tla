------------------------- MODULE HistoryRemediation -------------------------
(***************************************************************************)
(* The remediation of a corrupt lane of the staging price history: a       *)
(* planner seals a plan over what it reads (dry_run), operators apply it   *)
(* (execute_apply) and undo what was applied (execute_restore), while      *)
(* syncs and rollbacks go on.                                              *)
(*                                                                         *)
(* An operation is one PostgreSQL transaction at READ COMMITTED under one  *)
(* global advisory lock.  It locks the rows of the plan (SELECT FOR        *)
(* UPDATE) after the checks that compared them with the plan, and leaves   *)
(* its failures to a transaction of its own, without the lock.  Its lane   *)
(* locks have other keys than those of the writers (_lane_lock_key hashes  *)
(* the fingerprint once more), so they exclude nobody.                     *)
(*                                                                         *)
(* A plan is its content: the hash seals the rows read, their updated_at   *)
(* and occurrences, and the number of facts in the base.  The actions it   *)
(* proposes are computed from the rows (_plan_lane).  valid_until NULL is  *)
(* the instant Open; valid_from is always the instant of the fact.         *)
(***************************************************************************)
EXTENDS Naturals, Sequences, FiniteSets, FiniteSetsExt

CONSTANTS
    Operator,
    NoOne,         \* holder of the free lock
    NoPlan,        \* the plan of an operator who applies none
    NRows,         \* bound: rows of the lane
    NInstants,     \* bound: instants of observation
    Amount,
    Legacy,        \* the lanes there may be at the start
    Catalogue,     \* the facts a sync may report
    Orphan,        \* rows without a crawl run
    MaxPlans,      \* bound: plans sealed
    MaxAttempts,   \* bound: operations started
    MaxChanges     \* bound: facts recorded and rollbacks by the rest of the system

Id == 1 .. NRows
Instant == 1 .. NInstants
Open == NInstants + 1
Fact == [at : Instant, amount : Amount]
State == [until : 1 .. Open, disputed : BOOLEAN, rolled : BOOLEAN]
Row == [fact : Fact, state : State, stamp : Nat, occ : Nat]

(* Some rows of the lane, each with a value of R.                          *)
IsMap(f, R) == DOMAIN f \subseteq Id /\ f \in [DOMAIN f -> R]

ASSUME RemediationAssumption ==
    /\ NoOne \notin Operator
    /\ NRows \in Nat /\ NInstants \in Nat
    /\ \A L \in Legacy : IsMap(L, Row)
    /\ Catalogue \subseteq Fact
    /\ MaxPlans \in Nat /\ MaxAttempts \in Nat /\ MaxChanges \in Nat

VARIABLES
    rows,       \* committed price_observation rows of the lane
    total,      \* facts and occurrences inserted, in this and other lanes
    plans,      \* sealed manifests
    consumed,   \* history_remediation_plan_consumption: their plan hashes
    runs,       \* history_remediation_run with its changes, in order of id
    lock,       \* the global advisory lock
    op,         \* what each operator is doing
    writer,     \* the sync that records a fact: what it read
    attempts, changes   \* so far

ledgerVars == <<consumed, runs>>
operatorVars == <<lock, op, attempts>>
envVars == <<writer, changes>>
vars == <<rows, total, plans, consumed, runs, lock, op, attempts, envVars>>

-----------------------------------------------------------------------------
(* The lane and its planner.                                               *)

Live(L) == {i \in DOMAIN L : ~L[i].state.rolled}

(* lane_invariant_report counts nothing.                                   *)
Sound(L) ==
    LET active == {i \in Live(L) : ~L[i].state.disputed}
        disputed == Live(L) \ active
    IN /\ \A i, j \in active :
            /\ L[i].fact.at = L[j].fact.at => i = j
            /\ L[i].fact.at < L[j].fact.at => L[i].state.until <= L[j].fact.at
       /\ \A i \in active : L[i].fact.at < L[i].state.until
       /\ \A i \in disputed : L[i].state.until = L[i].fact.at
       /\ \A i \in active, j \in disputed :
            ~(L[i].fact.at < L[j].fact.at /\ L[j].fact.at < L[i].state.until)

(* _canonical_key: occurrences first, then the status, then the older row. *)
Before(L, i, j) ==
    \/ L[i].occ > L[j].occ
    \/ /\ L[i].occ = L[j].occ
       /\ ~L[i].state.disputed /\ L[j].state.disputed
    \/ /\ L[i].occ = L[j].occ
       /\ L[i].state.disputed = L[j].state.disputed
       /\ i < j

Canonical(L) ==
    {i \in DOMAIN L : \A j \in DOMAIN L \ {i} :
        L[j].fact = L[i].fact => Before(L, i, j)}

Conflicting(L) ==
    {i \in Canonical(L) : \E j \in Canonical(L) \ {i} : L[j].fact.at = L[i].fact.at}

NextAnchor(L, t) ==
    Min({L[i].fact.at : i \in {i \in Canonical(L) : L[i].fact.at > t}} \cup {Open})

(* The state a plan over L wants for row i: duplicates are rolled back,    *)
(* facts of one instant disputed, the others follow each other.            *)
Expected(L, i) ==
    [until |-> CASE i \in Conflicting(L) -> L[i].fact.at
                 [] i \in Canonical(L) \ Conflicting(L) -> NextAnchor(L, L[i].fact.at)
                 [] OTHER -> L[i].state.until,
     disputed |-> L[i].state.disputed \/ i \in Conflicting(L),
     rolled |-> i \notin Canonical(L)]

Projected(L) == [i \in DOMAIN L |-> [L[i] EXCEPT !.state = Expected(L, i)]]

(* The simulation fails: the plan names the lane but touches no row of it. *)
ExcludedNever(L) == FALSE          \* fault: the simulation is not looked at

Excluded(L) == ~Sound(Projected(L))

Nothing == [i \in {} |-> 0]

(* The manifest: the states it wants, and _actions_supported, since this   *)
(* version disputes nothing.                                               *)
PlanOf(L, n) ==
    [seen |-> L,
     want |-> IF Excluded(L) THEN Nothing ELSE [i \in DOMAIN L |-> Expected(L, i)],
     supported |-> Excluded(L) \/ Conflicting(L) = {},
     total |-> n]

Planned(p) == DOMAIN p.want

(* _load: the rows not rolled back.                                        *)
Snapshot == [i \in Live(rows) |-> rows[i]]

StatesOf(D) == [i \in D |-> rows[i].state]
OccurrencesOf(D) == [i \in D |-> rows[i].occ]

(* _drift_gates: no row of the plan has changed, nor its occurrences.      *)
AsSealed(p) == \A i \in Planned(p) : rows[i] = p.seen[i]

(* _bound_temporal over the locked row; a row to keep keeps what it has.   *)
Bound(p, i) ==
    IF p.want[i] = p.seen[i].state THEN rows[i].state ELSE p.want[i]

(* An UPDATE of the columns that differ, and of updated_at with them.      *)
WithSameStamp(L, S) ==             \* fault: an UPDATE without onupdate
    [i \in DOMAIN L |-> IF i \in DOMAIN S THEN [L[i] EXCEPT !.state = S[i]] ELSE L[i]]

With(L, S) ==
    [i \in DOMAIN L |->
        IF i \in DOMAIN S /\ S[i] # L[i].state
        THEN [L[i] EXCEPT !.state = S[i], !.stamp = @ + 1]
        ELSE L[i]]

-----------------------------------------------------------------------------
(* Runs and operations.                                                    *)

NewRun(p, status, prev, before, after, occ) ==
    [plan |-> p, status |-> status, restore |-> "none", supersedes |-> prev,
     before |-> before, after |-> after, occ |-> occ]

FailedRun(p, prev) == NewRun(p, "failed", prev, Nothing, Nothing, Nothing)

Writing(pc, plan, run, before, after, count) ==
    [pc |-> pc, plan |-> plan, run |-> run,
     before |-> before, after |-> after, count |-> count]

(* An operation that has written nothing.                                  *)
Doing(pc, plan, run) == Writing(pc, plan, run, Nothing, Nothing, 0)

Idle == Doing("idle", NoPlan, 0)

(* uq_history_remediation_run_supersedes would refuse another one.         *)
Superseded(r) == r # 0 /\ \E k \in DOMAIN runs : runs[k].supersedes = r

At(o, pc) == op[o].pc = pc
Goes(o, pc) == op' = [op EXCEPT ![o].pc = pc]
Ends(o) == op' = [op EXCEPT ![o] = Idle]

UnlockNever(o) == UNCHANGED lock   \* fault: a session-level lock

(* The transaction ends and the global lock with it.                       *)
Unlock(o) == lock' = NoOne

(* Rows that an uncommitted operation has locked.                          *)
Locked == UNION {DOMAIN op[o].before : o \in Operator}

Init ==
    /\ rows \in Legacy
    /\ total = 0
    /\ plans = {}
    /\ consumed = {}
    /\ runs = << >>
    /\ lock = NoOne
    /\ op = [o \in Operator |-> Idle]
    /\ writer = {}
    /\ attempts = 0 /\ changes = 0

(* dry_run, which plans anomalous lanes only.                              *)
Seal ==
    /\ ~Sound(rows)
    /\ Cardinality(plans) < MaxPlans
    /\ plans' = plans \cup {PlanOf(Snapshot, total)}
    /\ UNCHANGED <<rows, total, ledgerVars, operatorVars, envVars>>

-----------------------------------------------------------------------------
(* execute_apply.                                                          *)

(* _validate_retry, before the lock is taken.                              *)
StartApply(o, p, prev) ==
    /\ At(o, "idle")
    /\ attempts < MaxAttempts
    /\ prev # 0 =>
        runs[prev].plan = p /\ runs[prev].status = "failed" /\ ~Superseded(prev)
    /\ op' = [op EXCEPT ![o] = Doing("applying", p, prev)]
    /\ attempts' = attempts + 1
    /\ UNCHANGED <<rows, total, plans, ledgerVars, lock, envVars>>

(* already_applied or plan_requires_regeneration: nothing is done.         *)
LockApply(o) ==
    /\ At(o, "applying")
    /\ lock = NoOne
    /\ IF op[o].plan \in consumed
       THEN Ends(o) /\ UNCHANGED lock
       ELSE Goes(o, "gates") /\ lock' = o
    /\ UNCHANGED <<rows, total, plans, ledgerVars, attempts, envVars>>

(* lock_timeout: a failed run for an apply, an exception for a restore.    *)
WaitFails(o) ==
    /\ lock # NoOne
    /\ \/ At(o, "applying") /\ Goes(o, "failed")
       \/ At(o, "restoring") /\ Ends(o)
    /\ UNCHANGED <<rows, total, plans, ledgerVars, lock, attempts, envVars>>

(* The data transaction is rolled back; what it knew goes into the record. *)
FailsUnnamed(o, prev) ==           \* fault: the failure forgets its plan
    op' = [op EXCEPT ![o] = Doing("failed", NoPlan, prev)]

Fails(o, prev) == op' = [op EXCEPT ![o] = Doing("failed", op[o].plan, prev)]

Gates(o) ==
    /\ At(o, "gates")
    /\ IF op[o].plan.supported /\ AsSealed(op[o].plan)
       THEN Goes(o, "inserting") /\ UNCHANGED lock
       ELSE Fails(o, op[o].run) /\ Unlock(o)
    /\ UNCHANGED <<rows, total, plans, ledgerVars, attempts, envVars>>

(* The counts before, the run, the row locks and the writes.               *)
WriteSealed(o) ==                  \* fault: the plan's rows taken for the live ones
    LET p == op[o].plan
    IN /\ At(o, "inserting")
       /\ ~Superseded(op[o].run)
       /\ op' = [op EXCEPT ![o] = Writing("written", p, op[o].run,
              [i \in Planned(p) |-> p.seen[i].state],
              [i \in Planned(p) |-> Bound(p, i)], total)]
       /\ UNCHANGED <<rows, total, plans, ledgerVars, lock, attempts, envVars>>

Write(o) ==
    LET p == op[o].plan
    IN /\ At(o, "inserting")
       /\ ~Superseded(op[o].run)
       /\ op' = [op EXCEPT ![o] = Writing("written", p, op[o].run,
              StatesOf(Planned(p)), [i \in Planned(p) |-> Bound(p, i)], total)]
       /\ UNCHANGED <<rows, total, plans, ledgerVars, lock, attempts, envVars>>

(* The insertion of the run is refused: ApplyAlreadyApplied, although the  *)
(* plan was not applied, and no failed run is recorded.                    *)
DuplicateRun(o) ==
    /\ At(o, "inserting")
    /\ Superseded(op[o].run)
    /\ Ends(o) /\ Unlock(o)
    /\ UNCHANGED <<rows, total, plans, ledgerVars, attempts, envVars>>

(* _assert_counts_preserved: a fact was recorded meanwhile, in any lane.   *)
CountsDiffer(o) ==
    /\ At(o, "written")
    /\ total # op[o].count
    /\ Fails(o, op[o].run) /\ Unlock(o)
    /\ UNCHANGED <<rows, total, plans, ledgerVars, attempts, envVars>>

CommitsApply(o) ==
    /\ At(o, "written")
    /\ total = op[o].count
    /\ rows' = With(rows, op[o].after)
    /\ runs' = Append(runs,
           NewRun(op[o].plan, "applied", op[o].run, op[o].before, op[o].after,
                  OccurrencesOf(DOMAIN op[o].before)))
    /\ consumed' = consumed \cup {op[o].plan}
    /\ Unlock(o)
    /\ UNCHANGED <<total, plans, attempts, envVars>>

CommitApply(o) == CommitsApply(o) /\ Ends(o)

(* The connection is lost in the commit: done or not, it is a failure to   *)
(* execute_apply, which records it without the run it retried.             *)
CommitApplyUnanswered(o) == CommitsApply(o) /\ Fails(o, 0)

CommitApplyFails(o) ==
    /\ At(o, "written")
    /\ Fails(o, 0) /\ Unlock(o)
    /\ UNCHANGED <<rows, total, plans, ledgerVars, attempts, envVars>>

(* Any exception.                                                          *)
ApplyFails(o) ==
    /\ op[o].pc \in {"gates", "inserting", "written"}
    /\ Fails(o, op[o].run) /\ Unlock(o)
    /\ UNCHANGED <<rows, total, plans, ledgerVars, attempts, envVars>>

(* _record_failed_run.  The unique index makes it wait for an uncommitted  *)
(* retry of the same run, and refuses it after a committed one: the        *)
(* failure leaves no record.                                               *)
RecordFailedTwice(o) ==            \* fault: no unique index on supersedes_run_id
    /\ At(o, "failed")
    /\ runs' = Append(runs, FailedRun(op[o].plan, op[o].run))
    /\ Ends(o)
    /\ UNCHANGED <<rows, total, plans, consumed, lock, attempts, envVars>>

RecordFailed(o) ==
    /\ At(o, "failed")
    /\ \A q \in Operator : At(q, "written") => op[q].run = 0 \/ op[q].run # op[o].run
    /\ runs' = IF Superseded(op[o].run)
               THEN runs
               ELSE Append(runs, FailedRun(op[o].plan, op[o].run))
    /\ Ends(o)
    /\ UNCHANGED <<rows, total, plans, consumed, lock, attempts, envVars>>

-----------------------------------------------------------------------------
(* execute_restore.                                                        *)

StartRestore(o, r) ==
    /\ At(o, "idle")
    /\ attempts < MaxAttempts
    /\ op' = [op EXCEPT ![o] = Doing("restoring", NoPlan, r)]
    /\ attempts' = attempts + 1
    /\ UNCHANGED <<rows, total, plans, ledgerVars, lock, envVars>>

(* already_restored, or run_not_applied.                                   *)
LockRestore(o) ==
    /\ At(o, "restoring")
    /\ lock = NoOne
    /\ IF runs[op[o].run].restore = "restored" \/ runs[op[o].run].status # "applied"
       THEN Ends(o) /\ UNCHANGED lock
       ELSE Goes(o, "checking") /\ lock' = o
    /\ UNCHANGED <<rows, total, plans, ledgerVars, attempts, envVars>>

(* Drift: the rollback leaves the mark to another transaction.             *)
Drifts(o) == op' = [op EXCEPT ![o] = Doing("marking", NoPlan, op[o].run)]

(* _restore_evidence_gates: the rows have the occurrences they had.        *)
CheckEvidence(o) ==
    LET run == runs[op[o].run]
    IN /\ At(o, "checking")
       /\ IF OccurrencesOf(DOMAIN run.occ) = run.occ
          THEN Goes(o, "undoing") /\ UNCHANGED lock
          ELSE Drifts(o) /\ Unlock(o)
       /\ UNCHANGED <<rows, total, plans, ledgerVars, attempts, envVars>>

(* _validate_all_changes under the row locks, then the writes.             *)
RestoreRowsUnchecked(o) ==         \* fault: the rows are not compared
    LET run == runs[op[o].run]
    IN /\ At(o, "undoing")
       /\ op' = [op EXCEPT ![o] = Writing("undone", NoPlan, op[o].run,
                     StatesOf(DOMAIN run.before), run.before, 0)]
       /\ UNCHANGED <<rows, total, plans, ledgerVars, lock, attempts, envVars>>

RestoreRows(o) ==
    LET run == runs[op[o].run]
    IN /\ At(o, "undoing")
       /\ IF StatesOf(DOMAIN run.before) = run.after
          THEN /\ op' = [op EXCEPT ![o] = Writing("undone", NoPlan, op[o].run,
                                                  run.after, run.before, 0)]
               /\ UNCHANGED lock
          ELSE Drifts(o) /\ Unlock(o)
       /\ UNCHANGED <<rows, total, plans, ledgerVars, attempts, envVars>>

CommitsRestore(o) ==
    /\ At(o, "undone")
    /\ rows' = With(rows, op[o].after)
    /\ runs' = [runs EXCEPT ![op[o].run] =
                   [@ EXCEPT !.status = "rolled_back", !.restore = "restored"]]
    /\ Unlock(o)
    /\ UNCHANGED <<total, plans, consumed, attempts, envVars>>

CommitRestore(o) == CommitsRestore(o) /\ Ends(o)

(* Done or not, execute_restore asks for a manual review.                  *)
CommitRestoreUnanswered(o) == CommitsRestore(o) /\ Drifts(o)

CommitRestoreFails(o) ==
    /\ At(o, "undone")
    /\ Drifts(o) /\ Unlock(o)
    /\ UNCHANGED <<rows, total, plans, ledgerVars, attempts, envVars>>

(* A gate of the environment or any other exception leaves no mark.        *)
RestoreFails(o) ==
    /\ op[o].pc \in {"checking", "undoing", "undone"}
    /\ Ends(o) /\ Unlock(o)
    /\ UNCHANGED <<rows, total, plans, ledgerVars, attempts, envVars>>

(* _mark_manual_review, without the lock and whatever became of the run    *)
(* meanwhile.                                                              *)
Mark(o) ==
    /\ At(o, "marking")
    /\ \A q \in Operator : At(q, "undone") => op[q].run # op[o].run
    /\ runs' = [runs EXCEPT ![op[o].run].restore = "manual"]
    /\ Ends(o)
    /\ UNCHANGED <<rows, total, plans, consumed, lock, attempts, envVars>>

(* The process dies.                                                       *)
Crash(o) ==
    /\ ~At(o, "idle")
    /\ Ends(o)
    /\ IF lock = o THEN lock' = NoOne ELSE UNCHANGED lock
    /\ UNCHANGED <<rows, total, plans, ledgerVars, attempts, envVars>>

-----------------------------------------------------------------------------
(* The rest of the system: record_price_fact and the staging rollback.     *)

(* A sync has found the lane sound and decides on what it has read.        *)
WriterReads(f) ==
    /\ writer = {}
    /\ changes < MaxChanges
    /\ Sound(rows)
    /\ writer' = {[fact |-> f, lane |-> Snapshot]}
    /\ changes' = changes + 1
    /\ UNCHANGED <<rows, total, plans, ledgerVars, operatorVars>>

(* _find_existing_fact, otherwise _place_in_temporal_sequence.             *)
Same(w) == {i \in DOMAIN w.lane : w.lane[i].fact = w.fact}

Rivals(w) == {i \in DOMAIN w.lane : w.lane[i].fact.at = w.fact.at}

Predecessor(w) ==
    {i \in DOMAIN w.lane :
        /\ w.lane[i].fact.at < w.fact.at /\ ~w.lane[i].state.disputed
        /\ \A j \in DOMAIN w.lane : w.lane[j].fact.at < w.fact.at
                                        => w.lane[j].fact.at <= w.lane[i].fact.at}

(* The rows whose columns it sets: until, and disputed for rivals.         *)
Touched(w) ==
    IF Rivals(w) # {} THEN {i \in Rivals(w) : ~w.lane[i].state.disputed}
                      ELSE Predecessor(w)

NewState(w) ==
    [until |-> IF Rivals(w) # {}
               THEN w.fact.at
               ELSE Min({w.lane[i].fact.at :
                            i \in {i \in DOMAIN w.lane : w.lane[i].fact.at > w.fact.at}}
                        \cup {Open}),
     disputed |-> Rivals(w) # {}, rolled |-> FALSE]

WriterConfirms ==
    \E w \in writer : \E i \in Same(w) \ Locked :
        /\ rows' = [rows EXCEPT ![i].occ = @ + 1]
        /\ total' = total + 1
        /\ writer' = {}
        /\ UNCHANGED <<plans, ledgerVars, operatorVars, changes>>

WriterInserts ==
    \E w \in writer : \E n \in Id \ DOMAIN rows :
        /\ Same(w) = {}
        /\ Touched(w) \cap Locked = {}
        /\ \A i \in Id : i < n => i \in DOMAIN rows
        /\ LET changed == With(rows, [i \in Touched(w) |->
                   [rows[i].state EXCEPT !.until = w.fact.at,
                                         !.disputed = @ \/ Rivals(w) # {}]])
               new == [fact |-> w.fact, state |-> NewState(w), stamp |-> 0, occ |-> 1]
           IN rows' = [i \in DOMAIN rows \cup {n} |-> IF i = n THEN new ELSE changed[i]]
        /\ total' = total + 1
        /\ writer' = {}
        /\ UNCHANGED <<plans, ledgerVars, operatorVars, changes>>

WriterAborts ==
    /\ writer # {}
    /\ writer' = {}
    /\ UNCHANGED <<rows, total, plans, ledgerVars, operatorVars, changes>>

(* A fact of another lane: only the counts see it.                         *)
WriteElsewhere ==
    /\ changes < MaxChanges
    /\ changes' = changes + 1
    /\ total' = total + 1
    /\ UNCHANGED <<rows, plans, ledgerVars, operatorVars, writer>>

(* rollback_staging_observations: all rows, or those without a crawl run.  *)
RollbackStaging(orphans) ==
    LET matched == IF orphans THEN Live(rows) \cap Orphan ELSE Live(rows)
    IN /\ changes < MaxChanges
       /\ matched # {}
       /\ matched \cap Locked = {}
       /\ rows' = With(rows, [i \in matched |->
              [rows[i].state EXCEPT !.rolled = TRUE,
                                    !.until = IF @ = Open THEN rows[i].fact.at ELSE @]])
       /\ changes' = changes + 1
       /\ UNCHANGED <<total, plans, ledgerVars, operatorVars, writer>>

-----------------------------------------------------------------------------
Apply(o) ==
    \/ LockApply(o) \/ Gates(o) \/ Write(o) \/ DuplicateRun(o)
    \/ CountsDiffer(o) \/ CommitApply(o) \/ RecordFailed(o)

Restore(o) ==
    LockRestore(o) \/ CheckEvidence(o) \/ RestoreRows(o) \/ CommitRestore(o) \/ Mark(o)

(* What an operation does on its own until it ends.                        *)
Work(o) == Apply(o) \/ Restore(o) \/ WaitFails(o)

Accident(o) ==
    \/ ApplyFails(o) \/ CommitApplyFails(o) \/ CommitApplyUnanswered(o)
    \/ RestoreFails(o) \/ CommitRestoreFails(o) \/ CommitRestoreUnanswered(o)
    \/ Crash(o)

Environment ==
    \/ \E f \in Catalogue : WriterReads(f)
    \/ WriterConfirms \/ WriterInserts \/ WriterAborts \/ WriteElsewhere
    \/ \E orphans \in BOOLEAN : RollbackStaging(orphans)

Next ==
    \/ Seal
    \/ \E o \in Operator :
        \/ \E p \in plans, prev \in {0} \cup DOMAIN runs : StartApply(o, p, prev)
        \/ \E r \in DOMAIN runs : StartRestore(o, r)
        \/ Work(o) \/ Accident(o)
    \/ Environment

Spec == Init /\ [][Next]_vars

(* A process that runs goes on to its next statement.                      *)
LiveSpec == Spec /\ \A o \in Operator : WF_vars(Work(o))

-----------------------------------------------------------------------------
(* Properties.                                                             *)

IsPlan(p) ==
    p = PlanOf(p.seen, p.total) /\ IsMap(p.seen, Row) /\ p.total \in Nat

Status == {"failed", "applied", "rolled_back"}
RestoreStatus == {"none", "restored", "manual"}

IsRun(x) ==
    /\ x = [plan |-> x.plan, status |-> x.status, restore |-> x.restore,
            supersedes |-> x.supersedes, before |-> x.before, after |-> x.after,
            occ |-> x.occ]
    /\ x.plan \in plans
    /\ x.status \in Status /\ x.restore \in RestoreStatus
    /\ x.supersedes \in Nat
    /\ IsMap(x.before, State) /\ IsMap(x.after, State) /\ IsMap(x.occ, Nat)

ApplyPc == {"applying", "gates", "inserting", "written", "failed"}
RestorePc == {"restoring", "checking", "undoing", "undone", "marking"}

IsOperation(x) ==
    /\ x = [pc |-> x.pc, plan |-> x.plan, run |-> x.run,
            before |-> x.before, after |-> x.after, count |-> x.count]
    /\ x.pc \in {"idle"} \cup ApplyPc \cup RestorePc
    /\ x.plan \in plans \cup {NoPlan}
    /\ x.run \in {0} \cup DOMAIN runs
    /\ x.pc \in ApplyPc => x.plan \in plans
    /\ x.pc \in RestorePc => x.run # 0
    /\ IsMap(x.before, State) /\ IsMap(x.after, State)
    /\ x.count \in Nat

TypeOK ==
    /\ IsMap(rows, Row)
    /\ total \in Nat
    /\ \A p \in plans : IsPlan(p)
    /\ consumed \subseteq plans
    /\ runs = [k \in 1 .. Len(runs) |-> runs[k]] /\ Len(runs) \in Nat
    /\ \A k \in DOMAIN runs : IsRun(runs[k])
    /\ lock \in Operator \cup {NoOne}
    /\ op = [o \in Operator |-> op[o]]
    /\ \A o \in Operator : IsOperation(op[o])
    /\ \A w \in writer : w.fact \in Fact /\ IsMap(w.lane, Row)
    /\ attempts \in 0 .. MaxAttempts
    /\ changes \in 0 .. MaxChanges

(* "a re-apply after a restore regenerates a fresh plan over the restored  *)
(* state" (HistoryRemediationPlanConsumption): whatever happened since,    *)
(* the planner never again seals a plan that was applied and had rows to   *)
(* change, or an operator with a valid plan would be told it is used up.   *)
ConsumedPlanIsStale ==
    \A p \in consumed : Planned(p) # {} => p.seen # Snapshot

(* "supersedable at most once (no ambiguous chains)"                       *)
(* (HistoryRemediationRun.supersedes_run_id): retries are validated before *)
(* the lock, and two of them may pass; a run still has one successor, of   *)
(* its own plan, and it is a failed one.                                   *)
SupersededOnce ==
    \A k, l \in DOMAIN runs :
        LET prev == runs[k].supersedes
        IN prev # 0 =>
            /\ prev < k
            /\ runs[prev].status = "failed" /\ runs[prev].plan = runs[k].plan
            /\ runs[l].supersedes = prev => k = l

(* What a plan leaves alone is as it saw it, or rolled back since.         *)
KeptAsSealed(p) ==
    \A i \in Planned(p) :
        p.want[i] = p.seen[i].state =>
            rows[i].state = p.seen[i].state \/ rows[i].state.rolled

(* An applied plan leaves the rows it covers with the invariants of        *)
(* price_history_lane.py, although a rollback may have come between the    *)
(* gates and the row locks; unless a sync came with it, and ended or       *)
(* disputed a row that the plan leaves alone.                              *)
PlanRepairs ==
    [][\A p \in consumed' \ consumed :
          KeptAsSealed(p) => Sound([i \in Planned(p) |-> rows'[i]])]_vars

Entry(run) ==
    [plan |-> run.plan,
     phase |-> IF run.status = "applied" THEN "applied" ELSE "restored",
     before |-> run.before, after |-> run.after]

Succeeded == {k \in DOMAIN runs : runs[k].status # "failed"}

Entries == {Entry(runs[k]) : k \in Succeeded}

RowStates == StatesOf(DOMAIN rows)

Ledger == INSTANCE ReversiblePlan WITH states <- RowStates, ledger <- Entries

(* A plan is applied once at most, its run records what it changed, and a  *)
(* restore puts exactly that back or does nothing (execute_apply,          *)
(* execute_restore).                                                       *)
ImplementsLedger == Ledger!Spec

(* No operation keeps the others out for ever, however it ends             *)
(* (pg_advisory_xact_lock).                                                *)
LockReleased == \A o \in Operator : lock = o ~> lock # o

=============================================================================
