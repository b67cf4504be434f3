------------------------------ MODULE PlanQueue ------------------------------
(***************************************************************************)
(* The plan-generation queue: the HTTP API enqueues a run and a job in     *)
(* PostgreSQL, worker processes claim jobs with SELECT ... FOR UPDATE SKIP *)
(* LOCKED, compute a plan and replace the plan's meals and grocery list.   *)
(*                                                                         *)
(* The database is modelled by its committed rows.  A worker's transaction *)
(* is a record of what it has read and of its uncommitted writes: rows it  *)
(* deleted, rows it locked by an UPDATE, the grocery list it inserted.     *)
(* PostgreSQL runs at READ COMMITTED: each statement sees the rows         *)
(* committed when the statement starts, a second writer of a row waits for *)
(* the first, and the unique index on grocery_list.meal_plan_id makes a    *)
(* second insert wait and then fail.  SQLAlchemy (autoflush=False,         *)
(* expire_on_commit=False) sends an UPDATE only at a flush and only for a  *)
(* column whose value differs from the one it loaded: this is why the      *)
(* transaction remembers the plan status it loaded (planSeen).             *)
(*                                                                         *)
(* Run and job are created together, one run per job, so a run is named by *)
(* its job.  Meals and lists are named by the job that wrote them.         *)
(***************************************************************************)
EXTENDS Naturals

CONSTANTS
    Worker,        \* worker process slots (a slot is restarted after it dies)
    Plan,          \* meal plans
    NoPlan,        \* the plan of a job that does not exist yet
    NJobs,         \* bound: jobs ever enqueued
    MaxAttempts,   \* settings.worker_job_max_attempts
    MaxCrashes,    \* bound: processes killed
    SlowJobs       \* TRUE: a job may run longer than the reaper's timeout

Job == 1 .. NJobs
NoJob == 0

ASSUME QueueAssumption ==
    /\ NJobs \in Nat
    /\ MaxAttempts \in Nat \ {0}
    /\ MaxCrashes \in Nat
    /\ SlowJobs \in BOOLEAN
    /\ NoPlan \notin Plan

VARIABLES
    job,      \* generation_job rows: plan, status, attempts, due, basis
    run,      \* optimization_run.status of the job's run
    plan,     \* meal_plan.status
    meals,    \* the jobs whose planned_meal rows the plan holds
    list,     \* the job that wrote the plan's grocery_list row, or NoJob
    stale,    \* the jobs whose heartbeat_at is older than the timeout
    worker,   \* each process: where it is, and its open transaction
    crashes   \* processes killed so far

vars == <<job, run, plan, meals, list, stale, worker, crashes>>

(* The statuses generating_candidates, validating and optimizing are set   *)
(* in the open transaction and never committed: a committed job in         *)
(* progress is always in collecting_data, and its run still queued.        *)
JobStatus == {"absent", "queued", "collecting_data", "completed", "failed"}
RunStatus == {"absent", "queued", "completed", "failed"}
PlanStatus == {"absent", "generating", "ready", "failed"}
Settled == {"completed", "failed"}

(* pc follows _poll_once, process_job, _execute and persist_*:             *)
(*   down, idle                    no process; polling                     *)
(*   claimed                       claim committed, nothing read yet       *)
(*   running                       inside the savepoint, before any write  *)
(*   selected, unlisted, unserved  the three statements of _clear_previous *)
(*   cleared                       after its flush: job and run row locked *)
(*   inserted                      meals and grocery list inserted         *)
(*   failing                       savepoint rolled back                   *)
PC == {"down", "idle", "claimed", "running", "selected", "unlisted",
       "unserved", "cleared", "inserted", "failing"}

Process ==
    [pc : PC, job : Job \cup {NoJob}, planSeen : PlanStatus,
     outcome : {"none", "ready", "failed"}, listSeen : Job \cup {NoJob},
     delList : Job \cup {NoJob}, delMeals : SUBSET Job, flushed : BOOLEAN]

JobRow ==
    [plan : Plan \cup {NoPlan}, status : JobStatus, attempts : Nat,
     due : BOOLEAN, basis : SUBSET Job]

TypeOK ==
    /\ job \in [Job -> JobRow]
    /\ run \in [Job -> RunStatus]
    /\ plan \in [Plan -> PlanStatus]
    /\ meals \in [Plan -> SUBSET Job]
    /\ list \in [Plan -> Job \cup {NoJob}]
    /\ stale \in SUBSET Job
    /\ worker \in [Worker -> Process]
    /\ crashes \in 0 .. MaxCrashes

(* A process without a transaction, at position c.                         *)
NoTx(c) ==
    [pc |-> c, job |-> NoJob, planSeen |-> "absent", outcome |-> "none",
     listSeen |-> NoJob, delList |-> NoJob, delMeals |-> {}, flushed |-> FALSE]

NoRow ==
    [plan |-> NoPlan, status |-> "absent", attempts |-> 0, due |-> FALSE,
     basis |-> {}]

Init ==
    /\ job = [j \in Job |-> NoRow]
    /\ run = [j \in Job |-> "absent"]
    /\ plan = [p \in Plan |-> "absent"]
    /\ meals = [p \in Plan |-> {}]
    /\ list = [p \in Plan |-> NoJob]
    /\ stale = {}
    /\ worker = [w \in Worker |-> NoTx("down")]
    /\ crashes = 0

-----------------------------------------------------------------------------
(* The API.  Each request is one transaction that only inserts rows and    *)
(* sets the plan's status.                                                 *)

SetJob(j, row) == job' = [job EXCEPT ![j] = row]

(* _enqueue_run: a queued run and a queued job, runnable at once.  Ids are *)
(* a sequence, so the new job has the smallest unused one.                 *)
EnqueueRun(p, basis) ==
    \E j \in Job :
        /\ job[j].status = "absent"
        /\ \A i \in Job : i < j => job[i].status # "absent"
        /\ SetJob(j, [plan |-> p, status |-> "queued", attempts |-> 0,
                       due |-> TRUE, basis |-> basis])
        /\ run' = [run EXCEPT ![j] = "queued"]

(* create_generation, reached by /generate, /quick-start and /duplicate:   *)
(* always a new plan.                                                      *)
Generate(p) ==
    /\ plan[p] = "absent"
    /\ plan' = [plan EXCEPT ![p] = "generating"]
    /\ EnqueueRun(p, {})
    /\ UNCHANGED <<meals, list, stale, worker, crashes>>

(* /regenerate: nothing asks whether the plan already has a job in flight. *)
Regenerate(p) ==
    /\ plan[p] # "absent"
    /\ plan' = [plan EXCEPT ![p] = "generating"]
    /\ EnqueueRun(p, {})
    /\ UNCHANGED <<meals, list, stale, worker, crashes>>

(* /meals/{id}/regenerate: the payload names the recipes of the meals the  *)
(* plan has now (basis), to be kept by a run that happens later.           *)
RegenerateMeal(p) ==
    /\ plan[p] # "absent"
    /\ meals[p] # {}
    /\ plan' = [plan EXCEPT ![p] = "generating"]
    /\ EnqueueRun(p, meals[p])
    /\ UNCHANGED <<meals, list, stale, worker, crashes>>

-----------------------------------------------------------------------------
(* Time.                                                                   *)

(* run_after passes: a job put back with a backoff may be claimed again.   *)
BackoffElapses(j) ==
    /\ job[j].status = "queued"
    /\ ~job[j].due
    /\ SetJob(j, [job[j] EXCEPT !.due = TRUE])
    /\ UNCHANGED <<run, plan, meals, list, stale, worker, crashes>>

(* heartbeat_at was committed by the claim; _transition renews it only in  *)
(* the open transaction.  The timeout (ten minutes) therefore measures     *)
(* from the claim, and a live worker is spared only if it is faster.       *)
HeartbeatTimeout(j) ==
    /\ job[j].status = "collecting_data"
    /\ j \notin stale
    /\ SlowJobs \/ \A w \in Worker : worker[w].job # j
    /\ stale' = stale \cup {j}
    /\ UNCHANGED <<job, run, plan, meals, list, worker, crashes>>

-----------------------------------------------------------------------------
(* A worker process.                                                       *)

PlanOf(w) == job[worker[w].job].plan

(* Another worker holds the row lock of job j (it flushed an UPDATE).      *)
RowLocked(j, w) ==
    \E v \in Worker \ {w} : worker[v].flushed /\ worker[v].job = j

(* The other workers with a job of the same plan.                          *)
Rivals(w) ==
    {v \in Worker \ {w} : worker[v].job # NoJob /\ PlanOf(v) = PlanOf(w)}

(* The workers whose transaction must end before w's next statement can:   *)
(*   selected   DELETE of a list row that a rival deleted                  *)
(*   unlisted   DELETE of meals that a rival deleted                       *)
(*   unserved   UPDATE of the job's row, flushed by another                *)
(*   cleared    INSERT under a unique index, while a rival has inserted a  *)
(*              list for the plan, or deleted the present one              *)
WaitsFor(w) ==
    CASE worker[w].pc = "selected" ->
           {v \in Rivals(w) : worker[w].listSeen # NoJob
                              /\ worker[v].delList = worker[w].listSeen}
      [] worker[w].pc = "unlisted" ->
           {v \in Rivals(w) : worker[v].delMeals \cap meals[PlanOf(w)] # {}}
      [] worker[w].pc \in {"unserved", "failing"} ->
           {v \in Rivals(w) : worker[v].flushed /\ worker[v].job = worker[w].job}
      [] worker[w].pc = "cleared" /\ worker[w].outcome = "ready" ->
           {v \in Rivals(w) :
               \/ worker[v].pc = "inserted"
               \/ list[PlanOf(w)] # NoJob /\ worker[v].delList = list[PlanOf(w)]}
      [] OTHER -> {}

Become(w, process) == worker' = [worker EXCEPT ![w] = process]

(* run_worker, recover_abandoned_jobs: on start, once, every in-progress   *)
(* job with an expired heartbeat whose row is not locked is put back, or   *)
(* failed with its run and plan when its attempts are used up.             *)
AbandonedAtOnce(w) ==      \* fault: no timeout
    {j \in Job : job[j].status = "collecting_data" /\ ~RowLocked(j, w)}

AbandonedFresh(w) ==       \* fault: the cutoff compared the wrong way round
    {j \in Job \ stale : job[j].status = "collecting_data" /\ ~RowLocked(j, w)}

Abandoned(w) ==
    {j \in stale : job[j].status = "collecting_data" /\ ~RowLocked(j, w)}

ExhaustedLate(j) == job[j].attempts >= MaxAttempts     \* fault: counts one late

Exhausted(j) == job[j].attempts + 1 >= MaxAttempts

Start(w) ==
    /\ worker[w].pc = "down"
    /\ job' = [j \in Job |->
                 IF j \in Abandoned(w)
                 THEN [job[j] EXCEPT !.attempts = @ + 1, !.due = TRUE,
                          !.status = IF Exhausted(j) THEN "failed" ELSE "queued"]
                 ELSE job[j]]
    /\ run' = [j \in Job |->
                 IF j \in Abandoned(w) /\ Exhausted(j) THEN "failed" ELSE run[j]]
    /\ plan' = [p \in Plan |->
                 IF \E j \in Abandoned(w) : Exhausted(j) /\ job[j].plan = p
                 THEN "failed" ELSE plan[p]]
    /\ stale' = stale \ Abandoned(w)
    /\ Become(w, NoTx("idle"))
    /\ UNCHANGED <<meals, list, crashes>>

(* SIGTERM sets the stop flag; the loop ends between two jobs.             *)
Stop(w) ==
    /\ worker[w].pc = "idle"
    /\ Become(w, NoTx("down"))
    /\ UNCHANGED <<job, run, plan, meals, list, stale, crashes>>

(* SIGKILL, out of memory, or a database error that _poll_once re-raises   *)
(* and run_worker does not catch: the open transaction is rolled back.     *)
Crash(w) ==
    /\ worker[w].pc # "down"
    /\ crashes < MaxCrashes
    /\ crashes' = crashes + 1
    /\ Become(w, NoTx("down"))
    /\ UNCHANGED <<job, run, plan, meals, list, stale>>

Claimable(w) ==
    {j \in Job : job[j].status = "queued" /\ job[j].due /\ ~RowLocked(j, w)}

(* claim_job and the commit that follows it.  The API sets no priority, so *)
(* the order is by id.                                                     *)
Claim(w) ==
    /\ worker[w].pc = "idle"
    /\ \E j \in Claimable(w) :
        /\ \A i \in Claimable(w) : j <= i
        /\ SetJob(j, [job[j] EXCEPT !.status = "collecting_data"])
        /\ stale' = stale \ {j}
        /\ Become(w, [NoTx("claimed") EXCEPT !.job = j])
    /\ UNCHANGED <<run, plan, meals, list, crashes>>

(* process_job: run and plan are loaded, the savepoint is opened.          *)
Begin(w) ==
    /\ worker[w].pc = "claimed"
    /\ Become(w, [worker[w] EXCEPT !.pc = "running",
                                   !.planSeen = plan[PlanOf(w)]])
    /\ UNCHANGED <<job, run, plan, meals, list, stale, crashes>>

(* build_plan_input with the OpenAI candidate provider: recording the      *)
(* usage flushes the session, job row included.                            *)
FlushEarly(w) ==
    /\ worker[w].pc = "running"
    /\ ~worker[w].flushed
    /\ ~RowLocked(worker[w].job, w)
    /\ Become(w, [worker[w] EXCEPT !.flushed = TRUE])
    /\ UNCHANGED <<job, run, plan, meals, list, stale, crashes>>

(* The savepoint is rolled back: its writes and row locks are gone.        *)
Fail(w) ==
    Become(w, [NoTx("failing") EXCEPT !.job = worker[w].job,
                                      !.planSeen = worker[w].planSeen])

(* Preflight, the context builder or the engine raises.                    *)
ExecuteRaises(w) ==
    /\ worker[w].pc = "running"
    /\ Fail(w)
    /\ UNCHANGED <<job, run, plan, meals, list, stale, crashes>>

(* The outcome is known (a plan, or a preflight or engine infeasibility)   *)
(* and _clear_previous starts with the SELECT of the plan's list.          *)
SelectList(w) ==
    /\ worker[w].pc = "running"
    /\ \E o \in {"ready", "failed"} :
        Become(w, [worker[w] EXCEPT !.pc = "selected", !.outcome = o,
                                    !.listSeen = list[PlanOf(w)]])
    /\ UNCHANGED <<job, run, plan, meals, list, stale, crashes>>

(* DELETE of that list and its items: waits for a rival's DELETE of the    *)
(* same row; a row that is gone by then is skipped.                        *)
DeleteList(w) ==
    /\ worker[w].pc = "selected"
    /\ WaitsFor(w) = {}
    /\ Become(w, [worker[w] EXCEPT !.pc = "unlisted",
            !.delList = IF worker[w].listSeen = list[PlanOf(w)]
                        THEN worker[w].listSeen ELSE NoJob])
    /\ UNCHANGED <<job, run, plan, meals, list, stale, crashes>>

DeleteMealsForgotten(w) == \* fault: _clear_previous leaves the old meals
    /\ worker[w].pc = "unlisted"
    /\ Become(w, [worker[w] EXCEPT !.pc = "unserved"])
    /\ UNCHANGED <<job, run, plan, meals, list, stale, crashes>>

(* DELETE of the plan's meals: its own snapshot, taken now.                *)
DeleteMeals(w) ==
    /\ worker[w].pc = "unlisted"
    /\ WaitsFor(w) = {}
    /\ Become(w, [worker[w] EXCEPT !.pc = "unserved",
                                   !.delMeals = meals[PlanOf(w)]])
    /\ UNCHANGED <<job, run, plan, meals, list, stale, crashes>>

(* The flush that ends _clear_previous: the first UPDATE of the job and    *)
(* the run, which waits for another holder of the row.                     *)
FlushRows(w) ==
    /\ worker[w].pc = "unserved"
    /\ WaitsFor(w) = {}
    /\ Become(w, [worker[w] EXCEPT !.pc = "cleared", !.flushed = TRUE])
    /\ UNCHANGED <<job, run, plan, meals, list, stale, crashes>>

(* The inserts of persist_plan_result and _persist_grocery_list.  The      *)
(* unique index refuses the list if one this transaction did not delete is *)
(* there: an IntegrityError, a failed attempt.                             *)
ListFree(w) == list[PlanOf(w)] \in {NoJob, worker[w].delList}

InsertPlan(w) ==
    /\ worker[w].pc = "cleared"
    /\ worker[w].outcome = "ready"
    /\ WaitsFor(w) = {}
    /\ IF ListFree(w)
       THEN Become(w, [worker[w] EXCEPT !.pc = "inserted"])
       ELSE Fail(w)
    /\ UNCHANGED <<job, run, plan, meals, list, stale, crashes>>

(* A set of transactions each waiting for and waited for by another of the *)
(* set: PostgreSQL ends the wait of one of them with an error.             *)
WaitCycle(S) ==
    \A v \in S : WaitsFor(v) \cap S # {} /\ \E u \in S : v \in WaitsFor(u)

DeadlockVictim(w) ==
    /\ \E S \in SUBSET Worker : w \in S /\ WaitCycle(S)
    /\ Fail(w)
    /\ UNCHANGED <<job, run, plan, meals, list, stale, crashes>>

SetPlanReady(w, s) ==      \* fault: an infeasible run also makes the plan ready
    [plan EXCEPT ![PlanOf(w)] = "ready"]

SetPlanNotFailed(w, s) ==  \* fault: a failure leaves the plan's status alone
    IF s = "failed" THEN plan ELSE [plan EXCEPT ![PlanOf(w)] = s]

SetPlanAsRun(w, s) ==      \* fault: the run's status, not one of the plan's
    [plan EXCEPT ![PlanOf(w)] = IF s = "ready" THEN "completed" ELSE s]

(* The plan status is written only if it differs from the one loaded.      *)
SetPlan(w, s) ==
    IF worker[w].planSeen = s THEN plan ELSE [plan EXCEPT ![PlanOf(w)] = s]

(* persist_plan_result and the commit.                                     *)
CommitReady(w) ==
    /\ worker[w].pc = "inserted"
    /\ LET j == worker[w].job
           p == PlanOf(w)
       IN /\ SetJob(j, [job[j] EXCEPT !.status = "completed"])
          /\ run' = [run EXCEPT ![j] = "completed"]
          /\ plan' = SetPlan(w, "ready")
          /\ meals' = [meals EXCEPT ![p] = (@ \ worker[w].delMeals) \cup {j}]
          /\ list' = [list EXCEPT ![p] = j]
    /\ stale' = stale \ {worker[w].job}
    /\ Become(w, NoTx("idle"))
    /\ UNCHANGED crashes

CommitInfeasibleJobOnly(w) ==  \* fault: the run is left queued
    /\ worker[w].pc = "cleared"
    /\ worker[w].outcome = "failed"
    /\ SetJob(worker[w].job, [job[worker[w].job] EXCEPT !.status = "failed"])
    /\ plan' = SetPlan(w, "failed")
    /\ stale' = stale \ {worker[w].job}
    /\ Become(w, NoTx("idle"))
    /\ UNCHANGED <<run, meals, list, crashes>>

(* persist_infeasible, persist_preflight_infeasible and the commit: the    *)
(* diagnosis is final, the job is not retried.                             *)
CommitInfeasible(w) ==
    /\ worker[w].pc = "cleared"
    /\ worker[w].outcome = "failed"
    /\ LET j == worker[w].job
           p == PlanOf(w)
       IN /\ SetJob(j, [job[j] EXCEPT !.status = "failed"])
          /\ run' = [run EXCEPT ![j] = "failed"]
          /\ plan' = SetPlan(w, "failed")
          /\ meals' = [meals EXCEPT ![p] = @ \ worker[w].delMeals]
          /\ list' = [list EXCEPT ![p] =
                         IF @ = worker[w].delList THEN NoJob ELSE @]
    /\ stale' = stale \ {worker[w].job}
    /\ Become(w, NoTx("idle"))
    /\ UNCHANGED crashes

(* _handle_failure and the commit: the refreshed job row is retried after  *)
(* a backoff, or failed with its run and plan.                             *)
HandleFailure(w) ==
    /\ worker[w].pc = "failing"
    /\ WaitsFor(w) = {}
    /\ LET j == worker[w].job
       IN IF Exhausted(j)
          THEN /\ SetJob(j, [job[j] EXCEPT !.attempts = @ + 1,
                                            !.status = "failed"])
               /\ run' = [run EXCEPT ![j] = "failed"]
               /\ plan' = SetPlan(w, "failed")
          ELSE /\ SetJob(j, [job[j] EXCEPT !.attempts = @ + 1,
                                            !.status = "queued", !.due = FALSE])
               /\ run' = [run EXCEPT ![j] = "queued"]
               /\ plan' = plan
    /\ stale' = stale \ {worker[w].job}
    /\ Become(w, NoTx("idle"))
    /\ UNCHANGED <<meals, list, crashes>>

-----------------------------------------------------------------------------
Api ==
    \E p \in Plan : Generate(p) \/ Regenerate(p) \/ RegenerateMeal(p)

Clock ==
    \E j \in Job : BackoffElapses(j) \/ HeartbeatTimeout(j)

(* What a live process does on its own until its job is settled.           *)
Work(w) ==
    \/ Claim(w)
    \/ Begin(w)
    \/ FlushEarly(w)
    \/ ExecuteRaises(w)
    \/ SelectList(w)
    \/ DeleteList(w)
    \/ DeleteMeals(w)
    \/ FlushRows(w)
    \/ InsertPlan(w)
    \/ DeadlockVictim(w)
    \/ CommitReady(w)
    \/ CommitInfeasible(w)
    \/ HandleFailure(w)

Next ==
    \/ Api
    \/ Clock
    \/ \E w \in Worker : Start(w) \/ Stop(w) \/ Crash(w) \/ Work(w)

Spec == Init /\ [][Next]_vars

(* The platform restarts a dead process, a live one keeps working, and     *)
(* time passes.  Nothing obliges users to make requests.                   *)
Fairness ==
    /\ \A w \in Worker : WF_vars(Start(w)) /\ WF_vars(Work(w))
    /\ \A j \in Job : WF_vars(BackoffElapses(j)) /\ WF_vars(HeartbeatTimeout(j))

LiveSpec == Spec /\ Fairness

(* A deployment that is redeployed again and again, as the startup tasks   *)
(* of run_worker assume ("se reinicia con cada deploy"), but not so fast   *)
(* that no process ever polls the queue.                                   *)
RedeployedSpec ==
    LiveSpec /\ \A w \in Worker : SF_vars(Stop(w)) /\ SF_vars(Claim(w))

-----------------------------------------------------------------------------
(* Properties.                                                             *)

Busy(w) == worker[w].job # NoJob

Open(j) == job[j].status \in {"queued", "collecting_data"}

(* "Multiple workers never grab the same job" (worker/main.py): a job is   *)
(* in the hands of one process at most, and while it is, its committed     *)
(* status keeps claim_job away.  It rests on jobs being faster than the    *)
(* reaper's timeout.                                                       *)
OneProcessorPerJob ==
    /\ \A w \in Worker : Busy(w) => job[worker[w].job].status = "collecting_data"
    /\ \A v, w \in Worker : Busy(v) /\ worker[v].job = worker[w].job => v = w

(* The run, which the UI polls, and the job, which the workers obey, are   *)
(* two rows written by separate statements of process_job,                 *)
(* _handle_failure and _fail_linked: they must tell the same story.        *)
RunFollowsJob ==
    \A j \in Job :
        run[j] = IF job[j].status = "collecting_data" THEN "queued" ELSE job[j].status

(* A plan shown as generating has a job that will settle it: no order of   *)
(* requests, failures and rival jobs leaves the UI waiting on nothing.     *)
GeneratingPlanHasWork ==
    \A p \in Plan :
        plan[p] = "generating" => \E j \in Job : job[j].plan = p /\ Open(j)

(* A plan's meals and grocery list come from the same run ("re-runs are    *)
(* idempotent", _clear_previous): no meals of two runs mixed, no list that *)
(* shops for meals the plan does not have.                                 *)
MealsMatchList ==
    \A p \in Plan : meals[p] = IF list[p] = NoJob THEN {} ELSE {list[p]}

(* A ready plan can be cooked: it has the meals of a completed run.        *)
ReadyPlanHasMeals ==
    \A p \in Plan :
        plan[p] = "ready" => meals[p] # {} /\ \A j \in meals[p] : run[j] = "completed"

(* Every failed execution, a crash included, is counted, and a job with    *)
(* its attempts used up is never tried again.                              *)
AttemptsBounded ==
    \A j \in Job :
        /\ job[j].attempts <= MaxAttempts
        /\ Open(j) => job[j].attempts < MaxAttempts

JobState ==
    [j \in Job |-> IF job[j].status = "collecting_data" THEN "taken" ELSE job[j].status]

Tries == [j \in Job |-> job[j].attempts]

InHandsOf == [j \in Job |-> {w \in Worker : worker[w].job = j}]

Board ==
    INSTANCE JobBoard WITH Holder <- Worker, MaxTries <- MaxAttempts, state <- JobState,
                           tries <- Tries, shown <- run, holders <- InHandsOf

(* To the API and the UI the claims, transactions, savepoints and restarts *)
(* are a board of jobs: only the process that claimed a job settles or     *)
(* fails it, and only once it is gone does recover_abandoned_jobs, which   *)
(* counts the lost execution as a failed one.                              *)
ImplementsBoard == Board!Spec

(* With redeploys, every job is settled in the end, whatever failed or     *)
(* died on the way: claim, retries with backoff and the reaper of          *)
(* recover_abandoned_jobs leave no job behind.                             *)
JobSettles ==
    \A j \in Job : Open(j) ~> job[j].status \in Settled

(* ... and so the plan the user is polling leaves "generating".            *)
PlanSettles ==
    \A p \in Plan : plan[p] = "generating" ~> plan[p] \in {"ready", "failed"}

(* recover_abandoned_jobs says a job left by a dead worker would otherwise *)
(* "hang forever" ("quedaría colgado para siempre"), and that it puts it   *)
(* back or fails it on start.  A restart within the timeout finds the      *)
(* heartbeat still fresh, and there is no second look until the next one.  *)
AbandonedJobRecovered ==
    \A j \in Job :
        job[j].status = "collecting_data" /\ (\A w \in Worker : worker[w].job # j)
            ~> job[j].status # "collecting_data"

(* "Regenerate a single meal slot, keeping the other meals fixed"          *)
(* (routers/plans.py): when such a job ends, whatever its outcome, the     *)
(* plan still has meals.                                                   *)
MealRegenerationKeepsMeals ==
    [][\A j \in Job :
         /\ job[j].basis # {}
         /\ Open(j)
         /\ job'[j].status \in Settled
         => meals'[job[j].plan] # {}]_vars

=============================================================================
