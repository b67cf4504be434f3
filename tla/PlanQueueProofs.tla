-------------------------- MODULE PlanQueueProofs --------------------------
(***************************************************************************)
(* What PlanQueue promises for any number of workers, plans, jobs, crashes *)
(* and attempts.                                                           *)
(*                                                                         *)
(* The actions fall into a few kinds as far as the rows are concerned; the *)
(* first lemmas sort them, the theorems argue kind by kind.                *)
(***************************************************************************)
EXTENDS PlanQueue, TLAPS

(* A job that exists belongs to a plan; a process is busy exactly when it  *)
(* is past the claim, and then with a job that exists.                     *)
Shape ==
    /\ \A j \in Job : job[j].status # "absent" => job[j].plan \in Plan
    /\ \A w \in Worker :
        /\ worker[w].pc \notin {"down", "idle"} => worker[w].job \in Job
        /\ worker[w].pc \in {"down", "idle"} => worker[w].job = NoJob
        /\ worker[w].job \in Job => job[worker[w].job].status # "absent"

Sound == TypeOK /\ Shape

-----------------------------------------------------------------------------
(* The kinds of step.                                                      *)

Enqueued(p, j) ==
    /\ job[j].status = "absent"
    /\ \E b \in SUBSET Job :
        SetJob(j, [plan |-> p, status |-> "queued", attempts |-> 0,
                   due |-> TRUE, basis |-> b])
    /\ run' = [run EXCEPT ![j] = "queued"]
    /\ plan' = [plan EXCEPT ![p] = "generating"]
    /\ UNCHANGED <<meals, list, stale, worker, crashes>>

(* A process without a transaction ends, or one with a transaction dies.   *)
Leave(w) ==
    /\ Become(w, NoTx("down"))
    /\ crashes' \in 0 .. MaxCrashes
    /\ UNCHANGED <<job, run, plan, meals, list, stale>>

(* A step inside a transaction: nothing is committed.  Only the first one  *)
(* after the claim loads the plan's status.                                *)
Inside(w) ==
    /\ worker[w].pc \notin {"down", "idle"}
    /\ \E r \in Process :
        /\ r.job = worker[w].job
        /\ r.pc \notin {"down", "idle", "claimed"}
        /\ \/ worker[w].pc = "claimed" /\ r.planSeen = plan[PlanOf(w)]
           \/ worker[w].pc # "claimed" /\ r.planSeen = worker[w].planSeen
        /\ Become(w, r)
    /\ UNCHANGED <<job, run, plan, meals, list, stale, crashes>>

(* A transaction commits and leaves its job in status s.                   *)
Ending(w, s) ==
    /\ worker[w].pc \notin {"down", "idle", "claimed"}
    /\ LET j == worker[w].job
       IN /\ \E row \in JobRow :
               /\ row.plan = job[j].plan
               /\ row.status = s
               /\ row.attempts \in {job[j].attempts, job[j].attempts + 1}
               /\ row.attempts >= MaxAttempts =>
                      s # "queued" \/ job[j].attempts >= MaxAttempts
               /\ row.attempts > MaxAttempts => job[j].attempts >= MaxAttempts
               /\ SetJob(j, row)
          /\ run' = [run EXCEPT ![j] = s]
    /\ IF s = "queued"
       THEN plan' = plan
       ELSE \E t \in {"ready", "failed"} : plan' = SetPlan(w, t)
    /\ stale' \subseteq stale
    /\ meals' \in [Plan -> SUBSET Job]
    /\ list' \in [Plan -> Job \cup {NoJob}]
    /\ Become(w, NoTx("idle"))
    /\ crashes' = crashes

-----------------------------------------------------------------------------
(* A process record without a transaction is well typed.                   *)
LEMMA NoTxType == \A c \in PC : NoTx(c) \in Process
  BY DEF NoTx, Process, PlanStatus

(* The failing position keeps the job and the status it loaded.            *)
LEMMA FailInside ==
  ASSUME Sound, NEW w \in Worker,
         worker[w].pc \notin {"down", "idle", "claimed"},
         Fail(w), UNCHANGED <<job, run, plan, meals, list, stale, crashes>>
  PROVE  Inside(w)
<1> DEFINE r == [NoTx("failing") EXCEPT !.job = worker[w].job,
                                        !.planSeen = worker[w].planSeen]
<1>1. worker[w] \in Process
  BY DEF Sound, TypeOK
<1>2. r \in Process /\ r.job = worker[w].job /\ r.planSeen = worker[w].planSeen
        /\ r.pc = "failing"
  BY <1>1 DEF NoTx, Process, PC
<1> QED
  BY <1>2 DEF Inside, Fail

(* The steps of a job between process_job's first read and its commit      *)
(* touch only the worker's own transaction.                                *)
LEMMA InsideSteps ==
  ASSUME Sound, NEW w \in Worker,
         \/ Begin(w) \/ FlushEarly(w) \/ ExecuteRaises(w) \/ SelectList(w)
         \/ DeleteList(w) \/ DeleteMeals(w) \/ FlushRows(w) \/ InsertPlan(w)
         \/ DeadlockVictim(w)
  PROVE  Inside(w)
<1>1. worker[w] \in Process
  BY DEF Sound, TypeOK
<1>2. worker[w].pc \notin {"down", "idle"} => PlanOf(w) \in Plan
  BY DEF Sound, Shape, PlanOf
<1>3. CASE Begin(w)
  <2> DEFINE r == [worker[w] EXCEPT !.pc = "running", !.planSeen = plan[PlanOf(w)]]
  <2>1. plan[PlanOf(w)] \in PlanStatus
    BY <1>2, <1>3 DEF Begin, Sound, TypeOK
  <2>2. r \in Process /\ r.job = worker[w].job /\ r.pc = "running"
          /\ r.planSeen = plan[PlanOf(w)]
    BY <1>1, <2>1 DEF Process, PC
  <2> QED
    BY <1>3, <2>2 DEF Begin, Inside
<1>4. CASE FlushEarly(w)
  <2> DEFINE r == [worker[w] EXCEPT !.flushed = TRUE]
  <2>1. r \in Process /\ r.job = worker[w].job /\ r.pc = worker[w].pc
          /\ r.planSeen = worker[w].planSeen
    BY <1>1 DEF Process
  <2> QED
    BY <1>4, <2>1 DEF FlushEarly, Inside
<1>5. CASE ExecuteRaises(w)
  BY <1>5, FailInside DEF ExecuteRaises
<1>6. CASE SelectList(w)
  <2>1. PICK o \in {"ready", "failed"} :
          Become(w, [worker[w] EXCEPT !.pc = "selected", !.outcome = o,
                                      !.listSeen = list[PlanOf(w)]])
    BY <1>6 DEF SelectList
  <2> DEFINE r == [worker[w] EXCEPT !.pc = "selected", !.outcome = o,
                                    !.listSeen = list[PlanOf(w)]]
  <2>2. list[PlanOf(w)] \in Job \cup {NoJob}
    BY <1>2, <1>6 DEF SelectList, Sound, TypeOK
  <2>3. r \in Process /\ r.job = worker[w].job /\ r.pc = "selected"
          /\ r.planSeen = worker[w].planSeen
    BY <1>1, <2>2 DEF Process, PC
  <2> QED
    BY <1>6, <2>1, <2>3 DEF SelectList, Inside
<1>7. CASE DeleteList(w)
  <2> DEFINE d == IF worker[w].listSeen = list[PlanOf(w)]
                  THEN worker[w].listSeen ELSE NoJob
             r == [worker[w] EXCEPT !.pc = "unlisted", !.delList = d]
  <2>1. d \in Job \cup {NoJob}
    BY <1>1 DEF Process
  <2> HIDE DEF d
  <2>2. r \in Process /\ r.job = worker[w].job /\ r.pc = "unlisted"
          /\ r.planSeen = worker[w].planSeen
    BY <1>1, <2>1 DEF Process, PC
  <2>3. Become(w, r)
    BY <1>7 DEF DeleteList, d
  <2> QED
    BY <1>7, <2>2, <2>3 DEF DeleteList, Inside
<1>8. CASE DeleteMeals(w)
  <2> DEFINE r == [worker[w] EXCEPT !.pc = "unserved",
                                    !.delMeals = meals[PlanOf(w)]]
  <2>1. meals[PlanOf(w)] \in SUBSET Job
    BY <1>2, <1>8 DEF DeleteMeals, Sound, TypeOK
  <2>2. r \in Process /\ r.job = worker[w].job /\ r.pc = "unserved"
          /\ r.planSeen = worker[w].planSeen
    BY <1>1, <2>1 DEF Process, PC
  <2> QED
    BY <1>8, <2>2 DEF DeleteMeals, Inside
<1>9. CASE FlushRows(w)
  <2> DEFINE r == [worker[w] EXCEPT !.pc = "cleared", !.flushed = TRUE]
  <2>1. r \in Process /\ r.job = worker[w].job /\ r.pc = "cleared"
          /\ r.planSeen = worker[w].planSeen
    BY <1>1 DEF Process, PC
  <2> QED
    BY <1>9, <2>1 DEF FlushRows, Inside
<1>10. CASE InsertPlan(w)
  <2> DEFINE r == [worker[w] EXCEPT !.pc = "inserted"]
  <2>1. r \in Process /\ r.job = worker[w].job /\ r.pc = "inserted"
          /\ r.planSeen = worker[w].planSeen
    BY <1>1 DEF Process, PC
  <2>2. CASE ListFree(w)
    BY <1>10, <2>1, <2>2 DEF InsertPlan, Inside
  <2>3. CASE ~ListFree(w)
    BY <1>10, <2>3, FailInside DEF InsertPlan
  <2> QED
    BY <2>2, <2>3
<1>11. CASE DeadlockVictim(w)
  <2>1. PICK S \in SUBSET Worker : w \in S /\ WaitCycle(S)
    BY <1>11 DEF DeadlockVictim
  <2>2. WaitsFor(w) # {}
    BY <2>1 DEF WaitCycle
  <2>3. worker[w].pc \notin {"down", "idle", "claimed"}
    BY <2>2 DEF WaitsFor
  <2> QED
    BY <1>11, <2>3, FailInside DEF DeadlockVictim
<1> QED
  BY <1>3, <1>4, <1>5, <1>6, <1>7, <1>8, <1>9, <1>10, <1>11

(* The three commits that end a job (a plan, an infeasibility, a failure)  *)
(* write the job, its run and its plan, and free the worker.               *)
LEMMA EndingSteps ==
  ASSUME Sound, NEW w \in Worker,
         CommitReady(w) \/ CommitInfeasible(w) \/ HandleFailure(w)
  PROVE  \E s \in {"queued", "completed", "failed"} : Ending(w, s)
<1> USE QueueAssumption
<1> DEFINE j == worker[w].job
<1>1. j \in Job /\ job[j] \in JobRow /\ PlanOf(w) \in Plan
  BY DEF Sound, TypeOK, Shape, PlanOf, CommitReady, CommitInfeasible, HandleFailure
<1>2. worker[w] \in Process
  BY DEF Sound, TypeOK
<1>3. stale \ {j} \in SUBSET Job
  BY DEF Sound, TypeOK
<1>4. CASE CommitReady(w)
  <2> DEFINE row == [job[j] EXCEPT !.status = "completed"]
  <2>1. row \in JobRow /\ row.plan = job[j].plan /\ row.status = "completed"
          /\ row.attempts = job[j].attempts
    BY <1>1 DEF JobRow, JobStatus
  <2>2. row.attempts \in Nat
    BY <2>1 DEF JobRow
  <2>3. meals' \in [Plan -> SUBSET Job] /\ list' \in [Plan -> Job \cup {NoJob}]
    BY <1>1, <1>4 DEF CommitReady, Sound, TypeOK
  <2>4. /\ worker[w].pc = "inserted" /\ SetJob(j, row)
        /\ run' = [run EXCEPT ![j] = "completed"] /\ plan' = SetPlan(w, "ready")
        /\ stale' \subseteq stale /\ Become(w, NoTx("idle")) /\ crashes' = crashes
    BY <1>4 DEF CommitReady
  <2> HIDE DEF row
  <2>5. \E r \in JobRow : /\ r.plan = job[j].plan /\ r.status = "completed"
                          /\ r.attempts \in {job[j].attempts, job[j].attempts + 1}
                          /\ r.attempts >= MaxAttempts =>
                               "completed" # "queued" \/ job[j].attempts >= MaxAttempts
                          /\ r.attempts > MaxAttempts => job[j].attempts >= MaxAttempts
                          /\ SetJob(j, r)
    <3>1. row.attempts > MaxAttempts => job[j].attempts >= MaxAttempts
      BY <2>1, <2>2
    <3>2. row \in JobRow
      BY <2>1
    <3> QED
      BY <2>1, <2>4, <3>1, <3>2, Zenon
  <2> QED
    <3>1. worker[w].pc \notin {"down", "idle", "claimed"}
      BY <2>4
    <3>2. \E c \in {"ready", "failed"} : plan' = SetPlan(w, c)
      BY <2>4
    <3> QED
      BY <2>3, <2>4, <2>5, <3>1, <3>2 DEF Ending
<1>5. CASE CommitInfeasible(w)
  <2> DEFINE row == [job[j] EXCEPT !.status = "failed"]
  <2>1. row \in JobRow /\ row.plan = job[j].plan /\ row.status = "failed"
          /\ row.attempts = job[j].attempts
    BY <1>1 DEF JobRow, JobStatus
  <2>2. row.attempts \in Nat
    BY <2>1 DEF JobRow
  <2>3. meals' \in [Plan -> SUBSET Job] /\ list' \in [Plan -> Job \cup {NoJob}]
    BY <1>1, <1>5 DEF CommitInfeasible, Sound, TypeOK, NoJob
  <2>4. /\ worker[w].pc = "cleared" /\ SetJob(j, row)
        /\ run' = [run EXCEPT ![j] = "failed"] /\ plan' = SetPlan(w, "failed")
        /\ stale' \subseteq stale /\ Become(w, NoTx("idle")) /\ crashes' = crashes
    BY <1>5 DEF CommitInfeasible
  <2> HIDE DEF row
  <2>5. \E r \in JobRow : /\ r.plan = job[j].plan /\ r.status = "failed"
                          /\ r.attempts \in {job[j].attempts, job[j].attempts + 1}
                          /\ r.attempts >= MaxAttempts =>
                               "failed" # "queued" \/ job[j].attempts >= MaxAttempts
                          /\ r.attempts > MaxAttempts => job[j].attempts >= MaxAttempts
                          /\ SetJob(j, r)
    <3>1. row.attempts > MaxAttempts => job[j].attempts >= MaxAttempts
      BY <2>1, <2>2
    <3>2. row \in JobRow
      BY <2>1
    <3> QED
      BY <2>1, <2>4, <3>1, <3>2, Zenon
  <2> QED
    <3>1. worker[w].pc \notin {"down", "idle", "claimed"}
      BY <2>4
    <3>2. \E c \in {"ready", "failed"} : plan' = SetPlan(w, c)
      BY <2>4
    <3> QED
      BY <2>3, <2>4, <2>5, <3>1, <3>2 DEF Ending
<1>6. CASE HandleFailure(w)
  <2>0. job[j].attempts \in Nat
    BY <1>1 DEF JobRow
  <2>1. job[j].attempts \in Nat /\ job[j].attempts + 1 \in Nat
    BY <2>0
  <2>2. meals' \in [Plan -> SUBSET Job] /\ list' \in [Plan -> Job \cup {NoJob}]
    BY <1>6 DEF HandleFailure, Sound, TypeOK
  <2>3. CASE Exhausted(j)
    <3> DEFINE row == [job[j] EXCEPT !.attempts = @ + 1, !.status = "failed"]
    <3>1. row \in JobRow /\ row.plan = job[j].plan /\ row.status = "failed"
            /\ row.attempts = job[j].attempts + 1
      BY <1>1, <2>1 DEF JobRow, JobStatus
    <3>2. row.attempts > MaxAttempts => job[j].attempts >= MaxAttempts
      BY <2>1, <3>1
    <3>3. /\ SetJob(j, row)
          /\ run' = [run EXCEPT ![j] = "failed"]
          /\ plan' = SetPlan(w, "failed")
          /\ stale' = stale \ {j}
          /\ Become(w, NoTx("idle"))
          /\ crashes' = crashes
          /\ worker[w].pc = "failing"
      BY <1>6, <2>3 DEF HandleFailure
    <3> QED
      BY <1>3, <2>2, <3>1, <3>2, <3>3 DEF Ending
  <2>4. CASE ~Exhausted(j)
    <3> DEFINE row == [job[j] EXCEPT !.attempts = @ + 1, !.status = "queued",
                                     !.due = FALSE]
    <3>1. row \in JobRow /\ row.plan = job[j].plan /\ row.status = "queued"
            /\ row.attempts = job[j].attempts + 1
      BY <1>1, <2>1 DEF JobRow, JobStatus
    <3>2. row.attempts < MaxAttempts
      BY <2>1, <2>4, <3>1 DEF Exhausted
    <3>3. /\ SetJob(j, row)
          /\ run' = [run EXCEPT ![j] = "queued"]
          /\ plan' = plan
          /\ stale' = stale \ {j}
          /\ Become(w, NoTx("idle"))
          /\ crashes' = crashes
          /\ worker[w].pc = "failing"
      BY <1>6, <2>4 DEF HandleFailure
    <3>4. ~(row.attempts >= MaxAttempts) /\ ~(row.attempts > MaxAttempts)
      BY <2>1, <3>1, <3>2
    <3> QED
      BY <1>3, <2>2, <3>1, <3>3, <3>4 DEF Ending
  <2> QED
    BY <2>3, <2>4
<1> QED
  BY <1>4, <1>5, <1>6

(* Every step of the system is of one of the kinds.                        *)
LEMMA StepKinds ==
  ASSUME Sound, [Next]_vars
  PROVE  \/ \E p \in Plan, j \in Job : Enqueued(p, j)
         \/ \E j \in Job : BackoffElapses(j)
         \/ \E j \in Job : HeartbeatTimeout(j)
         \/ \E w \in Worker : Start(w)
         \/ \E w \in Worker : Leave(w)
         \/ \E w \in Worker : Claim(w)
         \/ \E w \in Worker : Inside(w)
         \/ \E w \in Worker, s \in {"queued", "completed", "failed"} : Ending(w, s)
         \/ UNCHANGED vars
<1>1. ASSUME NEW p \in Plan, Generate(p) \/ Regenerate(p) \/ RegenerateMeal(p)
      PROVE  \E j \in Job : Enqueued(p, j)
  <2>1. meals[p] \in SUBSET Job /\ {} \in SUBSET Job
    BY DEF Sound, TypeOK
  <2> QED
    BY <1>1, <2>1 DEF Generate, Regenerate, RegenerateMeal, EnqueueRun, Enqueued
<1>2. ASSUME NEW w \in Worker, Stop(w) \/ Crash(w) PROVE Leave(w)
  BY <1>2, QueueAssumption DEF Stop, Crash, Leave, Sound, TypeOK
<1> QED
  BY <1>1, <1>2, InsideSteps, EndingSteps DEF Next, Api, Clock, Work

-----------------------------------------------------------------------------
(* The reaper, seen from one row: untouched, put back, or dead-lettered.   *)
Reaped(j) ==
    \/ job'[j] = job[j] /\ run'[j] = run[j]
    \/ /\ job[j].status = "collecting_data"
       /\ job'[j].status = "queued"
       /\ run'[j] = run[j]
       /\ job[j].attempts + 1 < MaxAttempts
       /\ job'[j].attempts = job[j].attempts + 1
       /\ job'[j].plan = job[j].plan
    \/ /\ job[j].status = "collecting_data"
       /\ job'[j].status = "failed"
       /\ run'[j] = "failed"
       /\ job'[j].attempts = job[j].attempts + 1
       /\ job'[j].plan = job[j].plan
       /\ plan'[job[j].plan] = "failed"

(* recover_abandoned_jobs writes the rows of abandoned jobs and nothing    *)
(* else.                                                                   *)
LEMMA StartReaps ==
  ASSUME Sound, NEW w \in Worker, Start(w)
  PROVE  /\ \A j \in Job : Reaped(j)
         /\ \A p \in Plan : plan'[p] \in {plan[p], "failed"}
         /\ TypeOK'
<1> USE QueueAssumption
<1>1. ASSUME NEW j \in Job PROVE Reaped(j) /\ job'[j] \in JobRow /\ run'[j] \in RunStatus
  <2>0. job[j] \in JobRow /\ run[j] \in RunStatus
    BY DEF Sound, TypeOK
  <2>1. job[j].attempts \in Nat
    BY <2>0 DEF JobRow
  <2>2. job[j].attempts + 1 \in Nat /\ (~Exhausted(j) => job[j].attempts + 1 < MaxAttempts)
    BY <2>1 DEF Exhausted
  <2>3. CASE j \notin Abandoned(w)
    <3>1. job'[j] = job[j] /\ run'[j] = run[j]
      BY <2>3 DEF Start
    <3> QED
      BY <2>0, <3>1 DEF Reaped
  <2>4. CASE j \in Abandoned(w) /\ ~Exhausted(j)
    <3> DEFINE row == [job[j] EXCEPT !.attempts = @ + 1, !.due = TRUE, !.status = "queued"]
    <3>1. job'[j] = row /\ run'[j] = run[j]
      BY <2>4 DEF Start
    <3>2. row \in JobRow /\ row.attempts = job[j].attempts + 1
            /\ row.plan = job[j].plan /\ row.status = "queued"
      BY <2>0, <2>2 DEF JobRow, JobStatus
    <3>3. job[j].status = "collecting_data"
      BY <2>4 DEF Abandoned
    <3> QED
      BY <2>0, <2>2, <2>4, <3>1, <3>2, <3>3 DEF Reaped
  <2>5. CASE j \in Abandoned(w) /\ Exhausted(j)
    <3> DEFINE row == [job[j] EXCEPT !.attempts = @ + 1, !.due = TRUE, !.status = "failed"]
    <3>1. job'[j] = row /\ run'[j] = "failed"
      BY <2>5 DEF Start
    <3>2. row \in JobRow /\ row.attempts = job[j].attempts + 1
            /\ row.plan = job[j].plan /\ row.status = "failed"
      BY <2>0, <2>2 DEF JobRow, JobStatus
    <3>3. job[j].status = "collecting_data"
      BY <2>5 DEF Abandoned
    <3>4. job[j].plan \in Plan
      BY <3>3 DEF Sound, Shape
    <3>5. plan'[job[j].plan] = "failed"
      BY <2>5, <3>4 DEF Start
    <3> QED
      BY <3>1, <3>2, <3>3, <3>5 DEF Reaped, RunStatus
  <2> QED
    BY <2>3, <2>4, <2>5
<1>2. \A p \in Plan : plan'[p] \in {plan[p], "failed"}
  BY DEF Start
<1>3. job' \in [Job -> JobRow] /\ run' \in [Job -> RunStatus]
  BY <1>1 DEF Start
<1>4. plan' \in [Plan -> PlanStatus]
  BY <1>2 DEF Start, Sound, TypeOK, PlanStatus
<1>5. worker' \in [Worker -> Process]
  BY NoTxType DEF Start, Become, Sound, TypeOK, PC
<1>6. stale' \in SUBSET Job /\ UNCHANGED <<meals, list, crashes>>
  BY DEF Start, Sound, TypeOK
<1> QED
  BY <1>1, <1>2, <1>3, <1>4, <1>5, <1>6 DEF Sound, TypeOK

(* Every action keeps the rows and the transactions well formed.           *)
LEMMA TypeStep == ASSUME Sound, [Next]_vars PROVE TypeOK'
<1> USE QueueAssumption
<1>1. ASSUME NEW p \in Plan, NEW j \in Job, Enqueued(p, j) PROVE TypeOK'
  BY <1>1 DEF Enqueued, SetJob, Sound, TypeOK, JobRow, JobStatus, RunStatus, PlanStatus
<1>2. ASSUME NEW j \in Job, BackoffElapses(j) PROVE TypeOK'
  BY <1>2 DEF BackoffElapses, SetJob, Sound, TypeOK, JobRow
<1>3. ASSUME NEW j \in Job, HeartbeatTimeout(j) PROVE TypeOK'
  BY <1>3 DEF HeartbeatTimeout, Sound, TypeOK
<1>4. ASSUME NEW w \in Worker, Leave(w) PROVE TypeOK'
  BY <1>4, NoTxType DEF Leave, Become, Sound, TypeOK, PC
<1>5. ASSUME NEW w \in Worker, Claim(w) PROVE TypeOK'
  <2>1. PICK j \in Job :
          /\ SetJob(j, [job[j] EXCEPT !.status = "collecting_data"])
          /\ stale' = stale \ {j}
          /\ Become(w, [NoTx("claimed") EXCEPT !.job = j])
    BY <1>5 DEF Claim, Claimable
  <2>2. [job[j] EXCEPT !.status = "collecting_data"] \in JobRow
    BY DEF Sound, TypeOK, JobRow, JobStatus
  <2>3. [NoTx("claimed") EXCEPT !.job = j] \in Process
    BY NoTxType DEF Process, PC
  <2> QED
    BY <1>5, <2>1, <2>2, <2>3 DEF Claim, SetJob, Become, Sound, TypeOK
<1>6. ASSUME NEW w \in Worker, Inside(w) PROVE TypeOK'
  BY <1>6 DEF Inside, Become, Sound, TypeOK
<1>7. ASSUME NEW w \in Worker, NEW s \in {"queued", "completed", "failed"}, Ending(w, s)
      PROVE  TypeOK'
  <2>1. job' \in [Job -> JobRow] /\ run' \in [Job -> RunStatus]
    <3>1. PICK row \in JobRow : SetJob(worker[w].job, row)
      BY <1>7 DEF Ending
    <3>2. run' = [run EXCEPT ![worker[w].job] = s]
      BY <1>7 DEF Ending
    <3>3. s \in RunStatus
      BY DEF RunStatus
    <3> QED
      BY <3>1, <3>2, <3>3 DEF SetJob, Sound, TypeOK
  <2>2. plan' \in [Plan -> PlanStatus]
    <3>1. \A t \in {"ready", "failed"} : SetPlan(w, t) \in [Plan -> PlanStatus]
      BY DEF SetPlan, Sound, TypeOK, PlanStatus
    <3>2. plan' = plan \/ \E t \in {"ready", "failed"} : plan' = SetPlan(w, t)
      BY <1>7 DEF Ending
    <3> QED
      BY <3>1, <3>2 DEF Sound, TypeOK
  <2>3. worker' \in [Worker -> Process]
    BY <1>7, NoTxType DEF Ending, Become, Sound, TypeOK, PC
  <2> QED
    BY <1>7, <2>1, <2>2, <2>3 DEF Ending, Sound, TypeOK
<1>8. CASE UNCHANGED vars
  BY <1>8 DEF vars, Sound, TypeOK
<1> QED
  BY <1>1, <1>2, <1>3, <1>4, <1>5, <1>6, <1>7, <1>8, StepKinds, StartReaps

(* The frame of a step: jobs never disappear, and no process changes job   *)
(* without claiming one or ending.                                         *)
LEMMA JobsStay ==
  ASSUME Sound, [Next]_vars, NEW j \in Job, job[j].status # "absent"
  PROVE  job'[j].status # "absent" /\ job'[j].plan = job[j].plan
<1>1. ASSUME NEW p \in Plan, NEW i \in Job, Enqueued(p, i) PROVE job'[j] = job[j]
  BY <1>1 DEF Enqueued, SetJob, Sound, TypeOK
<1>2. ASSUME NEW i \in Job, BackoffElapses(i)
      PROVE  job'[j].status = job[j].status /\ job'[j].plan = job[j].plan
  BY <1>2 DEF BackoffElapses, SetJob, Sound, TypeOK, JobRow
<1>3. ASSUME NEW w \in Worker, Claim(w)
      PROVE  job'[j].status # "absent" /\ job'[j].plan = job[j].plan
  BY <1>3 DEF Claim, Claimable, SetJob, Sound, TypeOK, JobRow
<1>4. ASSUME NEW w \in Worker, NEW s \in {"queued", "completed", "failed"}, Ending(w, s)
      PROVE  job'[j].status # "absent" /\ job'[j].plan = job[j].plan
  BY <1>4 DEF Ending, SetJob, Sound, TypeOK
<1>5. ASSUME NEW w \in Worker, Start(w)
      PROVE  job'[j].status # "absent" /\ job'[j].plan = job[j].plan
  BY <1>5, StartReaps DEF Reaped
<1> QED
  BY <1>1, <1>2, <1>3, <1>4, <1>5, StepKinds
     DEF HeartbeatTimeout, Leave, Inside, vars

(* No action makes a process hold a job that was never enqueued, nor a job *)
(* row that names no plan.                                                 *)
LEMMA ShapeStep == ASSUME Sound, [Next]_vars PROVE Shape'
<1>1. ASSUME NEW j \in Job, job'[j].status # "absent" PROVE job'[j].plan \in Plan
  <2>1. CASE job[j].status # "absent"
    BY <2>1, JobsStay DEF Sound, Shape
  <2>2. CASE job[j].status = "absent"
    <3>1. ASSUME NEW p \in Plan, NEW i \in Job, Enqueued(p, i) PROVE job'[j].plan \in Plan
      BY <1>1, <2>2, <3>1 DEF Enqueued, SetJob, Sound, TypeOK
    <3>2. ASSUME NEW i \in Job, BackoffElapses(i) PROVE job'[j] = job[j]
      BY <2>2, <3>2 DEF BackoffElapses, SetJob, Sound, TypeOK
    <3>3. ASSUME NEW w \in Worker, Claim(w) PROVE job'[j] = job[j]
      BY <2>2, <3>3 DEF Claim, Claimable, SetJob, Sound, TypeOK
    <3>4. ASSUME NEW w \in Worker, NEW s \in {"queued", "completed", "failed"}, Ending(w, s)
          PROVE  job'[j] = job[j]
      BY <2>2, <3>4 DEF Ending, SetJob, Sound, Shape, TypeOK
    <3>5. ASSUME NEW w \in Worker, Start(w) PROVE job'[j] = job[j]
      BY <2>2, <3>5, StartReaps DEF Reaped
    <3> QED
      BY <1>1, <2>2, <3>1, <3>2, <3>3, <3>4, <3>5, StepKinds
         DEF HeartbeatTimeout, Leave, Inside, vars
  <2> QED
    BY <2>1, <2>2
<1>2. ASSUME NEW w \in Worker
      PROVE  /\ worker'[w].pc \notin {"down", "idle"} => worker'[w].job \in Job
             /\ worker'[w].pc \in {"down", "idle"} => worker'[w].job = NoJob
             /\ worker'[w].job \in Job => job'[worker'[w].job].status # "absent"
  <2>1. NoJob \notin Job
    BY DEF NoJob, Job
  <2>2. CASE worker'[w] = worker[w]
    BY <2>2, JobsStay DEF Sound, Shape
  <2>3. CASE worker'[w] \in {NoTx("idle"), NoTx("down")}
    BY <2>1, <2>3 DEF NoTx
  <2>4. CASE Claim(w)
    <3>1. PICK j \in Job :
            /\ SetJob(j, [job[j] EXCEPT !.status = "collecting_data"])
            /\ Become(w, [NoTx("claimed") EXCEPT !.job = j])
      BY <2>4 DEF Claim, Claimable
    <3>2. worker'[w].pc = "claimed" /\ worker'[w].job = j
      BY <3>1 DEF Become, NoTx, Sound, TypeOK
    <3>3. job'[j].status = "collecting_data"
      BY <3>1 DEF SetJob, Sound, TypeOK, JobRow
    <3> QED
      BY <3>2, <3>3
  <2>5. CASE Inside(w)
    BY <2>5, JobsStay DEF Inside, Become, Sound, Shape, TypeOK
  <2>6. ASSUME NEW v \in Worker, v # w, Claim(v) PROVE worker'[w] = worker[w]
    BY <2>6 DEF Claim, Become, Sound, TypeOK
  <2>7. ASSUME NEW v \in Worker, v # w, Inside(v) PROVE worker'[w] = worker[w]
    BY <2>7 DEF Inside, Become, Sound, TypeOK
  <2>8. ASSUME NEW v \in Worker,
               \/ Start(v) \/ Leave(v)
               \/ \E s \in {"queued", "completed", "failed"} : Ending(v, s)
        PROVE  worker'[w] \in {worker[w], NoTx("idle"), NoTx("down")}
    BY <2>8 DEF Start, Leave, Ending, Become, Sound, TypeOK
  <2> QED
    BY <2>2, <2>3, <2>4, <2>5, <2>6, <2>7, <2>8, StepKinds
       DEF Enqueued, BackoffElapses, HeartbeatTimeout, vars
<1> QED
  BY <1>1, <1>2 DEF Shape

(* The rows and the transactions are well formed, and a process works only *)
(* on a job that exists.                                                   *)
THEOREM SoundInvariant == Spec => []Sound
<1>1. Init => Sound
  BY QueueAssumption
     DEF Init, Sound, Shape, TypeOK, NoRow, NoTx, JobRow, Process, PC, JobStatus,
         RunStatus, PlanStatus, NoJob, Job
<1>2. Sound /\ [Next]_vars => Sound'
  BY TypeStep, ShapeStep DEF Sound
<1> QED
  BY <1>1, <1>2, PTL DEF Spec

(* Every reachable row, transaction and counter has its type.              *)
THEOREM TypeCorrect == Spec => []TypeOK
<1>1. Sound => TypeOK
  BY DEF Sound
<1> QED
  BY <1>1, SoundInvariant, PTL

-----------------------------------------------------------------------------
(* Run and job agree in every state: every commit of process_job,          *)
(* _handle_failure, claim_job and the reaper writes both consistently.     *)
THEOREM RunAlwaysFollowsJob == Spec => []RunFollowsJob
<1>1. Init => RunFollowsJob
  BY DEF Init, RunFollowsJob, NoRow
<1>2. Sound /\ RunFollowsJob /\ [Next]_vars => RunFollowsJob'
  <2> SUFFICES ASSUME Sound, RunFollowsJob, [Next]_vars, NEW j \in Job
               PROVE  run'[j] = IF job'[j].status = "collecting_data"
                                THEN "queued" ELSE job'[j].status
    BY DEF RunFollowsJob
  <2>1. ASSUME NEW p \in Plan, NEW i \in Job, Enqueued(p, i)
        PROVE  \/ job'[j] = job[j] /\ run'[j] = run[j]
               \/ job'[j].status = "queued" /\ run'[j] = "queued"
    BY <2>1 DEF Enqueued, SetJob, Sound, TypeOK
  <2>2. ASSUME NEW i \in Job, BackoffElapses(i)
        PROVE  job'[j].status = job[j].status /\ run'[j] = run[j]
    BY <2>2 DEF BackoffElapses, SetJob, Sound, TypeOK, JobRow
  <2>3. ASSUME NEW w \in Worker, Claim(w)
        PROVE  /\ run'[j] = run[j]
               /\ \/ job'[j] = job[j]
                  \/ job[j].status = "queued" /\ job'[j].status = "collecting_data"
    BY <2>3 DEF Claim, Claimable, SetJob, Sound, TypeOK, JobRow
  <2>4. ASSUME NEW w \in Worker, NEW s \in {"queued", "completed", "failed"}, Ending(w, s)
        PROVE  \/ job'[j] = job[j] /\ run'[j] = run[j]
               \/ job'[j].status = s /\ run'[j] = s
    BY <2>4 DEF Ending, SetJob, Sound, TypeOK
  <2>5. ASSUME NEW w \in Worker, Start(w) PROVE Reaped(j)
    BY <2>5, StartReaps
  <2>6. run[j] = IF job[j].status = "collecting_data" THEN "queued" ELSE job[j].status
    BY DEF RunFollowsJob
  <2> QED
    BY <2>1, <2>2, <2>3, <2>4, <2>5, <2>6, StepKinds
       DEF HeartbeatTimeout, Leave, Inside, Reaped, vars
<1> QED
  BY <1>1, <1>2, SoundInvariant, PTL DEF Spec

(* The strengthening behind GeneratingPlanHasWork: among the open jobs of  *)
(* a generating plan, one is such that no process working on it loaded the *)
(* plan in another status; whatever that process commits is then a real    *)
(* change of the row, and SQLAlchemy sends it.                             *)
Settles(j) ==
    \A w \in Worker :
        worker[w].job = j /\ worker[w].pc # "claimed" => worker[w].planSeen = "generating"

WorkInv ==
    \A p \in Plan :
        plan[p] = "generating" =>
            \E j \in Job : job[j].plan = p /\ Open(j) /\ Settles(j)

(* No step leaves a generating plan without a job that will settle it:     *)
(* whoever settles a job writes the status of its plan, and whoever skips  *)
(* that write has already read a settled status.                           *)
LEMMA WorkStep == Sound /\ WorkInv /\ [Next]_vars => WorkInv'
<1> SUFFICES ASSUME Sound, WorkInv, [Next]_vars,
                    NEW p \in Plan, plan'[p] = "generating"
             PROVE  \E j \in Job : job'[j].plan = p /\ Open(j)' /\ Settles(j)'
  BY DEF WorkInv
<1>1. ASSUME NEW q \in Plan, NEW i \in Job, Enqueued(q, i), q = p
      PROVE  job'[i].plan = p /\ Open(i)' /\ Settles(i)'
  <2>1. job'[i].plan = p /\ job'[i].status = "queued"
    BY <1>1 DEF Enqueued, SetJob, Sound, TypeOK
  <2>2. \A w \in Worker : worker'[w] = worker[w] /\ worker[w].job # i
    BY <1>1 DEF Enqueued, Sound, Shape
  <2> QED
    BY <2>1, <2>2 DEF Open, Settles
(* In every other case the plan was generating before.                     *)
<1>2. ASSUME plan[p] = "generating", UNCHANGED worker,
             \A j \in Job : Open(j) => job'[j].plan = job[j].plan /\ Open(j)'
      PROVE  \E j \in Job : job'[j].plan = p /\ Open(j)' /\ Settles(j)'
  BY <1>2 DEF WorkInv, Settles
<1>3. ASSUME NEW q \in Plan, NEW i \in Job, Enqueued(q, i), q # p
      PROVE  \E j \in Job : job'[j].plan = p /\ Open(j)' /\ Settles(j)'
  <2>1. plan[p] = "generating" /\ UNCHANGED worker
    BY <1>3 DEF Enqueued, Sound, TypeOK
  <2>2. \A j \in Job : Open(j) => job'[j] = job[j]
    BY <1>3 DEF Enqueued, SetJob, Open, Sound, TypeOK
  <2> QED
    BY <1>2, <2>1, <2>2 DEF Open
<1>4. ASSUME NEW i \in Job, BackoffElapses(i)
      PROVE  \E j \in Job : job'[j].plan = p /\ Open(j)' /\ Settles(j)'
  <2>1. \A j \in Job : job'[j].plan = job[j].plan /\ job'[j].status = job[j].status
    BY <1>4 DEF BackoffElapses, SetJob, Sound, TypeOK, JobRow
  <2> QED
    BY <1>2, <1>4, <2>1 DEF BackoffElapses, Open
<1>5. ASSUME UNCHANGED <<job, plan, worker>>
      PROVE  \E j \in Job : job'[j].plan = p /\ Open(j)' /\ Settles(j)'
  BY <1>2, <1>5 DEF Open
<1>6. ASSUME NEW w \in Worker, Leave(w)
      PROVE  \E j \in Job : job'[j].plan = p /\ Open(j)' /\ Settles(j)'
  <2>1. PICK j \in Job : job[j].plan = p /\ Open(j) /\ Settles(j)
    BY <1>6 DEF Leave, WorkInv
  <2>2. \A v \in Worker : worker'[v] = worker[v] \/ worker'[v].job = NoJob
    BY <1>6 DEF Leave, Become, NoTx, Sound, TypeOK
  <2>3. j # NoJob
    BY DEF NoJob, Job
  <2> QED
    BY <1>6, <2>1, <2>2, <2>3 DEF Leave, Open, Settles
<1>7. ASSUME NEW w \in Worker, Start(w)
      PROVE  \E j \in Job : job'[j].plan = p /\ Open(j)' /\ Settles(j)'
  <2>1. plan[p] = "generating"
    BY <1>7, StartReaps
  <2>2. PICK j \in Job : job[j].plan = p /\ Open(j) /\ Settles(j)
    BY <2>1 DEF WorkInv
  <2>3. Reaped(j)
    BY <1>7, StartReaps
  <2>4. job'[j].plan = p /\ Open(j)'
    BY <2>2, <2>3 DEF Reaped, Open
  <2>5. \A v \in Worker : worker'[v] = worker[v] \/ worker'[v].job = NoJob
    BY <1>7 DEF Start, Become, NoTx, Sound, TypeOK
  <2>6. j # NoJob
    BY DEF NoJob, Job
  <2> QED
    BY <2>2, <2>4, <2>5, <2>6 DEF Settles
<1>8. ASSUME NEW w \in Worker, Claim(w)
      PROVE  \E j \in Job : job'[j].plan = p /\ Open(j)' /\ Settles(j)'
  <2>1. PICK j \in Job : job[j].plan = p /\ Open(j) /\ Settles(j)
    BY <1>8 DEF Claim, WorkInv
  <2>2. job'[j].plan = p /\ Open(j)'
    BY <1>8, <2>1 DEF Claim, SetJob, Sound, TypeOK, JobRow, Open
  <2>3. \A v \in Worker : worker'[v] = worker[v] \/ worker'[v].pc = "claimed"
    BY <1>8 DEF Claim, Become, NoTx, Sound, TypeOK
  <2> QED
    BY <2>1, <2>2, <2>3 DEF Settles
<1>9. ASSUME NEW w \in Worker, Inside(w)
      PROVE  \E j \in Job : job'[j].plan = p /\ Open(j)' /\ Settles(j)'
  <2>1. PICK j \in Job : job[j].plan = p /\ Open(j) /\ Settles(j)
    BY <1>9 DEF Inside, WorkInv
  <2>2. plan[p] = "generating"
    BY <1>9 DEF Inside
  <2>3. PICK r \in Process :
          /\ r.job = worker[w].job
          /\ \/ worker[w].pc = "claimed" /\ r.planSeen = plan[PlanOf(w)]
             \/ worker[w].pc # "claimed" /\ r.planSeen = worker[w].planSeen
          /\ worker' = [worker EXCEPT ![w] = r]
    BY <1>9 DEF Inside, Become
  <2>4. worker[w].job = j => r.planSeen = "generating"
    BY <2>1, <2>2, <2>3 DEF PlanOf, Settles
  <2>5. Settles(j)'
    BY <2>1, <2>3, <2>4 DEF Settles, Sound, TypeOK
  <2> QED
    BY <1>9, <2>1, <2>5 DEF Inside, Open
<1>10. ASSUME NEW w \in Worker, NEW s \in {"queued", "completed", "failed"}, Ending(w, s)
       PROVE  \E j \in Job : job'[j].plan = p /\ Open(j)' /\ Settles(j)'
  <2>1. worker[w].job \in Job /\ PlanOf(w) \in Plan
    BY <1>10 DEF Ending, Sound, Shape, PlanOf
  <2>2. plan[p] = "generating"
    BY <1>10, <2>1 DEF Ending, SetPlan, Sound, TypeOK
  <2>3. PICK j \in Job : job[j].plan = p /\ Open(j) /\ Settles(j)
    BY <2>2 DEF WorkInv
  <2>4. Settles(j)'
    <3>1. \A v \in Worker : worker'[v] = worker[v] \/ worker'[v].job = NoJob
      BY <1>10 DEF Ending, Become, NoTx, Sound, TypeOK
    <3>2. j # NoJob
      BY DEF NoJob, Job
    <3> QED
      BY <2>3, <3>1, <3>2 DEF Settles
  <2>5. CASE worker[w].job # j
    <3>1. job'[j] = job[j]
      BY <1>10, <2>5 DEF Ending, SetJob, Sound, TypeOK
    <3> QED
      BY <2>3, <2>4, <3>1 DEF Open
  <2>6. CASE worker[w].job = j /\ s = "queued"
    <3>1. job'[j].plan = p /\ job'[j].status = "queued"
      BY <1>10, <2>3, <2>6 DEF Ending, SetJob, Sound, TypeOK
    <3> QED
      BY <2>4, <3>1 DEF Open
  <2>7. CASE worker[w].job = j /\ s # "queued"
    <3>1. worker[w].planSeen = "generating"
      BY <1>10, <2>3, <2>7 DEF Ending, Settles
    <3>2. PICK t \in {"ready", "failed"} : plan' = SetPlan(w, t)
      BY <1>10, <2>7 DEF Ending
    <3>3. plan'[p] = t
      BY <2>3, <2>7, <3>1, <3>2 DEF SetPlan, PlanOf, Sound, TypeOK
    <3> QED
      BY <3>3
  <2> QED
    BY <2>5, <2>6, <2>7
<1> QED
  BY <1>1, <1>3, <1>4, <1>5, <1>6, <1>7, <1>8, <1>9, <1>10, StepKinds
     DEF HeartbeatTimeout, vars

(* No order of requests, failures, restarts and rival jobs, for any number *)
(* of workers and even when jobs outlive the reaper's timeout, leaves a    *)
(* plan generating with no job that will settle it.                        *)
THEOREM GeneratingPlanAlwaysHasWork == Spec => []GeneratingPlanHasWork
<1>1. Init => WorkInv
  BY DEF Init, WorkInv
<1>2. WorkInv => GeneratingPlanHasWork
  BY DEF WorkInv, GeneratingPlanHasWork
<1> QED
  BY <1>1, <1>2, WorkStep, SoundInvariant, PTL DEF Spec

-----------------------------------------------------------------------------
(* When no job outlives the reaper's timeout.                              *)

(* A job in a process's hands is never an abandoned one.                   *)
Exclusive ==
    /\ OneProcessorPerJob
    /\ \A w \in Worker : Busy(w) => worker[w].job \notin stale

(* A busy process holds a job of the table.                                *)
LEMMA BusyJob == ASSUME Sound, NEW w \in Worker, Busy(w) PROVE worker[w].job \in Job
  BY DEF Sound, TypeOK, Busy, Process

(* A step that gives no process a job, and leaves the rows of the jobs in  *)
(* progress in other hands alone, keeps Exclusive.                         *)
LEMMA ReleaseKeepsExclusive ==
  ASSUME Sound, Exclusive,
         \A v \in Worker :
            \/ worker'[v].job = NoJob
            \/ /\ worker'[v].job = worker[v].job
               /\ Busy(v) => /\ job'[worker[v].job].status = "collecting_data"
                             /\ worker[v].job \notin stale'
  PROVE  Exclusive'
  BY DEF Exclusive, OneProcessorPerJob, Busy

(* A claim takes only a queued job, the reaper only a stale one, and with  *)
(* jobs faster than the timeout no job held by a process is either.        *)
LEMMA ExclusiveStep ==
  ASSUME ~SlowJobs, Sound, Exclusive, [Next]_vars PROVE Exclusive'
<1>0. \A v \in Worker : Busy(v) =>
        /\ worker[v].job \in Job
        /\ job[worker[v].job].status = "collecting_data"
        /\ worker[v].job \notin stale
  BY BusyJob DEF Exclusive, OneProcessorPerJob
<1>1. ASSUME NEW p \in Plan, NEW i \in Job, Enqueued(p, i) PROVE Exclusive'
  <2>1. \A j \in Job : job[j].status = "collecting_data" => job'[j] = job[j]
    BY <1>1 DEF Enqueued, SetJob, Sound, TypeOK
  <2> QED
    BY <1>0, <1>1, <2>1, ReleaseKeepsExclusive DEF Enqueued
<1>2. ASSUME NEW i \in Job, BackoffElapses(i) PROVE Exclusive'
  <2>1. \A j \in Job : job[j].status = "collecting_data" => job'[j] = job[j]
    BY <1>2 DEF BackoffElapses, SetJob, Sound, TypeOK
  <2> QED
    BY <1>0, <1>2, <2>1, ReleaseKeepsExclusive DEF BackoffElapses
<1>3. ASSUME NEW i \in Job, HeartbeatTimeout(i) PROVE Exclusive'
  BY <1>0, <1>3, ReleaseKeepsExclusive DEF HeartbeatTimeout
<1>4. ASSUME NEW w \in Worker, Start(w) PROVE Exclusive'
  <2>1. \A j \in Job : j \notin stale => job'[j] = job[j]
    BY <1>4 DEF Start, Abandoned
  <2>2. stale' \subseteq stale
    BY <1>4 DEF Start
  <2>3. \A v \in Worker : worker'[v] = worker[v] \/ worker'[v].job = NoJob
    BY <1>4 DEF Start, Become, NoTx, Sound, TypeOK
  <2> QED
    BY <1>0, <2>1, <2>2, <2>3, ReleaseKeepsExclusive
<1>5. ASSUME NEW w \in Worker, Leave(w) PROVE Exclusive'
  <2>1. \A v \in Worker : worker'[v] = worker[v] \/ worker'[v].job = NoJob
    BY <1>5 DEF Leave, Become, NoTx, Sound, TypeOK
  <2> QED
    BY <1>0, <1>5, <2>1, ReleaseKeepsExclusive DEF Leave
<1>6. ASSUME NEW w \in Worker, Claim(w) PROVE Exclusive'
  <2>1. PICK j \in Job :
          /\ job[j].status = "queued"
          /\ SetJob(j, [job[j] EXCEPT !.status = "collecting_data"])
          /\ stale' = stale \ {j}
          /\ Become(w, [NoTx("claimed") EXCEPT !.job = j])
    BY <1>6 DEF Claim, Claimable
  <2>2. \A v \in Worker : Busy(v) => worker[v].job # j
    BY <1>0, <2>1
  <2>3. worker'[w].job = j /\ \A v \in Worker \ {w} : worker'[v] = worker[v]
    BY <2>1 DEF Become, NoTx, Sound, TypeOK
  <2>4. job'[j].status = "collecting_data" /\ \A i \in Job \ {j} : job'[i] = job[i]
    BY <2>1 DEF SetJob, Sound, TypeOK, JobRow
  <2>5. \A v \in Worker : Busy(v)' =>
          /\ job'[worker'[v].job].status = "collecting_data"
          /\ worker'[v].job \notin stale'
    BY <1>0, <2>1, <2>2, <2>3, <2>4 DEF Busy
  <2>6. \A u, v \in Worker : Busy(u)' /\ worker'[v].job = worker'[u].job => u = v
    BY <2>2, <2>3 DEF Busy, Exclusive, OneProcessorPerJob
  <2> QED
    BY <2>5, <2>6 DEF Exclusive, OneProcessorPerJob, Busy
<1>7. ASSUME NEW w \in Worker, Inside(w) PROVE Exclusive'
  <2>1. \A v \in Worker : worker'[v].job = worker[v].job
    BY <1>7 DEF Inside, Become, Sound, TypeOK
  <2> QED
    BY <1>0, <1>7, <2>1, ReleaseKeepsExclusive DEF Inside
<1>8. ASSUME NEW w \in Worker, NEW s \in {"queued", "completed", "failed"}, Ending(w, s)
      PROVE  Exclusive'
  <2>1. worker[w].job \in Job /\ Busy(w)
    BY <1>8 DEF Ending, Sound, Shape, Busy, NoJob, Job
  <2>2. \A v \in Worker : Busy(v) /\ v # w => worker[v].job # worker[w].job
    BY <2>1 DEF Exclusive, OneProcessorPerJob
  <2>3. worker'[w].job = NoJob /\ \A v \in Worker \ {w} : worker'[v] = worker[v]
    BY <1>8 DEF Ending, Become, NoTx, Sound, TypeOK
  <2>4. \A i \in Job : i # worker[w].job => job'[i] = job[i]
    BY <1>8 DEF Ending, SetJob, Sound, TypeOK
  <2>5. stale' \subseteq stale
    BY <1>8 DEF Ending
  <2> QED
    BY <1>0, <2>2, <2>3, <2>4, <2>5, ReleaseKeepsExclusive
<1>9. CASE UNCHANGED vars
  BY <1>0, <1>9, ReleaseKeepsExclusive DEF vars
<1> QED
  BY <1>1, <1>2, <1>3, <1>4, <1>5, <1>6, <1>7, <1>8, <1>9, StepKinds

(* Two processes never hold the same job, whatever crashes and restarts    *)
(* happen, when no job outlives the reaper's timeout.                      *)
THEOREM ExclusiveInvariant ==
  ASSUME ~SlowJobs
  PROVE  Spec => []Exclusive
<1>1. Init => Exclusive
  BY DEF Init, Exclusive, OneProcessorPerJob, Busy, NoTx
<1>2. Sound /\ Exclusive /\ [Next]_vars => Exclusive'
  BY ExclusiveStep
<1> QED
  BY <1>1, <1>2, SoundInvariant, PTL DEF Spec

(* "Multiple workers never grab the same job" (worker/main.py), for any    *)
(* number of workers, jobs and crashes, when no job outlives the reaper's  *)
(* timeout.                                                                *)
THEOREM OneProcessorAlways ==
  ASSUME ~SlowJobs
  PROVE  Spec => []OneProcessorPerJob
<1>1. Exclusive => OneProcessorPerJob
  BY DEF Exclusive
<1> QED
  BY <1>1, ExclusiveInvariant, PTL

(* Who may change a job's row: the request that creates it, the clock, the *)
(* reaper, the claim, and the one process that holds it.                   *)
LEMMA RowChange ==
  ASSUME Sound, Exclusive, [Next]_vars, NEW j \in Job
  PROVE  \/ job'[j].status = job[j].status /\ job'[j].attempts = job[j].attempts
         \/ job[j].status = "absent" /\ job'[j].status = "queued"
              /\ job'[j].attempts = 0
         \/ Reaped(j)
         \/ job[j].status = "queued" /\ job'[j].status = "collecting_data"
              /\ job'[j].attempts = job[j].attempts
         \/ /\ job[j].status = "collecting_data"
            /\ job'[j].attempts \in {job[j].attempts, job[j].attempts + 1}
            /\ job'[j].attempts >= MaxAttempts =>
                   job'[j].status # "queued" \/ job[j].attempts >= MaxAttempts
            /\ job'[j].attempts > MaxAttempts => job[j].attempts >= MaxAttempts
            /\ job'[j].status # "collecting_data"
<1>1. ASSUME NEW p \in Plan, NEW i \in Job, Enqueued(p, i)
      PROVE  \/ job'[j] = job[j]
             \/ job[j].status = "absent" /\ job'[j].status = "queued"
                  /\ job'[j].attempts = 0
  BY <1>1 DEF Enqueued, SetJob, Sound, TypeOK
<1>2. ASSUME NEW i \in Job, BackoffElapses(i)
      PROVE  job'[j].status = job[j].status /\ job'[j].attempts = job[j].attempts
  BY <1>2 DEF BackoffElapses, SetJob, Sound, TypeOK, JobRow
<1>3. ASSUME NEW w \in Worker, Claim(w)
      PROVE  \/ job'[j] = job[j]
             \/ job[j].status = "queued" /\ job'[j].status = "collecting_data"
                  /\ job'[j].attempts = job[j].attempts
  BY <1>3 DEF Claim, Claimable, SetJob, Sound, TypeOK, JobRow
<1>4. ASSUME NEW w \in Worker, NEW s \in {"queued", "completed", "failed"}, Ending(w, s)
      PROVE  \/ job'[j] = job[j]
             \/ /\ job[j].status = "collecting_data"
                /\ job'[j].attempts \in {job[j].attempts, job[j].attempts + 1}
                /\ job'[j].attempts >= MaxAttempts =>
                       job'[j].status # "queued" \/ job[j].attempts >= MaxAttempts
                /\ job'[j].attempts > MaxAttempts => job[j].attempts >= MaxAttempts
                /\ job'[j].status # "collecting_data"
  <2>1. worker[w].job \in Job /\ job[worker[w].job].status = "collecting_data"
    BY <1>4 DEF Ending, Sound, Shape, Exclusive, OneProcessorPerJob, Busy, NoJob, Job
  <2> QED
    BY <1>4, <2>1 DEF Ending, SetJob, Sound, TypeOK
<1> QED
  BY <1>1, <1>2, <1>3, <1>4, StepKinds, StartReaps
     DEF HeartbeatTimeout, Leave, Inside, vars

(* The attempts of a job never pass the limit, and one at the limit is     *)
(* never waiting or in progress.                                           *)
THEOREM AttemptsAlwaysBounded ==
  ASSUME ~SlowJobs
  PROVE  Spec => []AttemptsBounded
<1> USE QueueAssumption
<1>1. Init => AttemptsBounded
  BY DEF Init, AttemptsBounded, NoRow, Open
<1>2. Sound /\ Exclusive /\ AttemptsBounded /\ [Next]_vars => AttemptsBounded'
  <2> SUFFICES ASSUME Sound, Exclusive, AttemptsBounded, [Next]_vars, NEW j \in Job
               PROVE  /\ job'[j].attempts <= MaxAttempts
                      /\ Open(j)' => job'[j].attempts < MaxAttempts
    BY DEF AttemptsBounded
  <2>1. job[j].attempts \in Nat /\ job[j].attempts <= MaxAttempts
          /\ (Open(j) => job[j].attempts < MaxAttempts)
    BY DEF AttemptsBounded, Sound, TypeOK, JobRow
  <2>2. TypeOK'
    BY TypeStep
  <2>3. job'[j].attempts \in Nat
    BY <2>2 DEF TypeOK, JobRow
  <2> QED
    BY <2>1, <2>3, RowChange DEF Open, Reaped
<1> QED
  BY <1>1, <1>2, SoundInvariant, ExclusiveInvariant, PTL DEF Spec

-----------------------------------------------------------------------------
(* The queue as a board of jobs.                                           *)

(* A job in progress is shown as queued, and no process holds another.     *)
BoardInv == Sound /\ Exclusive /\ RunFollowsJob

LEMMA EnqueuedIsPost ==
  ASSUME BoardInv, NEW p \in Plan, NEW j \in Job, Enqueued(p, j)
  PROVE  Board!Post(j)
<1>1. job \in [Job -> JobRow] /\ run \in [Job -> RunStatus]
  BY DEF BoardInv, Sound, TypeOK
<1>2. /\ job[j].status = "absent"
      /\ job'[j].status = "queued" /\ job'[j].attempts = 0
      /\ \A i \in Job \ {j} : job'[i] = job[i]
  BY <1>1 DEF Enqueued, SetJob
<1>3. JobState[j] = "absent"
  BY <1>2 DEF JobState
<1>4. JobState' = [JobState EXCEPT ![j] = "queued"]
  BY <1>2 DEF JobState
<1>5. Tries' = [Tries EXCEPT ![j] = 0]
  BY <1>2 DEF Tries
<1>6. InHandsOf' = InHandsOf
  BY DEF Enqueued, InHandsOf
<1> QED
  BY <1>3, <1>4, <1>5, <1>6 DEF Enqueued, Board!Post

(* A step that leaves status, attempts and hands alone.                    *)
LEMMA BoardStutters ==
  ASSUME \A j \in Job : job'[j].status = job[j].status /\ job'[j].attempts = job[j].attempts,
         \A w \in Worker : worker'[w].job = worker[w].job,
         run' = run
  PROVE  UNCHANGED Board!board
<1>1. JobState' = JobState /\ Tries' = Tries
  BY DEF JobState, Tries
<1>2. InHandsOf' = InHandsOf
  BY DEF InHandsOf
<1> QED
  BY <1>1, <1>2 DEF Board!board

LEMMA LeaveIsVanish ==
  ASSUME BoardInv, NEW w \in Worker, Leave(w)
  PROVE  Board!Vanish(w)
<1>1. worker'[w].job = NoJob /\ \A v \in Worker \ {w} : worker'[v] = worker[v]
  BY DEF Leave, Become, NoTx, BoardInv, Sound, TypeOK
<1>2. \A j \in Job : j # NoJob
  BY DEF Job, NoJob
<1>3. ASSUME NEW j \in Job
      PROVE  {v \in Worker : worker'[v].job = j} = {v \in Worker : worker[v].job = j} \ {w}
  BY <1>1, <1>2
<1>4. InHandsOf' = [j \in Job |-> InHandsOf[j] \ {w}]
  BY <1>3 DEF InHandsOf
<1>5. JobState' = JobState /\ Tries' = Tries /\ run' = run
  BY DEF Leave, JobState, Tries
<1> QED
  BY <1>4, <1>5 DEF Board!Vanish

LEMMA ClaimIsTake ==
  ASSUME BoardInv, NEW w \in Worker, Claim(w)
  PROVE  \E j \in Job : Board!Take(w, j)
<1>1. PICK j \in Job :
        /\ job[j].status = "queued"
        /\ SetJob(j, [job[j] EXCEPT !.status = "collecting_data"])
        /\ Become(w, [NoTx("claimed") EXCEPT !.job = j])
  BY DEF Claim, Claimable
<1>2. worker'[w].job = j /\ \A v \in Worker \ {w} : worker'[v] = worker[v]
  BY <1>1 DEF Become, NoTx, BoardInv, Sound, TypeOK
<1>3. worker[w].job = NoJob
  BY DEF Claim, BoardInv, Sound, Shape
<1>4. \A i \in Job : i # NoJob
  BY DEF Job, NoJob
<1>5. /\ job'[j].status = "collecting_data" /\ job'[j].attempts = job[j].attempts
      /\ \A i \in Job \ {j} : job'[i] = job[i]
  BY <1>1 DEF SetJob, BoardInv, Sound, TypeOK, JobRow
<1>6. \A v \in Worker : worker[v].job # j
  BY <1>1, <1>4 DEF BoardInv, Exclusive, OneProcessorPerJob, Busy
<1>7. JobState[j] = "queued" /\ InHandsOf[j] = {} /\ \A i \in Job : w \notin InHandsOf[i]
  BY <1>1, <1>3, <1>4, <1>6 DEF JobState, InHandsOf
<1>8. JobState' = [JobState EXCEPT ![j] = "taken"]
  BY <1>5 DEF JobState
<1>9. InHandsOf' = [InHandsOf EXCEPT ![j] = {w}]
  <2>1. ASSUME NEW i \in Job
        PROVE  {v \in Worker : worker'[v].job = i}
                  = IF i = j THEN {w} ELSE {v \in Worker : worker[v].job = i}
    BY <1>2, <1>3, <1>4, <1>6
  <2> QED
    BY <2>1 DEF InHandsOf
<1>10. Tries' = Tries /\ run' = run
  BY <1>5 DEF Tries, Claim
<1> QED
  BY <1>7, <1>8, <1>9, <1>10 DEF Board!Take

(* The process that ends a transaction had its job in hand, alone, and     *)
(* lets go of it.                                                          *)
LEMMA EndingLetsGo ==
  ASSUME BoardInv, NEW w \in Worker, worker[w].pc \notin {"down", "idle"},
         Become(w, NoTx("idle"))
  PROVE  /\ worker[w].job \in Job
         /\ job[worker[w].job].status = "collecting_data"
         /\ Board!InHand(w, worker[w].job)
         /\ InHandsOf' = [InHandsOf EXCEPT ![worker[w].job] = {}]
<1> DEFINE j == worker[w].job
<1>1. j \in Job /\ Busy(w)
  BY DEF BoardInv, Sound, Shape, Busy, NoJob, Job
<1>2. job[j].status = "collecting_data"
  BY <1>1 DEF BoardInv, Exclusive, OneProcessorPerJob
<1>3. \A v \in Worker : worker[v].job = j => v = w
  BY <1>1 DEF BoardInv, Exclusive, OneProcessorPerJob, Busy
<1>4. JobState[j] = "taken" /\ InHandsOf[j] = {w}
  BY <1>1, <1>2, <1>3 DEF JobState, InHandsOf
<1>5. worker'[w].job = NoJob /\ \A v \in Worker \ {w} : worker'[v] = worker[v]
  BY DEF Become, NoTx, BoardInv, Sound, TypeOK
<1>6. \A i \in Job : i # NoJob
  BY DEF Job, NoJob
<1>7. ASSUME NEW i \in Job
      PROVE  {v \in Worker : worker'[v].job = i}
                = IF i = j THEN {} ELSE {v \in Worker : worker[v].job = i}
  BY <1>3, <1>5, <1>6
<1>8. InHandsOf' = [InHandsOf EXCEPT ![j] = {}]
  BY <1>1, <1>7 DEF InHandsOf
<1> QED
  BY <1>1, <1>2, <1>4, <1>8 DEF Board!InHand

LEMMA CommitIsSettle ==
  ASSUME BoardInv, NEW w \in Worker, CommitReady(w) \/ CommitInfeasible(w)
  PROVE  \E j \in Job, o \in {"completed", "failed"} : Board!Settle(w, j, o)
<1> DEFINE j == worker[w].job
<1>1. /\ j \in Job /\ Board!InHand(w, j)
      /\ InHandsOf' = [InHandsOf EXCEPT ![j] = {}]
  BY EndingLetsGo DEF CommitReady, CommitInfeasible
<1>2. PICK o \in {"completed", "failed"} :
        SetJob(j, [job[j] EXCEPT !.status = o]) /\ run' = [run EXCEPT ![j] = o]
  BY DEF CommitReady, CommitInfeasible
<1>3. /\ job'[j].status = o /\ job'[j].attempts = job[j].attempts
      /\ \A i \in Job \ {j} : job'[i] = job[i]
  BY <1>1, <1>2 DEF SetJob, BoardInv, Sound, TypeOK, JobRow
<1>4. JobState' = [JobState EXCEPT ![j] = o]
  BY <1>1, <1>3 DEF JobState
<1>5. Tries' = Tries
  BY <1>3 DEF Tries
<1> QED
  BY <1>1, <1>2, <1>4, <1>5 DEF Board!Settle

(* What a job's row and run are after an execution that counts as failed.  *)
Retried(j) ==
    LET outcome == IF job[j].attempts + 1 < MaxAttempts THEN "queued" ELSE "failed"
    IN /\ job'[j].status = outcome
       /\ run'[j] = outcome
       /\ job'[j].attempts = job[j].attempts + 1

LEMMA RetriedIsUseTry ==
  ASSUME NEW J \in SUBSET Job, run \in [Job -> RunStatus], run' \in [Job -> RunStatus],
         \A j \in J : Retried(j),
         \A j \in Job \ J : job'[j] = job[j] /\ run'[j] = run[j]
  PROVE  Board!UseTry(J)
<1> DEFINE outcome(j) == IF Tries[j] + 1 < MaxAttempts THEN "queued" ELSE "failed"
<1>1. \A j \in Job : Tries[j] = job[j].attempts
  BY DEF Tries
<1>2. JobState' = [j \in Job |-> IF j \in J THEN outcome(j) ELSE JobState[j]]
  <2>1. \A j \in J : job'[j].status = outcome(j) /\ job'[j].status # "collecting_data"
    BY <1>1 DEF Retried
  <2> QED
    BY <2>1 DEF JobState
<1>3. run' = [j \in Job |-> IF j \in J THEN outcome(j) ELSE run[j]]
  BY <1>1 DEF Retried
<1>4. Tries' = [j \in Job |-> IF j \in J THEN Tries[j] + 1 ELSE Tries[j]]
  BY <1>1 DEF Retried, Tries
<1> QED
  BY <1>2, <1>3, <1>4 DEF Board!UseTry

LEMMA FailureIsFail ==
  ASSUME BoardInv, NEW w \in Worker, HandleFailure(w)
  PROVE  \E j \in Job : Board!Fail(w, j)
<1> USE QueueAssumption
<1> DEFINE j == worker[w].job
<1>1. /\ j \in Job /\ Board!InHand(w, j)
      /\ InHandsOf' = [InHandsOf EXCEPT ![j] = {}]
  BY EndingLetsGo DEF HandleFailure
<1>2. job \in [Job -> JobRow] /\ run \in [Job -> RunStatus] /\ job[j].attempts \in Nat
  BY <1>1 DEF BoardInv, Sound, TypeOK, JobRow
<1>3. Exhausted(j) <=> ~(job[j].attempts + 1 < MaxAttempts)
  BY <1>2 DEF Exhausted
<1>4. Retried(j)
  <2>1. CASE Exhausted(j)
    <3>1. SetJob(j, [job[j] EXCEPT !.attempts = @ + 1, !.status = "failed"])
            /\ run' = [run EXCEPT ![j] = "failed"]
      BY <2>1 DEF HandleFailure
    <3> QED
      BY <1>1, <1>2, <1>3, <2>1, <3>1 DEF SetJob, Retried, JobRow
  <2>2. CASE ~Exhausted(j)
    <3>1. SetJob(j, [job[j] EXCEPT !.attempts = @ + 1, !.status = "queued", !.due = FALSE])
            /\ run' = [run EXCEPT ![j] = "queued"]
      BY <2>2 DEF HandleFailure
    <3> QED
      BY <1>1, <1>2, <1>3, <2>2, <3>1 DEF SetJob, Retried, JobRow
  <2> QED
    BY <2>1, <2>2
<1>5. \A i \in Job \ {j} : job'[i] = job[i] /\ run'[i] = run[i]
  BY <1>2 DEF HandleFailure, SetJob
<1>6. run' \in [Job -> RunStatus]
  BY <1>2 DEF HandleFailure, RunStatus
<1>7. Board!UseTry({j})
  BY <1>1, <1>2, <1>4, <1>5, <1>6, RetriedIsUseTry
<1> QED
  BY <1>1, <1>7 DEF Board!Fail

(* recover_abandoned_jobs takes back only jobs whose process is gone.      *)
LEMMA StartIsTakeBack ==
  ASSUME BoardInv, NEW w \in Worker, Start(w)
  PROVE  \E J \in SUBSET Job : Board!TakeBack(J)
<1> USE QueueAssumption
<1> DEFINE J == Abandoned(w)
<1>1. J \in SUBSET Job /\ \A j \in J : j \in stale /\ job[j].status = "collecting_data"
  BY DEF Abandoned, BoardInv, Sound, TypeOK
<1>2. job \in [Job -> JobRow] /\ run \in [Job -> RunStatus]
  BY DEF BoardInv, Sound, TypeOK
<1>3. ASSUME NEW j \in J PROVE JobState[j] = "taken" /\ InHandsOf[j] = {}
  <2>1. j # NoJob
    BY <1>1 DEF Job, NoJob
  <2>2. \A v \in Worker : worker[v].job # j
    BY <1>1, <2>1 DEF BoardInv, Exclusive, Busy
  <2> QED
    BY <1>1, <2>2 DEF JobState, InHandsOf
<1>4. ASSUME NEW j \in J PROVE Retried(j)
  <2>1. j \in Job /\ job[j] \in JobRow /\ job[j].attempts \in Nat /\ run[j] = "queued"
    BY <1>1, <1>2 DEF BoardInv, RunFollowsJob, JobRow
  <2>2. Exhausted(j) <=> ~(job[j].attempts + 1 < MaxAttempts)
    BY <2>1 DEF Exhausted
  <2>3. job'[j] = [job[j] EXCEPT !.attempts = @ + 1, !.due = TRUE,
                                 !.status = IF Exhausted(j) THEN "failed" ELSE "queued"]
    BY <2>1 DEF Start
  <2>4. run'[j] = IF Exhausted(j) THEN "failed" ELSE "queued"
    BY <2>1 DEF Start
  <2>5. /\ job'[j].status = (IF Exhausted(j) THEN "failed" ELSE "queued")
        /\ job'[j].attempts = job[j].attempts + 1
    BY <2>1, <2>3 DEF JobRow
  <2> QED
    BY <2>2, <2>4, <2>5 DEF Retried
<1>5. \A j \in Job \ J : job'[j] = job[j] /\ run'[j] = run[j]
  BY DEF Start
<1>6. run' \in [Job -> RunStatus]
  BY <1>2 DEF Start, RunStatus
<1>7. InHandsOf' = InHandsOf
  <2>1. \A v \in Worker : worker'[v].job = worker[v].job
    BY DEF Start, Become, NoTx, BoardInv, Sound, TypeOK, Shape
  <2> QED
    BY <2>1 DEF InHandsOf
<1> HIDE DEF J
<1>8. Board!UseTry(J)
  BY <1>1, <1>2, <1>4, <1>5, <1>6, RetriedIsUseTry
<1> QED
  BY <1>1, <1>3, <1>7, <1>8 DEF Board!TakeBack

(* Every step of the queue is a step of the board, or none.                *)
LEMMA BoardStep ==
  ASSUME BoardInv, [Next]_vars
  PROVE  [Board!Next]_(Board!board)
<1>0. Sound
  BY DEF BoardInv
<1>1. ASSUME NEW p \in Plan, NEW j \in Job, Enqueued(p, j) PROVE Board!Next
  BY <1>1, EnqueuedIsPost DEF Board!Next
<1>2. ASSUME NEW j \in Job, BackoffElapses(j) \/ HeartbeatTimeout(j)
      PROVE  UNCHANGED Board!board
  <2>1. \A i \in Job : job'[i].status = job[i].status /\ job'[i].attempts = job[i].attempts
    BY <1>0, <1>2 DEF BackoffElapses, HeartbeatTimeout, SetJob, Sound, TypeOK, JobRow
  <2> QED
    BY <1>2, <2>1, BoardStutters DEF BackoffElapses, HeartbeatTimeout
<1>3. ASSUME NEW w \in Worker, Start(w) PROVE Board!Next
  BY <1>3, StartIsTakeBack DEF Board!Next
<1>4. ASSUME NEW w \in Worker, Stop(w) \/ Crash(w) PROVE Board!Next
  <2>1. Leave(w)
    BY <1>0, <1>4, QueueAssumption DEF Stop, Crash, Leave, Sound, TypeOK
  <2> QED
    BY <2>1, LeaveIsVanish DEF Board!Next
<1>5. ASSUME NEW w \in Worker, Claim(w) PROVE Board!Next
  BY <1>5, ClaimIsTake DEF Board!Next
<1>6. ASSUME NEW w \in Worker, Inside(w) PROVE UNCHANGED Board!board
  <2>1. \A v \in Worker : worker'[v].job = worker[v].job
    BY <1>0, <1>6 DEF Inside, Become, Sound, TypeOK
  <2> QED
    BY <1>6, <2>1, BoardStutters DEF Inside
<1>7. ASSUME NEW w \in Worker, CommitReady(w) \/ CommitInfeasible(w) PROVE Board!Next
  BY <1>7, CommitIsSettle DEF Board!Next
<1>8. ASSUME NEW w \in Worker, HandleFailure(w) PROVE Board!Next
  BY <1>8, FailureIsFail DEF Board!Next
<1>9. CASE UNCHANGED vars
  BY <1>9, BoardStutters DEF vars
<1>10. ASSUME NEW w \in Worker, Work(w) PROVE [Board!Next]_(Board!board)
  BY <1>0, <1>5, <1>6, <1>7, <1>8, <1>10, InsideSteps DEF Work
<1>11. CASE Api
  <2>1. \E p \in Plan, j \in Job : Enqueued(p, j)
    <3>1. PICK p \in Plan : Generate(p) \/ Regenerate(p) \/ RegenerateMeal(p)
      BY <1>11 DEF Api
    <3>2. meals[p] \in SUBSET Job /\ {} \in SUBSET Job
      BY <1>0 DEF Sound, TypeOK
    <3> QED
      BY <3>1, <3>2 DEF Generate, Regenerate, RegenerateMeal, EnqueueRun, Enqueued
  <2> QED
    BY <1>1, <2>1
<1> QED
  BY <1>2, <1>3, <1>4, <1>9, <1>10, <1>11 DEF Next, Clock

(* When no job outlives the reaper's timeout, the queue with its claims,   *)
(* transactions, savepoints, deadlocks, crashes and restarts implements    *)
(* the board of jobs: only the process that claimed a job settles or fails *)
(* it, and only once it is gone does recover_abandoned_jobs.               *)
THEOREM BoardImplemented ==
  ASSUME ~SlowJobs
  PROVE  Spec => ImplementsBoard
<1>1. Init => Board!Init
  <2> SUFFICES ASSUME Init PROVE Board!Init
    OBVIOUS
  <2>1. JobState = [j \in Job |-> "absent"] /\ Tries = [j \in Job |-> 0]
    BY DEF Init, NoRow, JobState, Tries
  <2>2. \A j \in Job : {w \in Worker : worker[w].job = j} = {}
    BY DEF Init, NoTx, Job, NoJob
  <2>3. InHandsOf = [j \in Job |-> {}]
    BY <2>2 DEF InHandsOf
  <2> QED
    BY <2>1, <2>3 DEF Init, Board!Init
<1>2. Sound /\ Exclusive /\ RunFollowsJob /\ [Next]_vars => [Board!Next]_(Board!board)
  BY BoardStep DEF BoardInv
<1> QED
  BY <1>1, <1>2, SoundInvariant, ExclusiveInvariant, RunAlwaysFollowsJob, PTL
     DEF Spec, ImplementsBoard, Board!Spec

-----------------------------------------------------------------------------
(* When one process works the queue, as the deployment runs it.            *)

(* What the open transaction of w has read is still so: no other writer    *)
(* touches the meals and the list of a plan, and a request that arrives    *)
(* meanwhile only sets the plan's status to generating.                    *)
Snapshot(w) ==
    LET t == worker[w]
        p == PlanOf(w)
    IN /\ Busy(w) => job[t.job].status = "collecting_data"
       /\ t.pc \notin {"down", "idle", "claimed"} => plan[p] \in {t.planSeen, "generating"}
       /\ t.pc = "selected" => t.listSeen = list[p]
       /\ t.pc \in {"unlisted", "unserved", "cleared", "inserted"} => t.delList = list[p]
       /\ t.pc \in {"unserved", "cleared", "inserted"} => t.delMeals = meals[p]

(* The committed rows of a plan come from one completed run, or from none. *)
OneRun(p) ==
    /\ meals[p] = IF list[p] = NoJob THEN {} ELSE {list[p]}
    /\ \A j \in meals[p] : run[j] = "completed"
    /\ plan[p] = "ready" => meals[p] # {}

AloneInv == (\A p \in Plan : OneRun(p)) /\ \A w \in Worker : Snapshot(w)

(* A process that holds no job has read nothing.                           *)
LEMMA FreeSnapshot ==
  ASSUME NEW w \in Worker, worker'[w] \in {NoTx("idle"), NoTx("down")}
  PROVE  Snapshot(w)'
  BY DEF Snapshot, Busy, NoTx

(* A step that leaves the meals and lists alone, takes no completed run    *)
(* back and makes no plan ready keeps every plan on one run.               *)
LEMMA QuietKeepsOneRun ==
  ASSUME NEW p \in Plan, OneRun(p), UNCHANGED <<meals, list>>,
         \A j \in meals[p] : run[j] = "completed" => run'[j] = "completed",
         plan'[p] = "ready" => plan[p] = "ready"
  PROVE  OneRun(p)'
  BY DEF OneRun

(* Requests and the clock do not touch what the transaction has read.      *)
LEMMA OutsideKeepsSnapshot ==
  ASSUME Sound, AloneInv, NEW w \in Worker, UNCHANGED <<worker, meals, list>>,
         \A q \in Plan : plan'[q] \in {plan[q], "generating"},
         \A j \in Job : job[j].status # "absent" =>
             job'[j].status = job[j].status /\ job'[j].plan = job[j].plan
  PROVE  Snapshot(w)'
<1>1. Snapshot(w) /\ worker'[w] = worker[w]
  BY DEF AloneInv
<1>2. CASE worker[w].pc \in {"down", "idle"}
  <2>1. worker[w].job = NoJob
    BY <1>2 DEF Sound, Shape
  <2> QED
    BY <1>1, <1>2, <2>1 DEF Snapshot, Busy
<1>3. CASE worker[w].pc \notin {"down", "idle"}
  <2>1. worker[w].job \in Job /\ job[worker[w].job].status # "absent"
    BY <1>3 DEF Sound, Shape
  <2>2. PlanOf(w) \in Plan /\ PlanOf(w)' = PlanOf(w)
    BY <1>1, <2>1 DEF Sound, Shape, PlanOf
  <2>3. plan'[PlanOf(w)] \in {plan[PlanOf(w)], "generating"}
    BY <2>2
  <2>4. job'[worker[w].job].status = job[worker[w].job].status
    BY <2>1
  <2> QED
    BY <1>1, <2>2, <2>3, <2>4 DEF Snapshot, Busy
<1> QED
  BY <1>2, <1>3

(* The rolled-back savepoint forgets what was read but the plan's status.  *)
LEMMA FailKeepsSnapshot ==
  ASSUME Sound, AloneInv, NEW w \in Worker,
         worker[w].pc \notin {"down", "idle", "claimed"},
         Fail(w), UNCHANGED <<job, plan>>
  PROVE  Snapshot(w)'
<1>1. worker'[w].pc = "failing" /\ worker'[w].job = worker[w].job
        /\ worker'[w].planSeen = worker[w].planSeen
  BY DEF Fail, Become, NoTx, Sound, TypeOK
<1>2. Snapshot(w)
  BY DEF AloneInv
<1> QED
  BY <1>1, <1>2 DEF Snapshot, Busy, PlanOf

(* Each statement of _clear_previous acts on the rows the transaction has  *)
(* read, and reads what it is about to replace.                            *)
LEMMA InsideKeepsSnapshot ==
  ASSUME Sound, AloneInv, NEW w \in Worker,
         \/ Begin(w) \/ FlushEarly(w) \/ ExecuteRaises(w) \/ SelectList(w)
         \/ DeleteList(w) \/ DeleteMeals(w) \/ FlushRows(w) \/ InsertPlan(w)
         \/ DeadlockVictim(w)
  PROVE  Snapshot(w)'
<1>1. Snapshot(w) /\ worker[w] \in Process
  BY DEF AloneInv, Sound, TypeOK
<1>2. UNCHANGED <<job, plan, meals, list>>
  BY DEF Begin, FlushEarly, ExecuteRaises, SelectList, DeleteList, DeleteMeals,
         FlushRows, InsertPlan, DeadlockVictim
<1>3. ASSUME worker'[w].job = worker[w].job
      PROVE  PlanOf(w)' = PlanOf(w) /\ (Busy(w)' <=> Busy(w))
  BY <1>2, <1>3 DEF PlanOf, Busy
<1>4. worker[w].pc \notin {"down", "idle"} => worker[w].job \in Job /\ Busy(w)
  BY DEF Sound, Shape, Busy, NoJob, Job
<1>5. CASE Begin(w)
  <2>1. worker'[w].pc = "running" /\ worker'[w].job = worker[w].job
          /\ worker'[w].planSeen = plan[PlanOf(w)]
    BY <1>1, <1>5 DEF Begin, Become, Sound, TypeOK, Process
  <2> QED
    BY <1>1, <1>2, <1>3, <2>1 DEF Snapshot
<1>6. CASE FlushEarly(w)
  <2>1. worker'[w].pc = "running" /\ worker'[w].job = worker[w].job
          /\ worker'[w].planSeen = worker[w].planSeen /\ worker[w].pc = "running"
    BY <1>1, <1>6 DEF FlushEarly, Become, Sound, TypeOK, Process
  <2> QED
    BY <1>1, <1>2, <1>3, <2>1 DEF Snapshot
<1>7. CASE ExecuteRaises(w)
  BY <1>2, <1>7, FailKeepsSnapshot DEF ExecuteRaises
<1>8. CASE SelectList(w)
  <2>1. worker'[w].pc = "selected" /\ worker'[w].job = worker[w].job
          /\ worker'[w].planSeen = worker[w].planSeen /\ worker[w].pc = "running"
          /\ worker'[w].listSeen = list[PlanOf(w)]
    BY <1>1, <1>8 DEF SelectList, Become, Sound, TypeOK, Process
  <2> QED
    BY <1>1, <1>2, <1>3, <2>1 DEF Snapshot
<1>9. CASE DeleteList(w)
  <2>1. worker[w].pc = "selected" /\ worker[w].listSeen = list[PlanOf(w)]
    BY <1>1, <1>9 DEF DeleteList, Snapshot
  <2>2. worker'[w].pc = "unlisted" /\ worker'[w].job = worker[w].job
          /\ worker'[w].planSeen = worker[w].planSeen
          /\ worker'[w].delList = list[PlanOf(w)]
    BY <1>1, <1>9, <2>1 DEF DeleteList, Become, Sound, TypeOK, Process
  <2> QED
    BY <1>1, <1>2, <1>3, <2>1, <2>2 DEF Snapshot
<1>10. CASE DeleteMeals(w)
  <2>1. worker[w].pc = "unlisted" /\ worker'[w].pc = "unserved"
          /\ worker'[w].job = worker[w].job
          /\ worker'[w].planSeen = worker[w].planSeen
          /\ worker'[w].delList = worker[w].delList
          /\ worker'[w].delMeals = meals[PlanOf(w)]
    BY <1>1, <1>10 DEF DeleteMeals, Become, Sound, TypeOK, Process
  <2> QED
    BY <1>1, <1>2, <1>3, <2>1 DEF Snapshot
<1>11. CASE FlushRows(w)
  <2>1. worker[w].pc = "unserved" /\ worker'[w].pc = "cleared"
          /\ worker'[w].job = worker[w].job
          /\ worker'[w].planSeen = worker[w].planSeen
          /\ worker'[w].delList = worker[w].delList
          /\ worker'[w].delMeals = worker[w].delMeals
    BY <1>1, <1>11 DEF FlushRows, Become, Sound, TypeOK, Process
  <2> QED
    BY <1>1, <1>2, <1>3, <2>1 DEF Snapshot
<1>12. CASE InsertPlan(w)
  <2>1. worker[w].pc = "cleared"
    BY <1>12 DEF InsertPlan
  <2>2. CASE ListFree(w)
    <3>1. worker'[w].pc = "inserted" /\ worker'[w].job = worker[w].job
            /\ worker'[w].planSeen = worker[w].planSeen
            /\ worker'[w].delList = worker[w].delList
            /\ worker'[w].delMeals = worker[w].delMeals
      BY <1>1, <1>12, <2>2 DEF InsertPlan, Become, Sound, TypeOK, Process
    <3> QED
      BY <1>1, <1>2, <1>3, <2>1, <3>1 DEF Snapshot
  <2>3. CASE ~ListFree(w)
    BY <1>2, <1>12, <2>1, <2>3, FailKeepsSnapshot DEF InsertPlan
  <2> QED
    BY <2>2, <2>3
<1>13. CASE DeadlockVictim(w)
  <2>1. PICK S \in SUBSET Worker : w \in S /\ WaitCycle(S)
    BY <1>13 DEF DeadlockVictim
  <2>2. WaitsFor(w) # {}
    BY <2>1 DEF WaitCycle
  <2>3. worker[w].pc \notin {"down", "idle", "claimed"}
    BY <2>2 DEF WaitsFor
  <2> QED
    BY <1>2, <1>13, <2>3, FailKeepsSnapshot DEF DeadlockVictim
<1> QED
  BY <1>5, <1>6, <1>7, <1>8, <1>9, <1>10, <1>11, <1>12, <1>13

(* The job in hand is in progress, so its run is no completed one.         *)
LEMMA HeldRunIsOpen ==
  ASSUME Sound, RunFollowsJob, AloneInv, NEW w \in Worker,
         worker[w].pc \notin {"down", "idle"}
  PROVE  /\ worker[w].job \in Job
         /\ PlanOf(w) \in Plan
         /\ run[worker[w].job] = "queued"
<1>1. worker[w].job \in Job /\ Busy(w)
  BY DEF Sound, Shape, Busy, NoJob, Job
<1>2. job[worker[w].job].status = "collecting_data"
  BY <1>1 DEF AloneInv, Snapshot
<1> QED
  BY <1>1, <1>2 DEF RunFollowsJob, Sound, Shape, PlanOf

(* A commit replaces the plan's meals and list by those of its own run, or *)
(* by none, and says ready only in the first case.                         *)
LEMMA CommitKeepsOneRun ==
  ASSUME Sound, RunFollowsJob, AloneInv, NEW w \in Worker, NEW q \in Plan,
         CommitReady(w) \/ CommitInfeasible(w) \/ HandleFailure(w)
  PROVE  OneRun(q)'
<1> DEFINE j == worker[w].job
           p == PlanOf(w)
<1>1. worker[w].pc \notin {"down", "idle", "claimed"}
  BY DEF CommitReady, CommitInfeasible, HandleFailure
<1>2. j \in Job /\ p \in Plan /\ run[j] = "queued" /\ j # NoJob
  BY <1>1, HeldRunIsOpen DEF NoJob, Job
<1>3. Snapshot(w) /\ OneRun(q)
  BY DEF AloneInv
<1>4. j \notin meals[q]
  BY <1>2, <1>3 DEF OneRun
<1>5. plan[p] \in {worker[w].planSeen, "generating"}
  BY <1>1, <1>3 DEF Snapshot
<1>6. meals[q] \in SUBSET Job
  BY DEF Sound, TypeOK
<1>7. CASE CommitReady(w)
  <2>1. worker[w].delMeals = meals[p]
    BY <1>3, <1>7 DEF CommitReady, Snapshot
  <2>2. /\ run' = [run EXCEPT ![j] = "completed"]
        /\ meals' = [meals EXCEPT ![p] = (meals[p] \ worker[w].delMeals) \cup {j}]
        /\ list' = [list EXCEPT ![p] = j]
        /\ plan' = SetPlan(w, "ready")
    BY <1>7 DEF CommitReady
  <2>3. CASE q = p
    <3>1. meals'[q] = {j} /\ list'[q] = j /\ run'[j] = "completed"
      BY <1>2, <2>1, <2>2, <2>3 DEF Sound, TypeOK
    <3> QED
      BY <1>2, <3>1 DEF OneRun
  <2>4. CASE q # p
    <3>1. meals'[q] = meals[q] /\ list'[q] = list[q] /\ plan'[q] = plan[q]
      BY <2>2, <2>4 DEF Sound, TypeOK, SetPlan
    <3>2. \A i \in meals[q] : run'[i] = run[i]
      BY <1>4, <1>6, <2>2 DEF Sound, TypeOK
    <3> QED
      BY <1>3, <3>1, <3>2 DEF OneRun
  <2> QED
    BY <2>3, <2>4
<1>8. CASE CommitInfeasible(w)
  <2>1. worker[w].delMeals = meals[p] /\ worker[w].delList = list[p]
    BY <1>3, <1>8 DEF CommitInfeasible, Snapshot
  <2>2. /\ run' = [run EXCEPT ![j] = "failed"]
        /\ meals' = [meals EXCEPT ![p] = meals[p] \ worker[w].delMeals]
        /\ list' = [list EXCEPT ![p] =
                       IF list[p] = worker[w].delList THEN NoJob ELSE list[p]]
        /\ plan' = SetPlan(w, "failed")
    BY <1>8 DEF CommitInfeasible
  <2>3. CASE q = p
    <3>1. meals'[q] = {} /\ list'[q] = NoJob
      BY <1>2, <2>1, <2>2, <2>3 DEF Sound, TypeOK
    <3>2. plan'[q] # "ready"
      BY <1>2, <1>5, <2>2, <2>3 DEF Sound, TypeOK, SetPlan
    <3> QED
      BY <3>1, <3>2 DEF OneRun
  <2>4. CASE q # p
    <3>1. meals'[q] = meals[q] /\ list'[q] = list[q] /\ plan'[q] = plan[q]
      BY <2>2, <2>4 DEF Sound, TypeOK, SetPlan
    <3>2. \A i \in meals[q] : run'[i] = run[i]
      BY <1>4, <1>6, <2>2 DEF Sound, TypeOK
    <3> QED
      BY <1>3, <3>1, <3>2 DEF OneRun
  <2> QED
    BY <2>3, <2>4
<1>9. CASE HandleFailure(w)
  <2>1. \A i \in meals[q] : run'[i] = run[i]
    BY <1>4, <1>6, <1>9 DEF HandleFailure, Sound, TypeOK
  <2>2. plan'[q] = "ready" => plan[q] = "ready"
    BY <1>9 DEF HandleFailure, SetPlan, Sound, TypeOK
  <2>3. UNCHANGED <<meals, list>>
    BY <1>9 DEF HandleFailure
  <2> QED
    BY <1>3, <2>1, <2>2, <2>3, QuietKeepsOneRun
<1> QED
  BY <1>7, <1>8, <1>9

(* With one process, every step keeps what it has read true and every plan *)
(* on one run.  SlowJobs does not matter: the only reaper is the process   *)
(* itself, before it takes a job.                                          *)
LEMMA AloneStep ==
  ASSUME \A v, w \in Worker : v = w, Sound, RunFollowsJob, AloneInv, [Next]_vars
  PROVE  AloneInv'
<1>1. ASSUME NEW p \in Plan, Generate(p) \/ Regenerate(p) \/ RegenerateMeal(p)
      PROVE  /\ \A w \in Worker : Snapshot(w)'
             /\ \A q \in Plan : OneRun(q)'
  <2>1. meals[p] \in SUBSET Job /\ {} \in SUBSET Job
    BY DEF Sound, TypeOK
  <2>2. PICK j \in Job : Enqueued(p, j)
    BY <1>1, <2>1 DEF Generate, Regenerate, RegenerateMeal, EnqueueRun, Enqueued
  <2>3. \A i \in Job : job[i].status # "absent" => job'[i] = job[i]
    BY <2>2 DEF Enqueued, SetJob, Sound, TypeOK
  <2>4. \A q \in Plan : plan'[q] \in {plan[q], "generating"}
    BY <2>2 DEF Enqueued, Sound, TypeOK
  <2>5. run[j] = "absent"
    BY <2>2 DEF Enqueued, RunFollowsJob
  <2>6. \A i \in Job : run[i] = "completed" => run'[i] = "completed"
    BY <2>2, <2>5 DEF Enqueued, Sound, TypeOK
  <2>7. \A q \in Plan : meals[q] \in SUBSET Job /\ (plan'[q] = "ready" => plan[q] = "ready")
    BY <2>4 DEF Sound, TypeOK
  <2>8. UNCHANGED <<worker, meals, list>>
    BY <2>2 DEF Enqueued
  <2> QED
    BY <2>3, <2>4, <2>6, <2>7, <2>8, OutsideKeepsSnapshot, QuietKeepsOneRun DEF AloneInv
<1>2. ASSUME UNCHANGED <<run, plan, meals, list, worker>>,
             \A j \in Job : job'[j].status = job[j].status /\ job'[j].plan = job[j].plan
      PROVE  /\ \A w \in Worker : Snapshot(w)'
             /\ \A q \in Plan : OneRun(q)'
  <2>1. \A w \in Worker : Snapshot(w)'
    BY <1>2, OutsideKeepsSnapshot
  <2>2. \A q \in Plan : OneRun(q)'
    BY <1>2, QuietKeepsOneRun DEF AloneInv
  <2> QED
    BY <2>1, <2>2
<1>3. ASSUME NEW j \in Job, BackoffElapses(j) \/ HeartbeatTimeout(j)
      PROVE  \A i \in Job : job'[i].status = job[i].status /\ job'[i].plan = job[i].plan
  BY <1>3 DEF BackoffElapses, HeartbeatTimeout, SetJob, Sound, TypeOK, JobRow
<1>4. ASSUME NEW w \in Worker, Start(w)
      PROVE  Snapshot(w)' /\ \A q \in Plan : OneRun(q)'
  <2>1. worker'[w] = NoTx("idle")
    BY <1>4 DEF Start, Become, Sound, TypeOK
  <2>2. \A j \in Job : run[j] = "completed" => run'[j] = "completed"
    <3>1. \A j \in Job : Reaped(j)
      BY <1>4, StartReaps
    <3> QED
      BY <3>1 DEF Reaped, RunFollowsJob
  <2>3. \A q \in Plan : meals[q] \in SUBSET Job /\ (plan'[q] = "ready" => plan[q] = "ready")
    BY <1>4, StartReaps DEF Sound, TypeOK
  <2>4. UNCHANGED <<meals, list>>
    BY <1>4 DEF Start
  <2> QED
    BY <2>1, <2>2, <2>3, <2>4, FreeSnapshot, QuietKeepsOneRun DEF AloneInv
<1>5. ASSUME NEW w \in Worker, Stop(w) \/ Crash(w)
      PROVE  Snapshot(w)' /\ \A q \in Plan : OneRun(q)'
  <2>1. worker'[w] = NoTx("down")
    BY <1>5 DEF Stop, Crash, Become, Sound, TypeOK
  <2>2. UNCHANGED <<run, plan, meals, list>>
    BY <1>5 DEF Stop, Crash
  <2> QED
    BY <2>1, <2>2, FreeSnapshot, QuietKeepsOneRun DEF AloneInv
<1>6. ASSUME NEW w \in Worker, Claim(w)
      PROVE  Snapshot(w)' /\ \A q \in Plan : OneRun(q)'
  <2>1. PICK j \in Job :
          /\ SetJob(j, [job[j] EXCEPT !.status = "collecting_data"])
          /\ Become(w, [NoTx("claimed") EXCEPT !.job = j])
    BY <1>6 DEF Claim, Claimable
  <2>2. worker'[w].pc = "claimed" /\ worker'[w].job = j
    BY <2>1 DEF Become, NoTx, Sound, TypeOK
  <2>3. job'[j].status = "collecting_data"
    BY <2>1 DEF SetJob, Sound, TypeOK, JobRow
  <2>4. Snapshot(w)'
    BY <2>2, <2>3 DEF Snapshot
  <2>5. UNCHANGED <<run, plan, meals, list>>
    BY <1>6 DEF Claim
  <2> QED
    BY <2>4, <2>5, QuietKeepsOneRun DEF AloneInv
<1>7. ASSUME NEW w \in Worker,
             \/ Begin(w) \/ FlushEarly(w) \/ ExecuteRaises(w) \/ SelectList(w)
             \/ DeleteList(w) \/ DeleteMeals(w) \/ FlushRows(w) \/ InsertPlan(w)
             \/ DeadlockVictim(w)
      PROVE  Snapshot(w)' /\ \A q \in Plan : OneRun(q)'
  <2>1. Snapshot(w)'
    BY <1>7, InsideKeepsSnapshot
  <2>2. UNCHANGED <<run, plan, meals, list>>
    BY <1>7 DEF Begin, FlushEarly, ExecuteRaises, SelectList, DeleteList, DeleteMeals,
                FlushRows, InsertPlan, DeadlockVictim
  <2> QED
    BY <2>1, <2>2, QuietKeepsOneRun DEF AloneInv
<1>8. ASSUME NEW w \in Worker, CommitReady(w) \/ CommitInfeasible(w) \/ HandleFailure(w)
      PROVE  Snapshot(w)' /\ \A q \in Plan : OneRun(q)'
  <2>1. worker'[w] = NoTx("idle")
    BY <1>8 DEF CommitReady, CommitInfeasible, HandleFailure, Become, Sound, TypeOK
  <2> QED
    BY <1>8, <2>1, FreeSnapshot, CommitKeepsOneRun
<1>9. /\ \A w \in Worker : Snapshot(w)'
      /\ \A q \in Plan : OneRun(q)'
  <2>1. CASE \E p \in Plan : Generate(p) \/ Regenerate(p) \/ RegenerateMeal(p)
    BY <1>1, <2>1
  <2>2. CASE \E j \in Job : BackoffElapses(j) \/ HeartbeatTimeout(j)
    BY <1>2, <1>3, <2>2 DEF BackoffElapses, HeartbeatTimeout
  <2>3. CASE \E w \in Worker : Start(w) \/ Stop(w) \/ Crash(w) \/ Work(w)
    BY <1>4, <1>5, <1>6, <1>7, <1>8, <2>3 DEF Work
  <2>4. CASE UNCHANGED vars
    BY <1>2, <2>4 DEF vars
  <2> QED
    BY <2>1, <2>2, <2>3, <2>4 DEF Next, Api, Clock
<1> QED
  BY <1>9 DEF AloneInv

(* ... and so in every state of a system with one process.                 *)
THEOREM AloneInvariant ==
  ASSUME \A v, w \in Worker : v = w
  PROVE  Spec => []AloneInv
<1>1. Init => AloneInv
  BY DEF Init, AloneInv, OneRun, Snapshot, Busy, NoTx
<1>2. Sound /\ RunFollowsJob /\ AloneInv /\ [Next]_vars => AloneInv'
  BY AloneStep
<1> QED
  BY <1>1, <1>2, SoundInvariant, RunAlwaysFollowsJob, PTL DEF Spec

(* "Re-runs are idempotent" (_clear_previous), for any number of plans,    *)
(* requests and crashes, when one process works the queue: a plan's meals  *)
(* and its list are those of one run.  With two it is not so (plan_race).  *)
THEOREM MealsAlwaysMatchList ==
  ASSUME \A v, w \in Worker : v = w
  PROVE  Spec => []MealsMatchList
<1>1. AloneInv => MealsMatchList
  BY DEF AloneInv, OneRun, MealsMatchList
<1> QED
  BY <1>1, AloneInvariant, PTL

(* A plan shown as ready has the meals of a completed run, when one        *)
(* process works the queue.                                                *)
THEOREM ReadyPlanAlwaysHasMeals ==
  ASSUME \A v, w \in Worker : v = w
  PROVE  Spec => []ReadyPlanHasMeals
<1>1. AloneInv => ReadyPlanHasMeals
  BY DEF AloneInv, OneRun, ReadyPlanHasMeals
<1> QED
  BY <1>1, AloneInvariant, PTL

=============================================================================
