------------------------------ MODULE CrawlQueue ------------------------------
(***************************************************************************)
(* The price-crawl queue: a scheduler and the admin API create crawl_run   *)
(* rows with one crawl_job each, crawl workers claim jobs with FOR UPDATE  *)
(* SKIP LOCKED and run the connector, the admin API and a CLI cancel and   *)
(* retry.                                                                  *)
(*                                                                         *)
(* The variables are the committed rows.  A worker commits its claim, then *)
(* works in one transaction: the flush of its first heartbeat locks the    *)
(* job row, the handler's flush locks the run row, and both are committed  *)
(* together.  An admin request is one transaction as well: it reads the    *)
(* run, then the jobs, and writes what it decided then, after waiting for  *)
(* the row locks; its SELECTs lock nothing, and its UPDATEs do not look at *)
(* the status again.  Any number of requests are open at once.             *)
(*                                                                         *)
(* A run has one job at most, so a job is named by its run.  Idempotency   *)
(* keys, the calendar and connector_state decide whether a run and its job *)
(* are created, and nothing later: they are choices of CreateRun.          *)
(***************************************************************************)
EXTENDS Naturals, FiniteSets

CONSTANTS
    Worker,        \* worker process slots
    Retailer,
    NoRetailer,    \* the retailer of a run that does not exist yet
    Registered,    \* the retailers with a connector in CONNECTOR_FACTORIES
    NRuns,         \* bound: runs ever created
    MaxAttempts,   \* crawl_job.max_attempts
    Limit,         \* domain_limits: jobs in flight per retailer
    MaxEvents,     \* bound: processes killed and admin requests, together
    SlowStart      \* TRUE: the first heartbeat may come after the timeout

Run == 1 .. NRuns
RequestId == 1 .. MaxEvents
NoRun == 0

ASSUME CrawlAssumption ==
    /\ NRuns \in Nat
    /\ MaxAttempts \in Nat \ {0}
    /\ Limit \in Nat \ {0}
    /\ MaxEvents \in Nat
    /\ SlowStart \in BOOLEAN
    /\ Registered \subseteq Retailer
    /\ NoRetailer \notin Retailer

VARIABLES
    job,       \* crawl_job rows: status, attempts, due (available_at has passed)
    run,       \* crawl_run rows: status, retailer
    stale,     \* the jobs whose heartbeat_at is older than the timeout
    worker,    \* each process and its open transaction
    admin,     \* the admin requests, in the order they were opened
    crashes,   \* processes killed so far
    requests   \* admin requests so far

vars == <<job, run, stale, worker, admin, crashes, requests>>

(* "failed" is in the enum, but no code writes it to a job.                *)
JobStatus == {"absent", "queued", "locked", "completed", "dead_letter", "cancelled"}
(* "running" is written by CrawlRunService.start and overwritten in the    *)
(* same transaction: no other session ever sees it.                        *)
RunStatus == {"absent", "queued", "completed", "failed", "cancelled"}
RunTerminal == {"completed", "failed", "cancelled"}
Cancellable == {"queued", "locked"}
Settled == {"completed", "dead_letter", "cancelled"}

JobRow == [status : JobStatus, attempts : Nat, due : BOOLEAN]
RunRow == [status : RunStatus, retailer : Retailer \cup {NoRetailer}]

(* pc follows process_next and _handle_claimed:                            *)
(*   down, idle   no process; about to poll                                *)
(*   counted      _retailers_at_capacity has run                           *)
(*   claimed      claim committed, heartbeat not flushed yet               *)
(*   handling     job row (and run row) locked, the handler at work        *)
Process == [pc : {"down", "idle", "counted", "claimed", "handling"},
            run : Run \cup {NoRun}, attempts : Nat, capped : SUBSET Retailer]

(* reopens: it has read a failed run, to be reopened; read, takes: it has  *)
(* read the job, to be written.                                            *)
Request == [kind : {"none", "cancel", "retry"}, run : Run \cup {NoRun},
            reopens : BOOLEAN, read : BOOLEAN, takes : BOOLEAN]

TypeOK ==
    /\ job \in [Run -> JobRow]
    /\ run \in [Run -> RunRow]
    /\ stale \in SUBSET Run
    /\ worker \in [Worker -> Process]
    /\ admin \in [RequestId -> Request]
    /\ crashes \in 0 .. MaxEvents
    /\ requests \in 0 .. MaxEvents

At(c) == [pc |-> c, run |-> NoRun, attempts |-> 0, capped |-> {}]

NoRequest == [kind |-> "none", run |-> NoRun, reopens |-> FALSE,
              read |-> FALSE, takes |-> FALSE]

Init ==
    /\ job = [i \in Run |-> [status |-> "absent", attempts |-> 0, due |-> FALSE]]
    /\ run = [i \in Run |-> [status |-> "absent", retailer |-> NoRetailer]]
    /\ stale = {}
    /\ worker = [w \in Worker |-> At("down")]
    /\ admin = [q \in RequestId |-> NoRequest]
    /\ crashes = 0
    /\ requests = 0

-----------------------------------------------------------------------------
(* Creating runs and jobs.                                                 *)

Unused(i) == run[i].status = "absent" /\ \A k \in Run : k < i => run[k].status # "absent"

(* A job of an earlier run may carry the idempotency key of this one.      *)
MayHaveKey(r) == \E k \in Run : run[k].retailer = r /\ job[k].status # "absent"

(* create_run and enqueue_jobs, from create_crawl, schedule_daily or one   *)
(* of the sync CLIs: enqueue_job inserts nothing when a job with the key   *)
(* exists, but the run has been inserted already.                          *)
CreateRun(r) ==
    \E i \in Run, hasKey \in BOOLEAN :
        /\ Unused(i)
        /\ hasKey => MayHaveKey(r)
        /\ run' = [run EXCEPT ![i] = [status |-> "queued", retailer |-> r]]
        /\ job' = IF hasKey THEN job
                  ELSE [job EXCEPT ![i] = [status |-> "queued", attempts |-> 0,
                                           due |-> TRUE]]
        /\ UNCHANGED <<stale, worker, admin, crashes, requests>>

-----------------------------------------------------------------------------
(* Time.                                                                   *)

(* backoff_delay passes.                                                   *)
BackoffElapses(i) ==
    /\ job[i].status = "queued"
    /\ ~job[i].due
    /\ job' = [job EXCEPT ![i].due = TRUE]
    /\ UNCHANGED <<run, stale, worker, admin, crashes, requests>>

(* The committed heartbeat_at is the claim's until the worker commits,     *)
(* however long the handler runs.  Unless SlowStart, the first heartbeat,  *)
(* which locks the row, does not wait for as long.                         *)
HeartbeatTimeout(i) ==
    /\ job[i].status = "locked"
    /\ i \notin stale
    /\ \A w \in Worker : worker[w].pc = "claimed" /\ worker[w].run = i => SlowStart
    /\ stale' = stale \cup {i}
    /\ UNCHANGED <<job, run, worker, admin, crashes, requests>>

-----------------------------------------------------------------------------
(* A worker process.                                                       *)

Busy(w) == worker[w].run # NoRun

Become(w, p) == worker' = [worker EXCEPT ![w] = p]

(* The process has flushed an UPDATE of the job row and not committed.     *)
RowLocked(i) ==
    \E w \in Worker : worker[w].pc = "handling" /\ worker[w].run = i

RetailerOf(w) == run[worker[w].run].retailer

(* recover_stuck_jobs: SKIP LOCKED leaves alone the job of a live worker,  *)
(* however old its committed heartbeat.  No attempt is consumed.           *)
StuckAnyRow == {i \in stale : job[i].status = "locked"}  \* fault: no SKIP LOCKED

NeverStuck == {}           \* fault: a worker starts without recovering

Stuck == {i \in stale : job[i].status = "locked" /\ ~RowLocked(i)}

Start(w) ==
    /\ worker[w].pc = "down"
    /\ job' = [i \in Run |-> IF i \in Stuck
                             THEN [job[i] EXCEPT !.status = "queued", !.due = TRUE]
                             ELSE job[i]]
    /\ stale' = stale \ Stuck
    /\ Become(w, At("idle"))
    /\ UNCHANGED <<run, admin, crashes, requests>>

(* SIGTERM: the loop ends between two jobs.                                *)
Stop(w) ==
    /\ worker[w].pc = "idle"
    /\ Become(w, At("down"))
    /\ UNCHANGED <<job, run, stale, admin, crashes, requests>>

(* SIGKILL, or a database error that process_next re-raises: the open      *)
(* transaction is rolled back.  (Without a job it is no more than Stop.)   *)
Crash(w) ==
    /\ Busy(w)
    /\ crashes + requests < MaxEvents
    /\ crashes' = crashes + 1
    /\ Become(w, At("down"))
    /\ UNCHANGED <<job, run, stale, admin, requests>>

InFlight(r) == {i \in Run : job[i].status = "locked" /\ run[i].retailer = r}

AtCapacityOver == {r \in Retailer : Cardinality(InFlight(r)) > Limit} \* fault

AtCapacity == {r \in Retailer : Cardinality(InFlight(r)) >= Limit}

(* _retailers_at_capacity, a statement before the claim.                   *)
CountInFlight(w) ==
    /\ worker[w].pc = "idle"
    /\ Become(w, [At("counted") EXCEPT !.capped = AtCapacity])
    /\ UNCHANGED <<job, run, stale, admin, crashes, requests>>

Claimable(w) ==
    {i \in Run : /\ job[i].status = "queued"
                 /\ job[i].due
                 /\ ~RowLocked(i)
                 /\ run[i].retailer \notin worker[w].capped}

(* claim_job and the commit.  The status of the run is not looked at.      *)
Claim(w) ==
    /\ worker[w].pc = "counted"
    /\ \E i \in Claimable(w) :
        /\ job' = [job EXCEPT ![i].status = "locked"]
        /\ stale' = stale \ {i}
        /\ Become(w, [At("claimed") EXCEPT !.run = i, !.attempts = job[i].attempts])
    /\ UNCHANGED <<run, admin, crashes, requests>>

FindNothing(w) ==
    /\ worker[w].pc = "counted"
    /\ Claimable(w) = {}
    /\ Become(w, At("idle"))
    /\ UNCHANGED <<job, run, stale, admin, crashes, requests>>

(* heartbeat, and service.start when there is a connector: both flushed.   *)
Begin(w) ==
    /\ worker[w].pc = "claimed"
    /\ ~RowLocked(worker[w].run)
    /\ Become(w, [worker[w] EXCEPT !.pc = "handling"])
    /\ UNCHANGED <<job, run, stale, admin, crashes, requests>>

SetRun(w, s) ==
    run' = IF RetailerOf(w) \in Registered
           THEN [run EXCEPT ![worker[w].run].status = s] ELSE run

EndJob(w, row) ==
    /\ job' = [job EXCEPT ![worker[w].run] = row]
    /\ stale' = stale \ {worker[w].run}
    /\ Become(w, At("idle"))
    /\ UNCHANGED <<admin, crashes, requests>>

(* The handler returns ok: run completed, complete_job and the commit.     *)
(* Without a connector the handler is a no-op and the run is left alone.   *)
Complete(w) ==
    /\ worker[w].pc = "handling"
    /\ SetRun(w, "completed")
    /\ EndJob(w, [job[worker[w].run] EXCEPT !.status = "completed"])

ExhaustedLate(attempts) == attempts > MaxAttempts     \* fault: one try too many

Exhausted(attempts) == attempts >= MaxAttempts

FailedForGood(attempts) == \* fault: the status of the enum that nobody polls
    [status |-> "failed", attempts |-> attempts, due |-> FALSE]

Failed(attempts) ==
    [status |-> IF Exhausted(attempts) THEN "dead_letter" ELSE "queued",
     attempts |-> attempts, due |-> Exhausted(attempts)]

FailKeepingRun(w) ==       \* fault: the run is left queued
    /\ worker[w].pc = "handling"
    /\ RetailerOf(w) \in Registered
    /\ EndJob(w, Failed(worker[w].attempts + 1))
    /\ UNCHANGED run

(* The handler fails: fail_job and the commit.  run_crawl_job has set the  *)
(* run to failed, also when the job is to be tried again after a backoff   *)
(* (~due).                                                                 *)
Fail(w) ==
    /\ worker[w].pc = "handling"
    /\ RetailerOf(w) \in Registered
    /\ SetRun(w, "failed")
    /\ EndJob(w, Failed(worker[w].attempts + 1))

-----------------------------------------------------------------------------
(* Admin requests.                                                         *)

Open(i, request) ==
    /\ run[i].status # "absent"
    /\ crashes + requests < MaxEvents
    /\ requests' = requests + 1
    /\ admin' = [admin EXCEPT ![requests + 1] = request]
    /\ UNCHANGED <<job, run, stale, worker, crashes>>

(* cancel_crawl reads the run: 409 if it is terminal.                      *)
OpenCancel(i) ==
    /\ run[i].status \notin RunTerminal
    /\ Open(i, [NoRequest EXCEPT !.kind = "cancel", !.run = i])

(* retry_crawl and the CLI retry_failed take any run; only retry_crawl     *)
(* reopens a failed one.                                                   *)
OpenRetry(i, cli) ==
    Open(i, [NoRequest EXCEPT !.kind = "retry", !.run = i,
                              !.reopens = ~cli /\ run[i].status = "failed"])

(* The SELECT of the run's jobs, a later snapshot.                         *)
ReadJobs(q) ==
    /\ admin[q].kind # "none"
    /\ ~admin[q].read
    /\ admin' = [admin EXCEPT
         ![q].read = TRUE,
         ![q].takes = job[admin[q].run].status \in
             IF admin[q].kind = "cancel" THEN Cancellable ELSE {"dead_letter"}]
    /\ UNCHANGED <<job, run, stale, worker, crashes, requests>>

(* The UPDATEs wait for a worker that holds the rows, and then overwrite   *)
(* what it committed.                                                      *)
CommitCancel(q) ==
    LET i == admin[q].run IN
    /\ admin[q].kind = "cancel"
    /\ admin[q].read
    /\ admin[q].takes \/ run[i].retailer \in Registered => ~RowLocked(i)
    /\ job' = IF admin[q].takes THEN [job EXCEPT ![i].status = "cancelled"] ELSE job
    /\ run' = [run EXCEPT ![i].status = "cancelled"]
    /\ stale' = IF admin[q].takes THEN stale \ {i} ELSE stale
    /\ admin' = [admin EXCEPT ![q] = NoRequest]
    /\ UNCHANGED <<worker, crashes, requests>>

CommitRetry(q) ==
    LET i == admin[q].run IN
    /\ admin[q].kind = "retry"
    /\ admin[q].read
    /\ admin[q].takes => ~RowLocked(i)
    /\ job' = IF admin[q].takes
              THEN [job EXCEPT ![i] = [status |-> "queued", attempts |-> 0, due |-> TRUE]]
              ELSE job
    /\ run' = IF admin[q].takes /\ admin[q].reopens
              THEN [run EXCEPT ![i].status = "queued"] ELSE run
    /\ admin' = [admin EXCEPT ![q] = NoRequest]
    /\ UNCHANGED <<stale, worker, crashes, requests>>

-----------------------------------------------------------------------------
Schedule == \E r \in Retailer : CreateRun(r)

Clock == \E i \in Run : BackoffElapses(i) \/ HeartbeatTimeout(i)

Admin ==
    \/ \E i \in Run : OpenCancel(i) \/ \E cli \in BOOLEAN : OpenRetry(i, cli)
    \/ \E q \in RequestId : ReadJobs(q) \/ CommitCancel(q) \/ CommitRetry(q)

Handle(w) == Begin(w) \/ Complete(w) \/ Fail(w)

Poll(w) == CountInFlight(w) \/ Claim(w) \/ FindNothing(w)

Next ==
    \/ Schedule
    \/ Clock
    \/ Admin
    \/ \E w \in Worker : Start(w) \/ Stop(w) \/ Crash(w) \/ Poll(w) \/ Handle(w)

Spec == Init /\ [][Next]_vars

(* Processes are restarted, live ones keep working, and time passes; an    *)
(* admin request may stay open for ever.  Processes are replaced again and *)
(* again, but not so fast that none of them ever looks for a job.          *)
Fairness ==
    /\ \A w \in Worker :
        /\ WF_vars(Start(w) \/ Handle(w) \/ Poll(w))
        /\ SF_vars(Stop(w)) /\ SF_vars(CountInFlight(w))
    /\ \A i \in Run : WF_vars(BackoffElapses(i) \/ HeartbeatTimeout(i))

RedeployedSpec == Spec /\ Fairness

-----------------------------------------------------------------------------
(* Properties.                                                             *)

(* No job is in the hands of two processes, and one in the hands of a      *)
(* process is locked for it, or cancelled under it.                        *)
OneProcessorPerJob ==
    \A v, w \in Worker : Busy(v) /\ worker[v].run = worker[w].run => v = w

Exclusive ==
    /\ OneProcessorPerJob
    /\ \A w \in Worker : Busy(w) => job[worker[w].run].status \in {"locked", "cancelled"}

(* A retry that read a dead letter is committed when the job is none any   *)
(* more: another request was faster, and a worker may have claimed it.     *)
LateRetry ==
    \E q \in RequestId :
        /\ CommitRetry(q)
        /\ admin[q].takes
        /\ job[admin[q].run].status # "dead_letter"

(* A starting worker recovers a job that another one has claimed and not   *)
(* flushed a heartbeat of for the whole timeout.                           *)
EarlyRecovery ==
    \E w \in Worker :
        /\ Start(w)
        /\ \E v \in Worker : worker[v].pc = "claimed" /\ worker[v].run \in Stuck

(* "no two workers ever grab the same row" (ingestion/queue.py): claims,   *)
(* failures, crashes, cancellations and the recovery of stuck jobs keep to *)
(* it, though the heartbeat of a job at work is not committed.  It is lost *)
(* in two ways only: by the second of two concurrent retries, which        *)
(* requeues the job the first one revived; and by a recovery before the    *)
(* first heartbeat.                                                        *)
SharedOnlyByLateWrites ==
    [][~Exclusive' => ~Exclusive \/ LateRetry \/ EarlyRecovery]_vars

(* domain_limits are counted in one statement and enforced in the next:    *)
(* every other worker may claim in between.  The cap can be exceeded, but  *)
(* jobs in flight and claims still to be made on an old count never exceed *)
(* it by more than the other workers, whatever crashed in between.         *)
AboutToClaim(r) == {w \in Worker : worker[w].pc = "counted" /\ r \notin worker[w].capped}

InFlightBounded ==
    \A r \in Retailer :
        Cardinality(InFlight(r)) + Cardinality(AboutToClaim(r))
            < Limit + Cardinality(Worker)

(* The run, which the admin console shows, and its job are written by      *)
(* separate statements of the worker and of the admin requests, which read *)
(* and write at different moments.  A run shown as completed has no job to *)
(* work on, a failed one has a job to retry, a cancelled job has a         *)
(* cancelled run.                                                          *)
RunFollowsJob ==
    \A i \in Run :
        /\ run[i].status = "completed" => job[i].status = "completed"
        /\ run[i].status = "failed" => job[i].status \in Cancellable \cup {"dead_letter"}
        /\ job[i].status = "cancelled" => run[i].status = "cancelled"
        /\ job[i].status = "dead_letter" => run[i].status \in {"failed", "cancelled"}
        /\ job[i].status = "completed" /\ run[i].retailer \in Registered
              => run[i].status \in {"completed", "cancelled"}

(* Only a late retry parts them, whoever works on the job and however many *)
(* requests are open: it requeues a job and leaves the run as it is, or    *)
(* shows a run as queued again whose job it read before.                   *)
MisleadingOnlyByLateRetry ==
    [][~RunFollowsJob' => ~RunFollowsJob \/ LateRetry]_vars

(* A job that has used its attempts up is a dead letter, a job to work on  *)
(* has one left, also when two processes count the same attempt or a       *)
(* retry forgets them.                                                     *)
AttemptsBounded ==
    \A i \in Run :
        /\ job[i].attempts <= MaxAttempts
        /\ job[i].status \in Cancellable => job[i].attempts < MaxAttempts
        /\ job[i].status = "dead_letter" => job[i].attempts = MaxAttempts

(* With redeploys every job is settled in the end: recovery, backoff,      *)
(* capacity limits, cancellations and retries leave none behind.           *)
JobSettles ==
    \A i \in Run : job[i].status \in Cancellable ~> job[i].status \in Settled

=============================================================================
