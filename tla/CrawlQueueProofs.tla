--------------------------- MODULE CrawlQueueProofs ---------------------------
(***************************************************************************)
(* What CrawlQueue promises for any number of workers, retailers, runs,    *)
(* attempts, crashes and concurrent admin requests, with heartbeats in     *)
(* time or late.                                                           *)
(***************************************************************************)
EXTENDS CrawlQueue, FiniteSetTheorems, TLAPS

(* A job belongs to a run that exists; a process past the claim, and a     *)
(* request, is about a job and a run that exist.                           *)
Shape ==
    /\ \A i \in Run : run[i].status = "absent" => job[i].status = "absent"
    /\ \A w \in Worker :
        /\ worker[w].pc \in {"claimed", "handling"} => worker[w].run \in Run
        /\ worker[w].pc \notin {"claimed", "handling"} => worker[w].run = NoRun
        /\ worker[w].run \in Run => job[worker[w].run].status # "absent"
    /\ \A q \in RequestId :
        admin[q].kind # "none" =>
            admin[q].run \in Run /\ run[admin[q].run].status # "absent"

Sound == TypeOK /\ Shape

-----------------------------------------------------------------------------
(* NoRun is none of the runs, and a process without a job is well typed.   *)
LEMMA NotARun == NoRun \notin Run
  BY CrawlAssumption DEF NoRun, Run

LEMMA AtType ==
  \A c \in {"down", "idle", "counted"} : \A s \in SUBSET Retailer :
      /\ At(c) \in Process
      /\ [At(c) EXCEPT !.capped = s] \in Process
  BY DEF At, Process, NoRun

LEMMA NoRequestType == NoRequest \in Request
  BY DEF NoRequest, Request

(* Creating a run, with its job or without.                                *)
LEMMA SoundCreate ==
  ASSUME Sound, NEW r \in Retailer, CreateRun(r)
  PROVE  Sound'
<1>1. PICK i \in Run, hasKey \in BOOLEAN :
        /\ run[i].status = "absent"
        /\ run' = [run EXCEPT ![i] = [status |-> "queued", retailer |-> r]]
        /\ job' = IF hasKey THEN job
                  ELSE [job EXCEPT ![i] = [status |-> "queued", attempts |-> 0,
                                           due |-> TRUE]]
        /\ UNCHANGED <<stale, worker, admin, crashes, requests>>
  BY DEF CreateRun, Unused
<1>2. TypeOK'
  BY <1>1 DEF Sound, TypeOK, JobRow, RunRow, JobStatus, RunStatus
<1>3. Shape'
  BY <1>1, <1>2 DEF Sound, TypeOK, Shape, JobRow, RunRow
<1> QED
  BY <1>2, <1>3 DEF Sound

(* Time passes.                                                            *)
LEMMA SoundClock ==
  ASSUME Sound, NEW i \in Run, BackoffElapses(i) \/ HeartbeatTimeout(i)
  PROVE  Sound'
<1>1. job' \in [Run -> JobRow] /\ \A k \in Run : job'[k].status = job[k].status
  <2>1. CASE BackoffElapses(i)
    <3>1. job' = [job EXCEPT ![i].due = TRUE]
      BY <2>1 DEF BackoffElapses
    <3> QED
      BY <3>1 DEF Sound, TypeOK, JobRow
  <2>2. CASE HeartbeatTimeout(i)
    BY <2>2 DEF HeartbeatTimeout, Sound, TypeOK
  <2> QED
    BY <2>1, <2>2
<1>2. stale' \in SUBSET Run /\ UNCHANGED <<run, worker, admin, crashes, requests>>
  BY DEF BackoffElapses, HeartbeatTimeout, Sound, TypeOK
<1> QED
  BY <1>1, <1>2 DEF Sound, TypeOK, Shape

(* An admin request is opened.                                             *)
Opens(i) == OpenCancel(i) \/ \E cli \in BOOLEAN : OpenRetry(i, cli)

LEMMA Opening ==
  ASSUME Sound, NEW i \in Run, Opens(i)
  PROVE  /\ run[i].status # "absent"
         /\ requests + 1 \in RequestId /\ requests' = requests + 1
         /\ UNCHANGED <<job, run, stale, worker, crashes>>
         /\ \E request \in Request :
              request.run = i /\ admin' = [admin EXCEPT ![requests + 1] = request]
<1>1. PICK request \in Request : request.run = i /\ Open(i, request)
  <2>1. CASE OpenCancel(i)
    <3>1. Open(i, [NoRequest EXCEPT !.kind = "cancel", !.run = i])
      BY <2>1 DEF OpenCancel
    <3>2. /\ [NoRequest EXCEPT !.kind = "cancel", !.run = i] \in Request
          /\ [NoRequest EXCEPT !.kind = "cancel", !.run = i].run = i
      BY NoRequestType DEF Request
    <3> QED
      BY <3>1, <3>2
  <2>2. CASE \E cli \in BOOLEAN : OpenRetry(i, cli)
    <3>1. PICK cli \in BOOLEAN : OpenRetry(i, cli)
      BY <2>2
    <3> DEFINE b == ~cli /\ run[i].status = "failed"
    <3>2. b \in BOOLEAN
      OBVIOUS
    <3>3. Open(i, [NoRequest EXCEPT !.kind = "retry", !.run = i, !.reopens = b])
      BY <3>1 DEF OpenRetry
    <3> HIDE DEF b
    <3>4. /\ [NoRequest EXCEPT !.kind = "retry", !.run = i, !.reopens = b] \in Request
          /\ [NoRequest EXCEPT !.kind = "retry", !.run = i, !.reopens = b].run = i
      BY <3>2, NoRequestType DEF Request
    <3> QED
      BY <3>3, <3>4
  <2> QED
    BY <2>1, <2>2 DEF Opens
<1>2. /\ run[i].status # "absent" /\ crashes + requests < MaxEvents
      /\ requests' = requests + 1
      /\ admin' = [admin EXCEPT ![requests + 1] = request]
      /\ UNCHANGED <<job, run, stale, worker, crashes>>
  BY <1>1 DEF Open
<1>3. requests \in Nat /\ crashes \in Nat
  BY CrawlAssumption DEF Sound, TypeOK
<1>4. requests + 1 \in RequestId
  BY <1>2, <1>3, CrawlAssumption DEF RequestId
<1> QED
  BY <1>1, <1>2, <1>4

LEMMA SoundOpens ==
  ASSUME Sound, NEW i \in Run, Opens(i)
  PROVE  Sound'
<1>1. PICK request \in Request :
        request.run = i /\ admin' = [admin EXCEPT ![requests + 1] = request]
  BY Opening
<1>2. requests' \in 0 .. MaxEvents
  BY Opening, CrawlAssumption DEF RequestId
<1>3. admin' \in [RequestId -> Request]
      /\ \A q \in RequestId : admin'[q] = admin[q] \/ admin'[q].run = i
  BY <1>1, Opening DEF Sound, TypeOK
<1> QED
  BY <1>2, <1>3, Opening DEF Sound, TypeOK, Shape

(* A request reads the jobs.                                               *)
LEMMA SoundReads ==
  ASSUME Sound, NEW q \in RequestId, ReadJobs(q)
  PROVE  Sound'
<1> DEFINE b == job[admin[q].run].status \in
                  IF admin[q].kind = "cancel" THEN Cancellable ELSE {"dead_letter"}
<1>1. b \in BOOLEAN
  OBVIOUS
<1>2. admin' = [admin EXCEPT ![q].read = TRUE, ![q].takes = b]
      /\ UNCHANGED <<job, run, stale, worker, crashes, requests>>
  BY DEF ReadJobs
<1> HIDE DEF b
<1>3. /\ admin' \in [RequestId -> Request]
      /\ \A p \in RequestId : admin'[p].kind = admin[p].kind /\ admin'[p].run = admin[p].run
  BY <1>1, <1>2 DEF Sound, TypeOK, Request
<1> QED
  BY <1>2, <1>3 DEF Sound, TypeOK, Shape

(* An admin request writes.                                                *)
LEMMA SoundCommits ==
  ASSUME Sound, NEW q \in RequestId, CommitCancel(q) \/ CommitRetry(q)
  PROVE  Sound'
<1> DEFINE i == admin[q].run
<1>1. i \in Run /\ run[i].status # "absent"
  BY DEF CommitCancel, CommitRetry, Sound, Shape
<1>2. admin' = [admin EXCEPT ![q] = NoRequest] /\ UNCHANGED <<worker, crashes, requests>>
      /\ stale' \subseteq stale
  BY DEF CommitCancel, CommitRetry
<1>3. \E t \in {"cancelled", "queued"} :
        /\ \/ job' = job
           \/ job' = [job EXCEPT ![i].status = "cancelled"]
           \/ job' = [job EXCEPT ![i] = [status |-> "queued", attempts |-> 0, due |-> TRUE]]
        /\ run' = run \/ run' = [run EXCEPT ![i].status = t]
  BY DEF CommitCancel, CommitRetry
<1> HIDE DEF i
<1>4. /\ job' \in [Run -> JobRow]
      /\ \A k \in Run : job'[k].status = "absent" => job[k].status = "absent"
      /\ \A k \in Run : k # i => job'[k] = job[k]
  <2>1. job' = job \/ \E row \in JobRow : row.status # "absent" /\ job' = [job EXCEPT ![i] = row]
    <3>1. CASE job' = [job EXCEPT ![i].status = "cancelled"]
      <4>1. [job[i] EXCEPT !.status = "cancelled"] \in JobRow
            /\ [job[i] EXCEPT !.status = "cancelled"].status = "cancelled"
        BY <1>1 DEF Sound, TypeOK, JobRow, JobStatus
      <4> QED
        BY <3>1, <4>1
    <3>2. [status |-> "queued", attempts |-> 0, due |-> TRUE] \in JobRow
      BY DEF JobRow, JobStatus
    <3> QED
      BY <1>3, <3>1, <3>2
  <2> QED
    BY <1>1, <2>1 DEF Sound, TypeOK
<1>5. /\ run' \in [Run -> RunRow]
      /\ \A k \in Run : run'[k].status = "absent" <=> run[k].status = "absent"
  BY <1>1, <1>3 DEF Sound, TypeOK, RunRow, RunStatus
<1>6. /\ admin' \in [RequestId -> Request]
      /\ \A p \in RequestId : admin'[p] = admin[p] \/ admin'[p].kind = "none"
  BY <1>2, NoRequestType DEF Sound, TypeOK, NoRequest
<1>7. TypeOK'
  BY <1>2, <1>4, <1>5, <1>6 DEF Sound, TypeOK
<1>8. Shape'
  BY <1>1, <1>2, <1>4, <1>5, <1>6 DEF Sound, Shape
<1> QED
  BY <1>7, <1>8 DEF Sound

(* A process starts, ends, or counts and finds nothing.                    *)
LEMMA SoundIdle ==
  ASSUME Sound, NEW w \in Worker,
         Start(w) \/ Stop(w) \/ Crash(w) \/ CountInFlight(w) \/ FindNothing(w)
  PROVE  Sound'
<1>1. PICK c \in {"down", "idle", "counted"}, s \in SUBSET Retailer :
        Become(w, [At(c) EXCEPT !.capped = s])
  <2>1. At("down") = [At("down") EXCEPT !.capped = {}]
        /\ At("idle") = [At("idle") EXCEPT !.capped = {}]
    BY DEF At
  <2>2. AtCapacity \in SUBSET Retailer
    BY DEF AtCapacity
  <2> QED
    BY <2>1, <2>2 DEF Start, Stop, Crash, CountInFlight, FindNothing
<1>2. /\ worker' \in [Worker -> Process]
      /\ worker'[w].pc \notin {"claimed", "handling"} /\ worker'[w].run = NoRun
      /\ \A v \in Worker \ {w} : worker'[v] = worker[v]
  BY <1>1, AtType DEF Become, At, Sound, TypeOK
<1>3. /\ job' \in [Run -> JobRow] /\ stale' \in SUBSET Run
      /\ \A i \in Run : job'[i].status = "absent" <=> job[i].status = "absent"
  <2>1. CASE Start(w)
    <3>1. job' = [i \in Run |-> IF i \in Stuck
                               THEN [job[i] EXCEPT !.status = "queued", !.due = TRUE]
                               ELSE job[i]]
          /\ stale' = stale \ Stuck
      BY <2>1 DEF Start
    <3>2. \A i \in Stuck : job[i].status = "locked"
      BY DEF Stuck
    <3> QED
      BY <3>1, <3>2 DEF Sound, TypeOK, JobRow, JobStatus
  <2>2. CASE Stop(w) \/ Crash(w) \/ CountInFlight(w) \/ FindNothing(w)
    BY <2>2 DEF Stop, Crash, CountInFlight, FindNothing, Sound, TypeOK
  <2> QED
    BY <2>1, <2>2
<1>4. crashes' \in 0 .. MaxEvents /\ UNCHANGED <<run, admin, requests>>
  <2>1. crashes' = crashes \/ (crashes + requests < MaxEvents /\ crashes' = crashes + 1)
    BY DEF Start, Stop, Crash, CountInFlight, FindNothing
  <2>2. crashes' \in 0 .. MaxEvents
    BY <2>1, CrawlAssumption DEF Sound, TypeOK
  <2> QED
    BY <2>2 DEF Start, Stop, Crash, CountInFlight, FindNothing
<1> QED
  BY <1>2, <1>3, <1>4, NotARun DEF Sound, TypeOK, Shape

(* A process claims a job, or flushes its first heartbeat.                 *)
LEMMA SoundClaim ==
  ASSUME Sound, NEW w \in Worker, Claim(w) \/ Begin(w)
  PROVE  Sound'
<1>1. CASE Claim(w)
  <2>1. PICK i \in Run :
          /\ job[i].status = "queued"
          /\ job' = [job EXCEPT ![i].status = "locked"]
          /\ stale' = stale \ {i}
          /\ Become(w, [At("claimed") EXCEPT !.run = i, !.attempts = job[i].attempts])
          /\ UNCHANGED <<run, admin, crashes, requests>>
    BY <1>1 DEF Claim, Claimable
  <2> DEFINE r == [At("claimed") EXCEPT !.run = i, !.attempts = job[i].attempts]
  <2>2. r \in Process /\ r.pc = "claimed" /\ r.run = i /\ r.attempts = job[i].attempts
    <3>1. At("claimed") \in Process /\ At("claimed").pc = "claimed"
      BY DEF At, Process, NoRun
    <3>2. job[i].attempts \in Nat
      BY DEF Sound, TypeOK, JobRow
    <3> QED
      BY <3>1, <3>2 DEF Process
  <2>3. job' \in [Run -> JobRow]
        /\ \A k \in Run : job'[k].status = "absent" <=> job[k].status = "absent"
    BY <2>1 DEF Sound, TypeOK, JobRow, JobStatus
  <2>4. /\ worker' \in [Worker -> Process] /\ worker'[w] = r
        /\ \A v \in Worker \ {w} : worker'[v] = worker[v]
    <3>1. worker' = [worker EXCEPT ![w] = r]
      BY <2>1 DEF Become
    <3> HIDE DEF r
    <3> QED
      BY <2>2, <3>1 DEF Sound, TypeOK
  <2> HIDE DEF r
  <2> QED
    BY <2>1, <2>2, <2>3, <2>4 DEF Sound, TypeOK, Shape
<1>2. CASE Begin(w)
  <2>1. worker' = [worker EXCEPT ![w] = [worker[w] EXCEPT !.pc = "handling"]]
        /\ worker[w].pc = "claimed" /\ UNCHANGED <<job, run, stale, admin, crashes, requests>>
    BY <1>2 DEF Begin, Become
  <2>2. worker' \in [Worker -> Process] /\ worker'[w].pc = "handling"
        /\ worker'[w].run = worker[w].run
        /\ \A v \in Worker \ {w} : worker'[v] = worker[v]
    BY <2>1 DEF Sound, TypeOK, Process
  <2> QED
    BY <2>1, <2>2 DEF Sound, TypeOK, Shape
<1> QED
  BY <1>1, <1>2

(* The transaction of a job commits: its job has a new status, its run may *)
(* have one, and the process is idle.                                      *)
Ending(w, s, t) ==
    /\ worker[w].pc = "handling"
    /\ \E row \in JobRow :
        /\ row.status = s
        /\ \/ row.attempts = job[worker[w].run].attempts
           \/ /\ row.attempts = worker[w].attempts + 1
              /\ s = "dead_letter" <=> row.attempts >= MaxAttempts
              /\ s \in {"dead_letter", "queued"}
        /\ EndJob(w, row)
    /\ run' = IF RetailerOf(w) \in Registered
              THEN [run EXCEPT ![worker[w].run].status = t] ELSE run

LEMMA FailedRow ==
  ASSUME NEW n \in Nat
  PROVE  /\ Failed(n) \in JobRow /\ Failed(n).attempts = n
         /\ Failed(n).status = IF n >= MaxAttempts THEN "dead_letter" ELSE "queued"
<1> DEFINE e == n >= MaxAttempts
<1>1. e \in BOOLEAN
  BY CrawlAssumption
<1>2. Failed(n) = [status |-> IF e THEN "dead_letter" ELSE "queued",
                   attempts |-> n, due |-> e]
  BY DEF Failed, Exhausted
<1>3. (IF e THEN "dead_letter" ELSE "queued") \in JobStatus
  BY DEF JobStatus
<1> HIDE DEF e
<1>4. Failed(n) \in JobRow /\ Failed(n).attempts = n
        /\ Failed(n).status = IF e THEN "dead_letter" ELSE "queued"
  BY <1>1, <1>2, <1>3 DEF JobRow
<1> QED
  BY <1>4 DEF e

LEMMA EndingKinds ==
  ASSUME Sound, NEW w \in Worker, Complete(w) \/ Fail(w)
  PROVE  \/ Ending(w, "completed", "completed")
         \/ /\ RetailerOf(w) \in Registered
            /\ Ending(w, "queued", "failed") \/ Ending(w, "dead_letter", "failed")
<1>1. worker[w].pc = "handling" => worker[w].run \in Run /\ job[worker[w].run] \in JobRow
  BY DEF Sound, TypeOK, Shape
<1>2. CASE Complete(w)
  <2> DEFINE row == [job[worker[w].run] EXCEPT !.status = "completed"]
  <2>1. row \in JobRow /\ row.status = "completed"
        /\ row.attempts = job[worker[w].run].attempts
    BY <1>1, <1>2 DEF Complete, JobRow, JobStatus
  <2> QED
    BY <1>2, <2>1 DEF Complete, SetRun, Ending
<1>3. CASE Fail(w)
  <2> DEFINE n == worker[w].attempts + 1
             row == Failed(n)
  <2>1. n \in Nat
    BY DEF Sound, TypeOK, Process
  <2>2. /\ row \in JobRow /\ row.attempts = n
        /\ row.status = IF n >= MaxAttempts THEN "dead_letter" ELSE "queued"
    BY <2>1, FailedRow
  <2>3. EndJob(w, row) /\ SetRun(w, "failed") /\ worker[w].pc = "handling"
          /\ RetailerOf(w) \in Registered
    BY <1>3 DEF Fail
  <2> HIDE DEF row
  <2>4. CASE n >= MaxAttempts
    <3>1. Ending(w, "dead_letter", "failed")
      BY <2>2, <2>3, <2>4 DEF SetRun, Ending
    <3> QED
      BY <2>3, <3>1
  <2>5. CASE ~(n >= MaxAttempts)
    <3>1. Ending(w, "queued", "failed")
      BY <2>2, <2>3, <2>5 DEF SetRun, Ending
    <3> QED
      BY <2>3, <3>1
  <2> QED
    BY <2>4, <2>5
<1> QED
  BY <1>2, <1>3

LEMMA SoundEnding ==
  ASSUME Sound, NEW w \in Worker,
         NEW s \in JobStatus \ {"absent"}, NEW t \in RunStatus \ {"absent"},
         Ending(w, s, t)
  PROVE  Sound'
<1>1. PICK row \in JobRow : row.status = s /\ EndJob(w, row)
  BY DEF Ending
<1>2. worker[w].run \in Run
  BY DEF Ending, Sound, Shape
<1>3. /\ job' = [job EXCEPT ![worker[w].run] = row]
      /\ stale' = stale \ {worker[w].run}
      /\ worker' = [worker EXCEPT ![w] = At("idle")]
      /\ UNCHANGED <<admin, crashes, requests>>
  BY <1>1 DEF EndJob, Become
<1>4. /\ run' \in [Run -> RunRow]
      /\ \A i \in Run : run'[i].status = "absent" => run[i].status = "absent"
  BY DEF Ending, Sound, TypeOK, RunRow
<1>5. /\ job' \in [Run -> JobRow]
      /\ \A i \in Run : job[i].status # "absent" => job'[i].status # "absent"
      /\ \A i \in Run \ {worker[w].run} : job'[i] = job[i]
  BY <1>1, <1>2, <1>3 DEF Sound, TypeOK
<1>6. /\ worker' \in [Worker -> Process]
      /\ worker'[w].pc = "idle" /\ worker'[w].run = NoRun
      /\ \A v \in Worker \ {w} : worker'[v] = worker[v]
  BY <1>3, AtType DEF Sound, TypeOK, At
<1>7. job[worker[w].run].status # "absent" /\ run[worker[w].run].status # "absent"
  BY <1>2 DEF Sound, Shape
<1>8. run'[worker[w].run].status # "absent"
  BY <1>2, <1>4, <1>7
<1> QED
  BY <1>2, <1>3, <1>4, <1>5, <1>6, <1>7, <1>8, NotARun DEF Sound, TypeOK, Shape

-----------------------------------------------------------------------------
(* The rows and the processes are always well formed.                      *)
LEMMA SoundStep == Sound /\ [Next]_vars => Sound'
<1> SUFFICES ASSUME Sound, [Next]_vars PROVE Sound'
  OBVIOUS
<1>1. CASE Schedule
  BY <1>1, SoundCreate DEF Schedule
<1>2. CASE Clock
  BY <1>2, SoundClock DEF Clock
<1>3. CASE Admin
  BY <1>3, SoundOpens, SoundReads, SoundCommits DEF Admin, Opens
<1>4. CASE \E w \in Worker : Start(w) \/ Stop(w) \/ Crash(w) \/ Poll(w) \/ Handle(w)
  <2>1. PICK w \in Worker : Start(w) \/ Stop(w) \/ Crash(w) \/ Poll(w) \/ Handle(w)
    BY <1>4
  <2>2. CASE Complete(w) \/ Fail(w)
    <3>1. {"completed", "queued", "dead_letter"} \subseteq JobStatus \ {"absent"}
          /\ {"completed", "failed"} \subseteq RunStatus \ {"absent"}
      BY DEF JobStatus, RunStatus
    <3> QED
      BY <2>2, <3>1, EndingKinds, SoundEnding
  <2> QED
    BY <2>1, <2>2, SoundIdle, SoundClaim DEF Poll, Handle
<1>5. CASE UNCHANGED vars
  BY <1>5 DEF vars, Sound, TypeOK, Shape
<1> QED
  BY <1>1, <1>2, <1>3, <1>4, <1>5 DEF Next

LEMMA SoundInit == Init => Sound
<1> SUFFICES ASSUME Init PROVE Sound
  OBVIOUS
<1>1. At("down") \in Process
  BY AtType
<1>2. worker \in [Worker -> Process] /\ admin \in [RequestId -> Request]
  BY <1>1, NoRequestType DEF Init
<1>3. job \in [Run -> JobRow] /\ run \in [Run -> RunRow]
  BY DEF Init, JobRow, RunRow, JobStatus, RunStatus
<1>4. TypeOK
  BY <1>2, <1>3, CrawlAssumption DEF Init, TypeOK
<1>5. Shape
  BY NotARun DEF Init, Shape, At, NoRequest
<1> QED
  BY <1>4, <1>5 DEF Sound

LEMMA AlwaysSound == Spec => []Sound
<1> QED
  BY SoundInit, SoundStep, PTL DEF Spec

(* Every row, process and request of the crawl queue keeps its type.       *)
THEOREM CrawlTypeCorrect == Spec => []TypeOK
<1>1. Sound => TypeOK
  BY DEF Sound
<1> QED
  BY <1>1, AlwaysSound, PTL

-----------------------------------------------------------------------------
(* Who holds a job.                                                        *)

(* A process that starts, ends or finds nothing has no job any more.       *)
Released(w) ==
    /\ worker'[w].run = NoRun
    /\ worker'[w].pc # "claimed"
    /\ \A v \in Worker \ {w} : worker'[v] = worker[v]

LEMMA Releasing ==
  ASSUME Sound, NEW w \in Worker,
         Start(w) \/ Stop(w) \/ Crash(w) \/ CountInFlight(w) \/ FindNothing(w)
           \/ Complete(w) \/ Fail(w)
  PROVE  Released(w)
<1>1. PICK c \in {"down", "idle", "counted"}, s \in SUBSET Retailer :
        worker' = [worker EXCEPT ![w] = [At(c) EXCEPT !.capped = s]]
  <2>1. At("down") = [At("down") EXCEPT !.capped = {}]
        /\ At("idle") = [At("idle") EXCEPT !.capped = {}]
    BY DEF At
  <2>2. AtCapacity \in SUBSET Retailer
    BY DEF AtCapacity
  <2> QED
    BY <2>1, <2>2
       DEF Start, Stop, Crash, CountInFlight, FindNothing, Complete, Fail, EndJob, Become
<1> QED
  BY <1>1 DEF Released, At, Sound, TypeOK

(* Claiming a queued job.                                                  *)
Takes(w, i) ==
    /\ job[i].status = "queued"
    /\ job' = [job EXCEPT ![i].status = "locked"]
    /\ stale' = stale \ {i}
    /\ worker'[w].pc = "claimed"
    /\ worker'[w].run = i
    /\ worker'[w].attempts = job[i].attempts
    /\ \A v \in Worker \ {w} : worker'[v] = worker[v]
    /\ worker[w].pc = "counted"
    /\ UNCHANGED <<run, admin>>

LEMMA TakingOne ==
  ASSUME Sound, NEW w \in Worker, Claim(w), NEW i \in Claimable(w),
         job' = [job EXCEPT ![i].status = "locked"],
         stale' = stale \ {i},
         Become(w, [At("claimed") EXCEPT !.run = i, !.attempts = job[i].attempts])
  PROVE  i \in Run /\ Takes(w, i)
<1> DEFINE r == [At("claimed") EXCEPT !.run = i, !.attempts = job[i].attempts]
<1>1. r.pc = "claimed" /\ r.run = i /\ r.attempts = job[i].attempts
  BY DEF At
<1>2. worker' = [worker EXCEPT ![w] = r]
  BY DEF Become
<1> HIDE DEF r
<1>3. worker'[w] = r /\ \A v \in Worker \ {w} : worker'[v] = worker[v]
  BY <1>2 DEF Sound, TypeOK
<1>4. i \in Run /\ job[i].status = "queued" /\ worker[w].pc = "counted"
      /\ UNCHANGED <<run, admin>>
  BY DEF Claim, Claimable
<1> QED
  BY <1>1, <1>3, <1>4 DEF Takes

LEMMA Taking ==
  ASSUME Sound, NEW w \in Worker, Claim(w)
  PROVE  \E i \in Run : Takes(w, i)
<1>1. PICK i \in Claimable(w) :
        /\ job' = [job EXCEPT ![i].status = "locked"]
        /\ stale' = stale \ {i}
        /\ Become(w, [At("claimed") EXCEPT !.run = i, !.attempts = job[i].attempts])
  BY DEF Claim
<1> QED
  BY <1>1, TakingOne

(* A busy process has claimed its job, or locked its row.                  *)
LEMMA BusyHow ==
  ASSUME Sound, NEW w \in Worker, Busy(w)
  PROVE  /\ worker[w].run \in Run
         /\ worker[w].pc = "claimed" \/ RowLocked(worker[w].run)
  BY DEF Sound, Shape, Busy, RowLocked

(* Stuck jobs are nobody's, unless the first heartbeat is late.            *)
LEMMA StuckIsFree ==
  ASSUME Sound, NEW v \in Worker, Start(v), ~EarlyRecovery, NEW w \in Worker, Busy(w)
  PROVE  worker[w].run \notin Stuck
  BY BusyHow DEF EarlyRecovery, Stuck

(* A retry in time finds the dead letter it has read, which is nobody's.   *)
LEMMA ExclusiveCommits ==
  ASSUME Sound, Exclusive, ~LateRetry,
         NEW q \in RequestId, CommitCancel(q) \/ CommitRetry(q)
  PROVE  Exclusive'
<1>1. worker' = worker
  BY DEF CommitCancel, CommitRetry
<1>2. \A i \in Run : \/ job'[i] = job[i]
                     \/ job'[i].status = "cancelled"
                     \/ job[i].status = "dead_letter"
  <2>1. CASE CommitCancel(q)
    <3>1. job' = IF admin[q].takes THEN [job EXCEPT ![admin[q].run].status = "cancelled"]
                 ELSE job
      BY <2>1 DEF CommitCancel
    <3> QED
      BY <3>1 DEF Sound, TypeOK, JobRow
  <2>2. CASE CommitRetry(q)
    <3>1. \/ job' = job
          \/ /\ job[admin[q].run].status = "dead_letter"
             /\ job' = [job EXCEPT ![admin[q].run] = [status |-> "queued", attempts |-> 0,
                                                      due |-> TRUE]]
      BY <2>2 DEF CommitRetry, LateRetry
    <3> QED
      BY <3>1 DEF Sound, TypeOK
  <2> QED
    BY <2>1, <2>2
<1>3. \A w \in Worker : Busy(w) => worker[w].run \in Run
  BY BusyHow
<1> QED
  BY <1>1, <1>2, <1>3 DEF Exclusive, OneProcessorPerJob, Busy

LEMMA ExclusiveStep ==
  ASSUME Sound, Exclusive, [Next]_vars, ~LateRetry, ~EarlyRecovery
  PROVE  Exclusive'
<1>a. \A w \in Worker : Busy(w) => worker[w].run \in Run
  BY BusyHow
<1>1. CASE Schedule
  <2>1. worker' = worker
    BY <1>1 DEF Schedule, CreateRun
  <2>2. \A i \in Run : job[i].status # "absent" => job'[i] = job[i]
    BY <1>1 DEF Schedule, CreateRun, Unused, Sound, TypeOK, Shape
  <2> QED
    BY <1>a, <2>1, <2>2 DEF Exclusive, OneProcessorPerJob, Busy
<1>2. CASE Clock
  <2>1. worker' = worker
    BY <1>2 DEF Clock, BackoffElapses, HeartbeatTimeout
  <2>2. \A i \in Run : job'[i].status = job[i].status
    BY <1>2 DEF Clock, BackoffElapses, HeartbeatTimeout, Sound, TypeOK, JobRow
  <2> QED
    BY <1>a, <2>1, <2>2 DEF Exclusive, OneProcessorPerJob, Busy
<1>3. CASE Admin
  <2>1. ASSUME UNCHANGED <<job, worker>>
        PROVE  Exclusive'
    BY <2>1 DEF Exclusive, OneProcessorPerJob, Busy
  <2>2. CASE \E i \in Run : Opens(i)
    BY <2>1, <2>2, Opening
  <2>3. CASE \E q \in RequestId : ReadJobs(q)
    BY <2>1, <2>3 DEF ReadJobs
  <2> QED
    BY <1>3, <2>2, <2>3, ExclusiveCommits DEF Admin, Opens
<1>4. ASSUME NEW w \in Worker, Start(w)
      PROVE  Exclusive'
  <2>1. Released(w)
    BY <1>4, Releasing
  <2>2. job' = [i \in Run |-> IF i \in Stuck
                              THEN [job[i] EXCEPT !.status = "queued", !.due = TRUE]
                              ELSE job[i]]
    BY <1>4 DEF Start
  <2>3. \A v \in Worker : Busy(v) => job'[worker[v].run] = job[worker[v].run]
    BY <1>4, <1>a, <2>2, StuckIsFree
  <2> QED
    BY <2>1, <2>3 DEF Released, Exclusive, OneProcessorPerJob, Busy
<1>5. ASSUME NEW w \in Worker, Stop(w) \/ Crash(w) \/ CountInFlight(w) \/ FindNothing(w)
      PROVE  Exclusive'
  <2>1. Released(w)
    BY <1>5, Releasing
  <2>2. job' = job
    BY <1>5 DEF Stop, Crash, CountInFlight, FindNothing
  <2> QED
    BY <2>1, <2>2 DEF Exclusive, OneProcessorPerJob, Busy, Released
<1>6. ASSUME NEW w \in Worker, Claim(w)
      PROVE  Exclusive'
  <2>1. PICK i \in Run : Takes(w, i)
    BY <1>6, Taking
  <2>2. \A v \in Worker : Busy(v) => worker[v].run # i
    BY <2>1 DEF Takes, Exclusive
  <2>3. job'[i].status = "locked" /\ \A k \in Run \ {i} : job'[k] = job[k]
    BY <2>1 DEF Takes, Sound, TypeOK, JobRow
  <2>4. OneProcessorPerJob'
    BY <2>1, <2>2, NotARun DEF Takes, Exclusive, OneProcessorPerJob, Busy
  <2>5. ASSUME NEW v \in Worker, Busy(v)'
        PROVE  job'[worker'[v].run].status \in {"locked", "cancelled"}
    <3>1. CASE v = w
      BY <2>1, <2>3, <3>1 DEF Takes
    <3>2. CASE v # w
      BY <1>a, <2>1, <2>3, <2>5, <2>2, <3>2 DEF Takes, Exclusive, Busy
    <3> QED
      BY <3>1, <3>2
  <2> QED
    BY <2>4, <2>5 DEF Exclusive
<1>7. ASSUME NEW w \in Worker, Begin(w)
      PROVE  Exclusive'
  <2>1. /\ worker'[w].run = worker[w].run
        /\ \A v \in Worker \ {w} : worker'[v] = worker[v]
    BY <1>7 DEF Begin, Become, Sound, TypeOK, Process
  <2>2. job' = job
    BY <1>7 DEF Begin
  <2> QED
    BY <2>1, <2>2 DEF Exclusive, OneProcessorPerJob, Busy
<1>8. ASSUME NEW w \in Worker, Complete(w) \/ Fail(w)
      PROVE  Exclusive'
  <2>1. Released(w)
    BY <1>8, Releasing
  <2>2. /\ Busy(w) /\ worker[w].run \in Run
        /\ \E row : job' = [job EXCEPT ![worker[w].run] = row]
    BY <1>8, NotARun DEF Complete, Fail, EndJob, Sound, Shape, Busy
  <2>3. \A k \in Run \ {worker[w].run} : job'[k] = job[k]
    BY <2>2 DEF Sound, TypeOK
  <2>4. \A v \in Worker \ {w} : Busy(v) => worker[v].run # worker[w].run
    BY <2>2 DEF Exclusive, OneProcessorPerJob
  <2> QED
    BY <1>a, <2>1, <2>2, <2>3, <2>4 DEF Exclusive, OneProcessorPerJob, Busy, Released
<1>9. CASE UNCHANGED vars
  BY <1>9 DEF vars, Exclusive, OneProcessorPerJob, Busy
<1> QED
  BY <1>1, <1>2, <1>3, <1>4, <1>5, <1>6, <1>7, <1>8, <1>9 DEF Next, Poll, Handle

(* SharedOnlyByLateWrites: SKIP LOCKED, the row lock of a worker at work   *)
(* and the reads of the requests keep a job with one process, whatever     *)
(* crashes and however many requests are open, except through a retry that *)
(* comes late and a recovery that comes early.                             *)
THEOREM CrawlShared == Spec => SharedOnlyByLateWrites
<1>1. Sound /\ [Next]_vars => [~Exclusive' => ~Exclusive \/ LateRetry \/ EarlyRecovery]_vars
  BY ExclusiveStep
<1> QED
  BY <1>1, AlwaysSound, PTL DEF Spec, SharedOnlyByLateWrites

(* A claim is fresh until its first heartbeat.                             *)
Fresh == \A w \in Worker : worker[w].pc = "claimed" => worker[w].run \notin stale

LEMMA FreshStep ==
  ASSUME Sound, Fresh, ~SlowStart, [Next]_vars
  PROVE  Fresh'
<1>1. ASSUME stale' \subseteq stale,
             \A w \in Worker : worker'[w].pc = "claimed" => worker'[w] = worker[w]
      PROVE  Fresh'
  BY <1>1 DEF Fresh
<1>2. ASSUME NEW w \in Worker,
             Start(w) \/ Stop(w) \/ Crash(w) \/ CountInFlight(w) \/ FindNothing(w)
               \/ Complete(w) \/ Fail(w)
      PROVE  Fresh'
  <2>1. Released(w)
    BY <1>2, Releasing
  <2>2. stale' \subseteq stale
    BY <1>2 DEF Start, Stop, Crash, CountInFlight, FindNothing, Complete, Fail, EndJob
  <2> QED
    BY <1>1, <2>1, <2>2 DEF Released
<1>3. ASSUME NEW w \in Worker, Claim(w)
      PROVE  Fresh'
  <2>1. PICK i \in Run : Takes(w, i)
    BY <1>3, Taking
  <2> QED
    BY <2>1 DEF Takes, Fresh
<1>4. ASSUME NEW w \in Worker, Begin(w)
      PROVE  Fresh'
  <2>1. worker'[w].pc = "handling" /\ \A v \in Worker \ {w} : worker'[v] = worker[v]
    BY <1>4 DEF Begin, Become, Sound, TypeOK, Process
  <2> QED
    BY <1>1, <1>4, <2>1 DEF Begin
<1>5. CASE Clock
  BY <1>5 DEF Clock, BackoffElapses, HeartbeatTimeout, Fresh
<1>6. CASE Schedule \/ Admin \/ UNCHANGED vars
  <2>1. worker' = worker /\ stale' \subseteq stale
    BY <1>6, Opening DEF Schedule, CreateRun, Admin, Opens, ReadJobs, CommitCancel,
                         CommitRetry, vars
  <2> QED
    BY <1>1, <2>1
<1> QED
  BY <1>2, <1>3, <1>4, <1>5, <1>6 DEF Next, Poll, Handle

(* OneProcessorPerJob: with heartbeats in time and no retry of what another*)
(* request has revived already, no two processes ever work on one job.     *)
THEOREM CrawlExclusive ==
  ASSUME ~SlowStart
  PROVE  Spec /\ [][~LateRetry]_vars => []OneProcessorPerJob
<1>1. Init => Fresh /\ Exclusive
  BY NotARun DEF Init, Fresh, Exclusive, OneProcessorPerJob, Busy, At
<1>2. Sound /\ Fresh /\ [Next]_vars => Fresh'
  BY FreshStep
<1>3. Sound /\ Fresh /\ Exclusive /\ [Next]_vars /\ [~LateRetry]_vars => Exclusive'
  <2> SUFFICES ASSUME Sound, Fresh, Exclusive, [Next]_vars, [~LateRetry]_vars
               PROVE  Exclusive'
    OBVIOUS
  <2>1. CASE UNCHANGED vars
    BY <2>1 DEF vars, Exclusive, OneProcessorPerJob, Busy
  <2>2. CASE ~LateRetry
    <3>1. ~EarlyRecovery
      BY DEF EarlyRecovery, Fresh, Stuck
    <3> QED
      BY <2>2, <3>1, ExclusiveStep
  <2> QED
    BY <2>1, <2>2
<1>4. Exclusive => OneProcessorPerJob
  BY DEF Exclusive
<1> QED
  BY <1>1, <1>2, <1>3, <1>4, AlwaysSound, PTL DEF Spec

-----------------------------------------------------------------------------
(* What a step can do to one job and its run, other things being equal.    *)
JobKept(i) == job'[i].status = job[i].status /\ job'[i].attempts = job[i].attempts

Requeued(i) ==
    /\ job[i].status = "locked" /\ job'[i].status = "queued"
    /\ job'[i].attempts = job[i].attempts

Created(i) ==
    /\ job[i].status = "absent" /\ run[i].status = "absent" /\ run'[i].status = "queued"
    /\ \/ job'[i].status = "absent" /\ job'[i].attempts = job[i].attempts
       \/ job'[i].status = "queued" /\ job'[i].attempts = 0

Claimed(i) ==
    /\ job[i].status = "queued" /\ job'[i].status = "locked"
    /\ job'[i].attempts = job[i].attempts

Cancelled(i) ==
    /\ run'[i].status = "cancelled"
    /\ job'[i].status = "cancelled" \/ job'[i].status = job[i].status
    /\ job'[i].attempts = job[i].attempts

Retried(i) ==
    /\ job[i].status = "dead_letter" \/ LateRetry
    /\ job'[i].status = "queued" /\ job'[i].attempts = 0
    /\ run'[i].status = run[i].status \/ run'[i].status = "queued"

Completed(i) ==
    /\ job[i].status # "absent"
    /\ job'[i].status = "completed" /\ job'[i].attempts = job[i].attempts
    /\ IF run[i].retailer \in Registered
       THEN run'[i].status = "completed" ELSE run'[i].status = run[i].status

FailedOnce(i) ==
    /\ job[i].status # "absent"
    /\ run[i].retailer \in Registered /\ run'[i].status = "failed"
    /\ \E w \in Worker :
        /\ worker[w].run = i
        /\ job'[i].attempts = worker[w].attempts + 1
        /\ job'[i].status = IF job'[i].attempts >= MaxAttempts THEN "dead_letter" ELSE "queued"

RunKept(i) == run'[i].status = run[i].status

Change(i) ==
    \/ (JobKept(i) \/ Requeued(i) \/ Claimed(i)) /\ RunKept(i)
    \/ Created(i) \/ Cancelled(i) \/ Retried(i) \/ Completed(i) \/ FailedOnce(i)

(* A run keeps its retailer once it has one.                               *)
RetailerKept(i) == run[i].status # "absent" => run'[i].retailer = run[i].retailer

LEMMA EndingChanges ==
  ASSUME Sound, NEW w \in Worker, Complete(w) \/ Fail(w), NEW i \in Run
  PROVE  Change(i) /\ RetailerKept(i)
<1>1. worker[w].run \in Run /\ job[worker[w].run] \in JobRow
      /\ job[worker[w].run].status # "absent"
  BY DEF Complete, Fail, Sound, TypeOK, Shape
<1>2. CASE Complete(w)
  <2>1. job' = [job EXCEPT ![worker[w].run]
                  = [job[worker[w].run] EXCEPT !.status = "completed"]]
    BY <1>2 DEF Complete, EndJob
  <2>2. run' = IF RetailerOf(w) \in Registered
               THEN [run EXCEPT ![worker[w].run].status = "completed"] ELSE run
    BY <1>2 DEF Complete, SetRun
  <2>3. /\ job'[worker[w].run].status = "completed"
        /\ job'[worker[w].run].attempts = job[worker[w].run].attempts
        /\ \A k \in Run \ {worker[w].run} : job'[k] = job[k]
    BY <1>1, <2>1 DEF Sound, TypeOK, JobRow
  <2>4. /\ \A k \in Run \ {worker[w].run} : run'[k] = run[k]
        /\ IF RetailerOf(w) \in Registered
           THEN run'[worker[w].run].status = "completed"
           ELSE run'[worker[w].run].status = run[worker[w].run].status
        /\ run'[i].retailer = run[i].retailer
    BY <1>1, <2>2 DEF Sound, TypeOK, RunRow
  <2>5. CASE i = worker[w].run
    BY <1>1, <2>3, <2>4, <2>5 DEF Change, Completed, RetailerOf, RetailerKept
  <2>6. CASE i # worker[w].run
    BY <2>3, <2>4, <2>6 DEF Change, JobKept, RunKept, RetailerKept
  <2> QED
    BY <2>5, <2>6
<1>3. CASE Fail(w)
  <2> DEFINE n == worker[w].attempts + 1
  <2>1. n \in Nat
    BY DEF Sound, TypeOK, Process
  <2>2. job' = [job EXCEPT ![worker[w].run] = Failed(n)]
    BY <1>3 DEF Fail, EndJob
  <2>3. RetailerOf(w) \in Registered
        /\ run' = [run EXCEPT ![worker[w].run].status = "failed"]
    BY <1>3 DEF Fail, SetRun
  <2>4. job'[worker[w].run] = Failed(n) /\ \A k \in Run \ {worker[w].run} : job'[k] = job[k]
    BY <1>1, <2>2 DEF Sound, TypeOK
  <2>5. /\ \A k \in Run \ {worker[w].run} : run'[k] = run[k]
        /\ run'[worker[w].run].status = "failed"
        /\ run'[i].retailer = run[i].retailer
    BY <1>1, <2>3 DEF Sound, TypeOK, RunRow
  <2>6. /\ Failed(n).attempts = n
        /\ Failed(n).status = IF n >= MaxAttempts THEN "dead_letter" ELSE "queued"
    BY <2>1, FailedRow
  <2>7. CASE i = worker[w].run
    BY <1>1, <2>3, <2>4, <2>5, <2>6, <2>7 DEF Change, FailedOnce, RetailerOf, RetailerKept
  <2>8. CASE i # worker[w].run
    BY <2>4, <2>5, <2>8 DEF Change, JobKept, RunKept, RetailerKept
  <2> QED
    BY <2>7, <2>8
<1> QED
  BY <1>2, <1>3

LEMMA CommitChanges ==
  ASSUME Sound, NEW q \in RequestId, CommitCancel(q) \/ CommitRetry(q), NEW i \in Run
  PROVE  Change(i) /\ RetailerKept(i)
<1>1. CASE CommitCancel(q)
  <2>1. /\ job' = IF admin[q].takes THEN [job EXCEPT ![admin[q].run].status = "cancelled"]
                 ELSE job
        /\ run' = [run EXCEPT ![admin[q].run].status = "cancelled"]
    BY <1>1 DEF CommitCancel
  <2>2. run'[i].retailer = run[i].retailer
        /\ run'[i].status = IF i = admin[q].run THEN "cancelled" ELSE run[i].status
    BY <2>1 DEF Sound, TypeOK, RunRow
  <2>3. /\ job'[i].attempts = job[i].attempts
        /\ job'[i].status = IF i = admin[q].run /\ admin[q].takes
                            THEN "cancelled" ELSE job[i].status
    BY <2>1 DEF Sound, TypeOK, JobRow
  <2> QED
    BY <2>2, <2>3 DEF Change, Cancelled, JobKept, RunKept, RetailerKept
<1>2. CASE CommitRetry(q)
  <2>1. /\ job' = IF admin[q].takes
                  THEN [job EXCEPT ![admin[q].run] = [status |-> "queued", attempts |-> 0,
                                                      due |-> TRUE]]
                  ELSE job
        /\ run' = IF admin[q].takes /\ admin[q].reopens
                  THEN [run EXCEPT ![admin[q].run].status = "queued"] ELSE run
        /\ admin[q].takes => job[admin[q].run].status = "dead_letter" \/ LateRetry
    BY <1>2 DEF CommitRetry, LateRetry
  <2>2. run'[i].retailer = run[i].retailer
        /\ \/ run'[i].status = run[i].status
           \/ run'[i].status = "queued" /\ i = admin[q].run /\ admin[q].takes
    BY <2>1 DEF Sound, TypeOK, RunRow
  <2>3. IF i = admin[q].run /\ admin[q].takes
        THEN job'[i].status = "queued" /\ job'[i].attempts = 0
        ELSE job'[i] = job[i]
    BY <2>1 DEF Sound, TypeOK
  <2> QED
    BY <2>1, <2>2, <2>3 DEF Change, Retried, JobKept, RunKept, RetailerKept
<1> QED
  BY <1>1, <1>2

(* Every step changes every job and its run in one of these ways.          *)
LEMMA Changes ==
  ASSUME Sound, [Next]_vars, NEW i \in Run
  PROVE  Change(i) /\ RetailerKept(i)
<1>1. CASE UNCHANGED <<job, run>>
  BY <1>1 DEF Change, JobKept, RunKept, RetailerKept
<1>2. ASSUME NEW r \in Retailer, CreateRun(r)
      PROVE  Change(i) /\ RetailerKept(i)
  <2>1. PICK k \in Run, hasKey \in BOOLEAN :
          /\ run[k].status = "absent"
          /\ run' = [run EXCEPT ![k] = [status |-> "queued", retailer |-> r]]
          /\ job' = IF hasKey THEN job
                    ELSE [job EXCEPT ![k] = [status |-> "queued", attempts |-> 0,
                                             due |-> TRUE]]
    BY <1>2 DEF CreateRun, Unused
  <2>2. job[k].status = "absent"
    BY <2>1 DEF Sound, Shape
  <2>3. CASE i = k
    BY <2>1, <2>2, <2>3 DEF Sound, TypeOK, Change, Created, RetailerKept
  <2>4. CASE i # k
    BY <2>1, <2>4 DEF Sound, TypeOK, Change, JobKept, RunKept, RetailerKept
  <2> QED
    BY <2>3, <2>4
<1>3. ASSUME NEW k \in Run, BackoffElapses(k)
      PROVE  Change(i) /\ RetailerKept(i)
  <2>1. job' = [job EXCEPT ![k].due = TRUE] /\ run' = run
    BY <1>3 DEF BackoffElapses
  <2>2. JobKept(i)
    BY <2>1 DEF JobKept, Sound, TypeOK, JobRow
  <2> QED
    BY <2>1, <2>2 DEF Change, RunKept, RetailerKept
<1>4. ASSUME NEW w \in Worker, Start(w)
      PROVE  Change(i) /\ RetailerKept(i)
  <2>1. job' = [k \in Run |-> IF k \in Stuck
                             THEN [job[k] EXCEPT !.status = "queued", !.due = TRUE]
                             ELSE job[k]] /\ run' = run
    BY <1>4 DEF Start
  <2>2. i \in Stuck => job[i].status = "locked"
    BY DEF Stuck
  <2>3. Requeued(i) \/ JobKept(i)
    BY <2>1, <2>2 DEF Requeued, JobKept, Sound, TypeOK, JobRow
  <2> QED
    BY <2>1, <2>3 DEF Change, RunKept, RetailerKept
<1>5. ASSUME NEW w \in Worker, Claim(w)
      PROVE  Change(i) /\ RetailerKept(i)
  <2>1. PICK k \in Run : Takes(w, k)
    BY <1>5, Taking
  <2>2. Claimed(i) \/ JobKept(i)
    BY <2>1 DEF Takes, Claimed, JobKept, Sound, TypeOK, JobRow
  <2> QED
    BY <2>1, <2>2 DEF Takes, Change, RunKept, RetailerKept
<1>6. CASE Schedule
  BY <1>2, <1>6 DEF Schedule
<1>7. CASE Clock
  BY <1>1, <1>3, <1>7 DEF Clock, HeartbeatTimeout
<1>8. CASE Admin
  BY <1>1, <1>8, Opening, CommitChanges DEF Admin, Opens, ReadJobs
<1>9. CASE \E w \in Worker : Start(w) \/ Stop(w) \/ Crash(w) \/ Poll(w) \/ Handle(w)
  BY <1>1, <1>4, <1>5, <1>9, EndingChanges
     DEF Poll, Handle, Stop, Crash, CountInFlight, FindNothing, Begin
<1> QED
  BY <1>1, <1>6, <1>7, <1>8, <1>9 DEF Next, vars

-----------------------------------------------------------------------------
(* Attempts.  The attempts a process works with are those of its job when  *)
(* it was claimed: fewer than the most allowed.                            *)
Counted ==
    /\ \A i \in Run :
        /\ job[i].attempts <= MaxAttempts
        /\ job[i].status \in Cancellable => job[i].attempts < MaxAttempts
        /\ job[i].status = "dead_letter" => job[i].attempts = MaxAttempts
    /\ \A w \in Worker : worker[w].run \in Run => worker[w].attempts < MaxAttempts

LEMMA CountedStep ==
  ASSUME Sound, Counted, [Next]_vars
  PROVE  Counted'
<1>1. ASSUME NEW i \in Run
      PROVE  /\ job'[i].attempts <= MaxAttempts
             /\ job'[i].status \in Cancellable => job'[i].attempts < MaxAttempts
             /\ job'[i].status = "dead_letter" => job'[i].attempts = MaxAttempts
  <2>1. Change(i)
    BY <1>1, Changes
  <2>2. job[i].attempts \in Nat /\ job'[i].attempts \in Nat
    BY SoundStep DEF Sound, TypeOK, JobRow
  <2>3. CASE FailedOnce(i)
    <3>1. PICK w \in Worker :
            /\ worker[w].run = i
            /\ job'[i].attempts = worker[w].attempts + 1
            /\ job'[i].status = IF job'[i].attempts >= MaxAttempts
                               THEN "dead_letter" ELSE "queued"
      BY <2>3 DEF FailedOnce
    <3>2. worker[w].attempts < MaxAttempts /\ worker[w].attempts \in Nat
      BY <3>1 DEF Counted, Sound, TypeOK, Process
    <3> QED
      BY <3>1, <3>2, CrawlAssumption DEF Cancellable
  <2>4. CASE ~FailedOnce(i)
    <3>1. /\ job'[i].attempts = 0 \/ job'[i].attempts = job[i].attempts
          /\ job'[i].status \in Cancellable
                => job'[i].attempts = 0
                    \/ (job[i].status \in Cancellable /\ job'[i].attempts = job[i].attempts)
          /\ job'[i].status = "dead_letter"
                => job[i].status = "dead_letter" /\ job'[i].attempts = job[i].attempts
      BY <2>1, <2>4
         DEF Change, JobKept, Requeued, Claimed, Created, Cancelled, Retried, Completed,
             Cancellable
    <3>2. /\ job[i].attempts <= MaxAttempts
          /\ job[i].status \in Cancellable => job[i].attempts < MaxAttempts
          /\ job[i].status = "dead_letter" => job[i].attempts = MaxAttempts
      BY DEF Counted
    <3> QED
      BY <2>2, <3>1, <3>2, CrawlAssumption
  <2> QED
    BY <2>3, <2>4
<1>2. ASSUME NEW w \in Worker, worker'[w].run \in Run
      PROVE  worker'[w].attempts < MaxAttempts
  <2>1. CASE worker'[w].run = worker[w].run /\ worker'[w].attempts = worker[w].attempts
    BY <1>2, <2>1 DEF Counted
  <2>2. CASE \E i \in Run : Takes(w, i)
    BY <2>2 DEF Takes, Counted, Cancellable
  <2>3. \/ worker' = worker
        \/ \E v \in Worker : Released(v)
        \/ \E v \in Worker : \E i \in Run : Takes(v, i)
        \/ \E v \in Worker : worker' = [worker EXCEPT ![v] = [worker[v] EXCEPT !.pc = "handling"]]
    <3>1. CASE Schedule \/ Clock \/ Admin \/ UNCHANGED vars
      BY <3>1, Opening
         DEF Schedule, CreateRun, Clock, BackoffElapses, HeartbeatTimeout, Admin, Opens,
             ReadJobs, CommitCancel, CommitRetry, vars
    <3>2. CASE \E v \in Worker : Start(v) \/ Stop(v) \/ Crash(v) \/ Poll(v) \/ Handle(v)
      BY <3>2, Releasing, Taking DEF Poll, Handle, Begin, Become
    <3> QED
      BY <3>1, <3>2 DEF Next
  <2>4. CASE \E v \in Worker : Released(v)
    BY <1>2, <2>1, <2>4, NotARun DEF Released
  <2>5. CASE \E v \in Worker : \E i \in Run : Takes(v, i)
    BY <1>2, <2>1, <2>2, <2>5 DEF Takes
  <2>6. CASE \E v \in Worker : worker' = [worker EXCEPT ![v] = [worker[v] EXCEPT !.pc = "handling"]]
    BY <1>2, <2>1, <2>6 DEF Sound, TypeOK, Process
  <2> QED
    BY <1>2, <2>1, <2>3, <2>4, <2>5, <2>6
<1> QED
  BY <1>1, <1>2 DEF Counted

(* AttemptsBounded: no job is tried more than max_attempts times between   *)
(* two retries, though two processes may count the same attempt.           *)
THEOREM CrawlAttempts == Spec => []AttemptsBounded
<1>1. Init => Counted
  BY NotARun, CrawlAssumption DEF Init, Counted, Cancellable, At
<1>2. Sound /\ Counted /\ [Next]_vars => Counted'
  BY CountedStep
<1>3. Counted => AttemptsBounded
  BY DEF Counted, AttemptsBounded
<1> QED
  BY <1>1, <1>2, <1>3, AlwaysSound, PTL DEF Spec

-----------------------------------------------------------------------------
(* Only runs with a connector are ever completed or failed.                *)
Outcomes == \A i \in Run : run[i].status \in {"completed", "failed"}
                              => run[i].retailer \in Registered

LEMMA OutcomesStep ==
  ASSUME Sound, Outcomes, [Next]_vars
  PROVE  Outcomes'
<1> SUFFICES ASSUME NEW i \in Run
             PROVE  run'[i].status \in {"completed", "failed"}
                        => run'[i].retailer \in Registered
  BY DEF Outcomes
<1>1. Change(i) /\ RetailerKept(i)
  BY Changes
<1>2. run[i].status \in {"completed", "failed"} => run[i].retailer \in Registered
  BY DEF Outcomes
<1>3. run[i].status = "absent" => job[i].status = "absent"
  BY DEF Sound, Shape
<1> QED
  BY <1>1, <1>2, <1>3
     DEF Change, Created, Cancelled, Retried, Completed, FailedOnce, RunKept, RetailerKept

LEMMA AlwaysOutcomes == Spec => [](Sound /\ Outcomes)
<1>1. Init => Outcomes
  BY DEF Init, Outcomes
<1>2. Sound /\ Outcomes /\ [Next]_vars => Outcomes'
  BY OutcomesStep
<1> QED
  BY <1>1, <1>2, AlwaysSound, PTL DEF Spec

LEMMA FollowsStep ==
  ASSUME Sound, Outcomes, RunFollowsJob, [Next]_vars, ~LateRetry
  PROVE  RunFollowsJob'
<1> SUFFICES ASSUME NEW i \in Run
             PROVE  /\ run'[i].status = "completed" => job'[i].status = "completed"
                    /\ run'[i].status = "failed"
                          => job'[i].status \in Cancellable \cup {"dead_letter"}
                    /\ job'[i].status = "cancelled" => run'[i].status = "cancelled"
                    /\ job'[i].status = "dead_letter"
                          => run'[i].status \in {"failed", "cancelled"}
                    /\ job'[i].status = "completed" /\ run'[i].retailer \in Registered
                          => run'[i].status \in {"completed", "cancelled"}
  BY DEF RunFollowsJob
<1>1. Change(i) /\ RetailerKept(i)
  BY Changes
<1>2. /\ run[i].status = "completed" => job[i].status = "completed"
      /\ run[i].status = "failed" => job[i].status \in Cancellable \cup {"dead_letter"}
      /\ job[i].status = "cancelled" => run[i].status = "cancelled"
      /\ job[i].status = "dead_letter" => run[i].status \in {"failed", "cancelled"}
      /\ job[i].status = "completed" /\ run[i].retailer \in Registered
            => run[i].status \in {"completed", "cancelled"}
      /\ run[i].status \in {"completed", "failed"} => run[i].retailer \in Registered
      /\ run[i].status = "absent" => job[i].status = "absent"
  BY DEF Outcomes, RunFollowsJob, Sound, Shape
<1> QED
  BY <1>1, <1>2
     DEF Change, JobKept, Requeued, Claimed, Created, Cancelled, Retried, Completed,
         FailedOnce, RunKept, RetailerKept, Cancellable

(* MisleadingOnlyByLateRetry: whatever the workers and the open requests   *)
(* write from what they have read, also two workers with one job, the run  *)
(* that the console shows and its job part only when a retry requeues a    *)
(* job that is a dead letter no more.                                      *)
THEOREM CrawlMisleading == Spec => MisleadingOnlyByLateRetry
<1>1. Sound /\ Outcomes /\ [Next]_vars
        => [~RunFollowsJob' => ~RunFollowsJob \/ LateRetry]_vars
  BY FollowsStep
<1> QED
  BY <1>1, AlwaysOutcomes, PTL DEF Spec, MisleadingOnlyByLateRetry

(* RunFollowsJob, which the admin console relies on: without such a retry  *)
(* the run and its job always agree, with heartbeats in time or late.      *)
THEOREM CrawlRunFollowsJob == Spec /\ [][~LateRetry]_vars => []RunFollowsJob
<1>1. Init => RunFollowsJob
  BY DEF Init, RunFollowsJob, Cancellable
<1>2. Sound /\ Outcomes /\ RunFollowsJob /\ [Next]_vars /\ [~LateRetry]_vars
        => RunFollowsJob'
  <2>1. RunFollowsJob /\ UNCHANGED vars => RunFollowsJob'
    BY DEF vars, RunFollowsJob
  <2> QED
    BY <2>1, FollowsStep
<1> QED
  BY <1>1, <1>2, AlwaysOutcomes, PTL DEF Spec

-----------------------------------------------------------------------------
(* Jobs in flight.                                                         *)

LEMMA RunsFinite == IsFiniteSet(Run)
  BY CrawlAssumption, FS_Interval DEF Run

(* A step that claims nothing and counts nothing leaves no more jobs in    *)
(* flight, and no more processes about to claim.                           *)
LEMMA FewerBounded ==
  ASSUME IsFiniteSet(Worker), Sound, InFlightBounded, NEW r \in Retailer,
         InFlight(r)' \subseteq InFlight(r), AboutToClaim(r)' \subseteq AboutToClaim(r)
  PROVE  Cardinality(InFlight(r)') + Cardinality(AboutToClaim(r)')
            < Limit + Cardinality(Worker)
<1>1. IsFiniteSet(InFlight(r)) /\ IsFiniteSet(AboutToClaim(r))
  BY RunsFinite, FS_Subset DEF InFlight, AboutToClaim
<1>2. /\ Cardinality(InFlight(r)') <= Cardinality(InFlight(r))
      /\ Cardinality(AboutToClaim(r)') <= Cardinality(AboutToClaim(r))
  BY <1>1, FS_Subset
<1>3. /\ Cardinality(InFlight(r)) \in Nat /\ Cardinality(AboutToClaim(r)) \in Nat
      /\ Cardinality(InFlight(r)') \in Nat /\ Cardinality(AboutToClaim(r)') \in Nat
      /\ Cardinality(Worker) \in Nat
  BY <1>1, FS_Subset, FS_CardinalityType
<1>4. Cardinality(InFlight(r)) + Cardinality(AboutToClaim(r)) < Limit + Cardinality(Worker)
  BY DEF InFlightBounded
<1> QED
  BY <1>2, <1>3, <1>4, CrawlAssumption

LEMMA InFlightStep ==
  ASSUME IsFiniteSet(Worker), Sound, InFlightBounded, [Next]_vars, NEW r \in Retailer
  PROVE  Cardinality(InFlight(r)') + Cardinality(AboutToClaim(r)')
            < Limit + Cardinality(Worker)
<1> DEFINE Goal == Cardinality(InFlight(r)') + Cardinality(AboutToClaim(r)')
                      < Limit + Cardinality(Worker)
<1>1. ASSUME \A i \in Run : job'[i].status = "locked" => job[i].status = "locked",
             \A i \in Run : job[i].status # "absent" => run'[i].retailer = run[i].retailer,
             \A w \in Worker : worker'[w].pc = "counted" => worker'[w] = worker[w]
      PROVE  Goal
  <2>1. InFlight(r)' \subseteq InFlight(r)
    <3>1. ASSUME NEW i \in Run, job'[i].status = "locked", run'[i].retailer = r
          PROVE  job[i].status = "locked" /\ run[i].retailer = r
      <4>1. job[i].status = "locked"
        BY <1>1, <3>1
      <4>2. run'[i].retailer = run[i].retailer
        BY <1>1, <4>1
      <4> QED
        BY <3>1, <4>1, <4>2
    <3> QED
      BY <3>1 DEF InFlight
  <2>2. AboutToClaim(r)' \subseteq AboutToClaim(r)
    BY <1>1 DEF AboutToClaim
  <2> QED
    BY <2>1, <2>2, FewerBounded
<1>2. ASSUME NEW w \in Worker, CountInFlight(w)
      PROVE  Goal
  <2>1. InFlight(r)' = InFlight(r)
    BY <1>2 DEF CountInFlight, InFlight
  <2>2. worker' = [worker EXCEPT ![w] = [At("counted") EXCEPT !.capped = AtCapacity]]
    BY <1>2 DEF CountInFlight, Become
  <2>3. worker'[w].capped = AtCapacity /\ \A v \in Worker \ {w} : worker'[v] = worker[v]
    BY <2>2 DEF At, Sound, TypeOK
  <2>4. CASE r \in AtCapacity
    <3>1. AboutToClaim(r)' \subseteq AboutToClaim(r)
      BY <2>3, <2>4 DEF AboutToClaim
    <3> QED
      BY <2>1, <3>1, FewerBounded
  <2>5. CASE r \notin AtCapacity
    <3>1. Cardinality(InFlight(r)) \in Nat
      BY RunsFinite, FS_Subset, FS_CardinalityType DEF InFlight
    <3>2. Cardinality(InFlight(r)) < Limit
      BY <2>5, <3>1, CrawlAssumption DEF AtCapacity
    <3>3. AboutToClaim(r)' \subseteq Worker
      BY DEF AboutToClaim
    <3>4. /\ Cardinality(AboutToClaim(r)') <= Cardinality(Worker)
          /\ Cardinality(AboutToClaim(r)') \in Nat /\ Cardinality(Worker) \in Nat
      BY <3>3, FS_Subset, FS_CardinalityType
    <3> QED
      BY <2>1, <3>1, <3>2, <3>4, CrawlAssumption
  <2> QED
    BY <2>4, <2>5
<1>3. ASSUME NEW w \in Worker, Claim(w)
      PROVE  Goal
  <2>1. PICK i \in Run : Takes(w, i) /\ run[i].retailer \notin worker[w].capped
    <3>1. PICK i \in Claimable(w) :
            /\ job' = [job EXCEPT ![i].status = "locked"]
            /\ stale' = stale \ {i}
            /\ Become(w, [At("claimed") EXCEPT !.run = i, !.attempts = job[i].attempts])
      BY <1>3 DEF Claim
    <3> QED
      BY <1>3, <3>1, TakingOne DEF Claimable
  <2>2. job'[i].status = "locked" /\ job[i].status = "queued"
        /\ \A k \in Run \ {i} : job'[k] = job[k]
    BY <2>1 DEF Takes, Sound, TypeOK, JobRow
  <2>3. /\ run' = run /\ worker[w].pc = "counted" /\ worker'[w].pc # "counted"
        /\ \A v \in Worker \ {w} : worker'[v] = worker[v]
    BY <2>1 DEF Takes
  <2>4. CASE run[i].retailer = r
    <3>1. InFlight(r)' = InFlight(r) \cup {i} /\ i \notin InFlight(r)
      BY <2>2, <2>3, <2>4 DEF InFlight
    <3>2. AboutToClaim(r)' = AboutToClaim(r) \ {w} /\ w \in AboutToClaim(r)
      BY <2>1, <2>3, <2>4 DEF AboutToClaim
    <3>3. IsFiniteSet(InFlight(r)) /\ IsFiniteSet(AboutToClaim(r))
      BY RunsFinite, FS_Subset DEF InFlight, AboutToClaim
    <3>4. /\ Cardinality(InFlight(r)') = Cardinality(InFlight(r)) + 1
          /\ Cardinality(AboutToClaim(r)') = Cardinality(AboutToClaim(r)) - 1
      <4>1. Cardinality(InFlight(r) \cup {i}) = Cardinality(InFlight(r)) + 1
        BY <3>1, <3>3, FS_AddElement
      <4>2. Cardinality(AboutToClaim(r) \ {w}) = Cardinality(AboutToClaim(r)) - 1
        BY <3>2, <3>3, FS_RemoveElement
      <4> QED
        BY <3>1, <3>2, <4>1, <4>2
    <3>5. Cardinality(InFlight(r)) + Cardinality(AboutToClaim(r)) < Limit + Cardinality(Worker)
      BY DEF InFlightBounded
    <3>6. Cardinality(InFlight(r)) \in Nat /\ Cardinality(AboutToClaim(r)) \in Nat
      BY <3>3, FS_CardinalityType
    <3> QED
      BY <3>4, <3>5, <3>6
  <2>5. CASE run[i].retailer # r
    <3>1. InFlight(r)' \subseteq InFlight(r)
      BY <2>2, <2>3, <2>5 DEF InFlight
    <3>2. AboutToClaim(r)' \subseteq AboutToClaim(r)
      BY <2>3 DEF AboutToClaim
    <3> QED
      BY <3>1, <3>2, FewerBounded
  <2> QED
    BY <2>4, <2>5
<1>4. ASSUME NEW w \in Worker,
             Start(w) \/ Stop(w) \/ Crash(w) \/ FindNothing(w) \/ Begin(w)
      PROVE  Goal
  <2>1. \A i \in Run : /\ job'[i].status = "locked" => job[i].status = "locked"
                      /\ run'[i].retailer = run[i].retailer
    <3>1. CASE Start(w)
      <4>1. run' = run
            /\ job' = [i \in Run |-> IF i \in Stuck
                                    THEN [job[i] EXCEPT !.status = "queued", !.due = TRUE]
                                    ELSE job[i]]
        BY <3>1 DEF Start
      <4>2. \A i \in Stuck : job[i].status = "locked"
        BY DEF Stuck
      <4> QED
        BY <4>1, <4>2
    <3>2. CASE Stop(w) \/ Crash(w) \/ FindNothing(w) \/ Begin(w)
      BY <3>2 DEF Stop, Crash, FindNothing, Begin
    <3> QED
      BY <1>4, <3>1, <3>2
  <2>2. \A v \in Worker : worker'[v].pc = "counted" => worker'[v] = worker[v]
    <3>1. CASE Begin(w)
      <4>1. worker' = [worker EXCEPT ![w] = [worker[w] EXCEPT !.pc = "handling"]]
        BY <3>1 DEF Begin, Become
      <4> QED
        BY <4>1 DEF Sound, TypeOK, Process
    <3>2. CASE Start(w) \/ Stop(w) \/ Crash(w) \/ FindNothing(w)
      <4>1. PICK c \in {"down", "idle"} : worker' = [worker EXCEPT ![w] = At(c)]
        BY <3>2 DEF Start, Stop, Crash, FindNothing, Become
      <4> QED
        BY <4>1 DEF At, Sound, TypeOK
    <3> QED
      BY <1>4, <3>1, <3>2
  <2> QED
    BY <1>1, <2>1, <2>2
<1>5. ASSUME NEW w \in Worker, Complete(w) \/ Fail(w)
      PROVE  Goal
  <2>1. PICK s \in {"completed", "queued", "dead_letter"}, t \in {"completed", "failed"} :
          Ending(w, s, t)
    BY <1>5, EndingKinds
  <2>2. PICK row \in JobRow : row.status = s /\ EndJob(w, row)
    BY <2>1 DEF Ending
  <2>3. \A i \in Run : job'[i].status = "locked" => job[i].status = "locked"
    BY <2>2 DEF EndJob, Sound, TypeOK
  <2>4. \A i \in Run : run'[i].retailer = run[i].retailer
    BY <2>1 DEF Ending, Sound, TypeOK, RunRow
  <2>5. \A v \in Worker : worker'[v].pc = "counted" => worker'[v] = worker[v]
    BY <2>2 DEF EndJob, Become, At, Sound, TypeOK
  <2> QED
    BY <1>1, <2>3, <2>4, <2>5
<1>6. CASE Schedule \/ Clock \/ Admin
  <2>1. worker' = worker
    BY <1>6, Opening
       DEF Schedule, CreateRun, Clock, BackoffElapses, HeartbeatTimeout, Admin, Opens,
           ReadJobs, CommitCancel, CommitRetry
  <2>2. /\ \A i \in Run : job'[i].status = "locked" => job[i].status = "locked"
        /\ \A i \in Run : job[i].status # "absent" => run'[i].retailer = run[i].retailer
    <3>1. CASE Schedule
      BY <3>1 DEF Schedule, CreateRun, Unused, Sound, Shape, TypeOK
    <3>2. CASE Clock
      BY <3>2 DEF Clock, BackoffElapses, HeartbeatTimeout, Sound, TypeOK, JobRow
    <3>3. CASE (\E i \in Run : Opens(i)) \/ (\E q \in RequestId : ReadJobs(q))
      BY <3>3, Opening DEF ReadJobs
    <3>4. ASSUME NEW q \in RequestId, CommitCancel(q)
          PROVE  \A i \in Run : /\ job'[i].status = "locked" => job[i].status = "locked"
                                /\ run'[i].retailer = run[i].retailer
      BY <3>4 DEF CommitCancel, Sound, TypeOK, JobRow, RunRow
    <3>5. ASSUME NEW q \in RequestId, CommitRetry(q)
          PROVE  \A i \in Run : /\ job'[i].status = "locked" => job[i].status = "locked"
                                /\ run'[i].retailer = run[i].retailer
      BY <3>5 DEF CommitRetry, Sound, TypeOK, JobRow, RunRow
    <3> QED
      BY <1>6, <3>1, <3>2, <3>3, <3>4, <3>5 DEF Admin, Opens
  <2> QED
    BY <1>1, <2>1, <2>2
<1>7. CASE UNCHANGED vars
  BY <1>1, <1>7 DEF vars
<1> QED
  BY <1>2, <1>3, <1>4, <1>5, <1>6, <1>7 DEF Next, Poll, Handle

(* InFlightBounded: a domain limit counted in one statement and enforced   *)
(* in the next is exceeded by less than the number of workers, whatever    *)
(* the heartbeats, crashes and admin requests.                             *)
THEOREM CrawlInFlight ==
  ASSUME IsFiniteSet(Worker)
  PROVE  Spec => []InFlightBounded
<1>1. Init => InFlightBounded
  <2> SUFFICES ASSUME Init, NEW r \in Retailer
               PROVE  Cardinality(InFlight(r)) + Cardinality(AboutToClaim(r))
                        < Limit + Cardinality(Worker)
    BY DEF InFlightBounded
  <2>1. InFlight(r) = {} /\ AboutToClaim(r) = {}
    BY DEF Init, InFlight, AboutToClaim, At
  <2>2. Cardinality(InFlight(r)) = 0 /\ Cardinality(AboutToClaim(r)) = 0
    BY <2>1, FS_EmptySet
  <2> QED
    BY <2>2, FS_CardinalityType, CrawlAssumption
<1>2. Sound /\ InFlightBounded /\ [Next]_vars => InFlightBounded'
  BY InFlightStep DEF InFlightBounded
<1> QED
  BY <1>1, <1>2, AlwaysSound, PTL DEF Spec

=============================================================================
