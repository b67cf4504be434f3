# CestaPlan in TLA+

CestaPlan plans a household's meals and its grocery basket from supermarket
prices. It is a FastAPI application, two kinds of PostgreSQL-backed workers, a
deterministic planning engine and a Next.js front end. This directory models the
parts of it where several processes meet in the database or over the network, and
the engine that makes the plans, checks them with TLC and proves what matters most
of them with TLAPS. Paths below are relative to
`src/`; `api/` stands for `apps/api/src/cestaplan_api/`, `worker/` for
`apps/api/src/cestaplan_worker/`, `engine/` for `apps/api/src/cestaplan_engine/`.

## 1. Inventory

| Component | State it keeps | Operations | Talks to | What is hard | What makes it correct |
|---|---|---|---|---|---|
| **Plan generation queue and worker** (`worker/main.py`, `worker/processor.py`, `api/services/plan_service.py`, `api/routers/plans.py`) | `generation_job`, `optimization_run`, `meal_plan`, `planned_meal`, `grocery_list` | generate, regenerate, regenerate a meal; claim, process, persist, fail, retry, recover | engine, quotas, price refresh | concurrent workers, a worker killed at any point, retries with backoff, row locks and deadlocks, an ORM that writes only what it believes changed | one process per job; job, run and plan agree; attempts bounded; a settled job is final; the contents of a plan come from one run; everything settles |
| **Staging price history** (`api/services/observation_persistence.py`, `price_history_lane.py`, `observation_identity.py`, `provider_sync.py`, `targeted_discovery.py`, `api/ingestion/current_price.py`) | `price_observation`, `price_observation_occurrence`, `price_conflict` | record a fact, reuse it, place it in its lane, confirm it; read the price at an instant | provider adapters, rollback | concurrent syncs, late observations, contradictions at one instant, aborts, NULLs that escape unique indexes | lanes are sound chains; no duplicate fact or occurrence; the answer does not depend on the order of arrival; locks are released |
| **Price rollback** (`api/services/price_rollback.py`) | the same rows | `rollback_sync`, `rollback_staging_observations` | price history, without its locks | runs among syncs | the previous prices are back; lanes stay sound |
| **Crawl queue and worker** (`api/ingestion/queue.py`, `crawl_worker.py`, `run_service.py`, `scheduler.py`, `api/routers/ingestion_admin.py`) | `crawl_job`, `crawl_run`, connector state | enqueue, claim, heartbeat, complete, fail, cancel, retry, recover; run counters; connector success and failure | scheduler, orchestration, admin API | enqueueing by key without a unique index, domain limits read before the claim, an admin's cancel during a job, a reaper racing a slow worker | at most the allowed jobs per retailer; one open job per key; dead letters after the last attempt; a disabled connector stays disabled |
| **Crawl orchestration and connectors** (`api/ingestion/orchestration.py`, `contracts.py`, `connectors/`) | rows of one job's transaction | discover, fetch, parse, match, validate, append | quality pipeline, production history | partial failure of a batch: `run_crawl_job` catches errors without a savepoint, so what a failed batch has flushed is committed with the failed run | the outcome reported is the one written |
| **Production price history** (`api/ingestion/price_history.py`, `manual_entry.py`, `licensed_catalog.py`) | production `price_observation` rows | append, close the previous row, correct | orchestration, admin | several writers without a lane lock | one open row per place; history only appended to |
| **Ingestion quality pipeline** (`api/ingestion/normalization.py`, `validation.py`, `anomaly.py`, `coverage.py`, `health.py`, `capture.py`) | none, or one row per batch | normalise, validate, flag, measure | orchestration | thresholds and boundaries | verdicts agree with the thresholds documented |
| **Polite HTTP fetcher** (`api/ingestion/http_fetcher.py`) | per-domain semaphores, last request, breaker | fetch with retries, open and half-open the breaker | connectors | threads sharing dictionaries, half-open probes | no request while open; delay respected |
| **Provider promotion and activation** (`api/services/provider_promotion.py`, `api/ingestion/providers/activation.py`, `mapping_review.py`, `provider_shadow.py`) | provider activation, mappings | approve, promote, revoke, review | syncs | gates checked before the write | no production row of an unapproved provider |
| **Deterministic plan engine** (`engine/`) | none | schedule, cost, package, use the pantry, optimise, validate | worker | packaging and rounding boundaries, budget search | basket covers the needs at least cost among the options; the same input gives the same plan |
| **Quotas and usage** (`api/services/quota.py`, `usage.py`) | usage rows | check, count, record | routers, worker | count before insert | limits hold under concurrent requests |
| **Households, invitations, accounts** (`api/routers/households.py`, `invitations.py`, `auth.py`, `api/services/account_deletion.py`) | memberships, tokens, accounts | invite, accept, revoke, leave, delete | every router | tokens used twice, last owner leaving | a token is used once; a household keeps an owner |
| **Imports and licensed catalogue** (`api/services/importer.py`, `commercial_feed_sync.py`, `open_prices_sync.py`, ...) | import batches, catalogue | dry run, commit | price history | file parsing | a dry run changes nothing |
| **Pricing read side** (`api/services/basket_resolver.py`, `price_resolution.py`, ...) | none | resolve, compare, cost | routers | arithmetic of Decimal, fallbacks | each price has a source |
| **Remediation tools and provenance** (`api/tools/`, `api/provenance/`, `api/models/remediation.py`) | sealed manifests, `history_remediation_run`, `_change`, `_plan_consumption` | plan a corrupt lane, authorise, apply, retry, restore | price history, without its locks | two operators, rows that change after they were compared, retries, lost answers of a commit, failures recorded in other transactions | a plan is applied once; a restore is exact or refused; the ledger is true |
| **Pantry, grocery list, catalogue routers** | their rows | one-statement reads and updates | front end | -- | -- |
| **Web front end** (`apps/web/src/lib/offline/`) | IndexedDB queue of ticks | tick off-line, replay | grocery router | replay order, lost answers | the last tick wins |
| **Geolocation, audit log, backups** | single rows | outside calls, inserts, deletes | -- | -- | -- |

`PROJECT.json` lists the same components with their status, and every hazard at
the line where it bites.

### How the modelled parts work

*Plan queue.* A request inserts a run and a job in one transaction. A worker
process polls: `claim_job` takes the first queued job that is due with
`FOR UPDATE SKIP LOCKED`, sets it in progress and commits; `process_job` then
does everything else in one transaction with a savepoint -- it computes a plan,
deletes the old meals and list (`_clear_previous`), inserts the new ones, and
sets the statuses of job, run and plan. A failure rolls the savepoint back, and
`_handle_failure` puts the job back with a backoff or fails it. When a worker
starts, and only then, `recover_abandoned_jobs` takes the in-progress jobs whose
heartbeat is older than the timeout. The heartbeat others see is the one of the
claim: later ones are in the open transaction.

*Price history.* A lane is the history of a product variant at a place: a chain
of half-open intervals, of which the last is open. `run_provider_sync` records a
whole feed in one transaction, `targeted_discovery` one product after another in
another; each fact takes the advisory lock of its lane
(`pg_advisory_xact_lock`, kept to the end of the transaction, five seconds of
waiting at most), checks the lane, looks for the same fact, and otherwise places
it: two facts at one instant contradict each other and both become empty
intervals that are a barrier; another fact is inserted between its neighbours.
`rollback_sync` marks the rows of a run as rolled back and reopens those it had
closed; it takes no advisory lock, and the SELECTs of a sync lock no rows, so a
rollback may commit between what a sync reads of a lane and what it writes there.

*Crawl queue.* The scheduler and the admin API insert a `crawl_run` with one
`crawl_job`, unless a job with the same key exists. A crawl worker counts the
retailers at their domain limit, claims a due job of another retailer with
`FOR UPDATE SKIP LOCKED` and commits. Then one transaction does the rest: the
first heartbeat locks the job row, the handler runs the connector and writes the
run, `complete_job` or `fail_job` writes the job, and both are committed. A failed
job is queued again with a backoff or becomes a dead letter. A worker that starts
recovers the locked jobs with an old heartbeat whose rows nobody holds. An admin
cancels or retries a run in a transaction that reads the run, reads its jobs and
then writes, waiting for row locks in between; a CLI retries as well. No request
locks what it reads or looks at it again before the UPDATE, and several are served
at once.

*Checklist.* The page ticks an item on the screen and in IndexedDB, and posts a
*toggle*: the API has no "set to", it reads `is_checked` and writes its negation.
A tap that could not be posted is queued in IndexedDB, and `flush` replays the
queue, first to last, when the device is online again; it stops at the first
failure. FastAPI closes the session of `get_db` after it has answered, so the
answer may reach the page before the commit.

*Remediation.* `dry_run` reads the lanes in a read-only snapshot and seals a
manifest: for each corrupt lane the rows with their hashes and occurrences, the
state it wants for each row (duplicates rolled back, intervals put end to end),
and the number of facts in the base. `execute_apply` takes a global advisory
lock, refuses a plan that is consumed, compares rows and occurrences with the
manifest, inserts a run, *then* locks the rows and writes them, compares the
counts, marks the plan as consumed and commits. `execute_restore` takes the same
lock, compares occurrences, locks the rows, compares them with what the apply
left, and puts back what was there before. A failure rolls back, releases the
lock, and is recorded by a transaction of its own.

*Plan engine.* `generate_plan` is a function of its input: it schedules one slot
per meal requested, keeps the recipes that no allergy, diet, missing equipment
or time limit excludes, seeds a plan slot by slot with the least score, and
improves it by swapping the recipe of one slot at a time until no swap helps. If
the plan is over the budget it does so again from the seed with the least cost;
if that is over the budget too, it reports the cheapest plan it came across. The
cost of a plan is what its shopping costs: ingredients are matched to products
(of their own name, or of another member of their substitution group), summed by
product, lessened by the pantry, and bought in whole packages.

## 2. Modules

| Module | What it is |
|---|---|
| `JobBoard` | abstract: what the plan queue promises those who post a job and poll its run |
| `PlanQueue` | the plan queue: API, clock, worker processes and their transactions |
| `PlanQueueProofs` | theorems about it, and that it implements `JobBoard` |
| `PriceTimeline` | abstract: what the price history promises its readers |
| `PriceLane` | the staging price history: runs, lane locks, drafts, rollbacks |
| `PriceLaneProofs` | theorems about it, and that it implements `PriceTimeline` |
| `MCPriceLane` | catalogues of facts and the symmetry set for TLC |
| `CrawlQueue` | the crawl queue: scheduler, workers, admin requests |
| `CrawlQueueProofs` | theorems about it |
| `GroceryChecklist` | the offline checklist: page, IndexedDB, requests, API |
| `GroceryChecklistProofs` | theorems about it |
| `ReversiblePlan` | abstract: what the remediation promises its auditors |
| `HistoryRemediation` | planner, apply, retry and restore over one lane, with syncs and rollbacks |
| `MCHistoryRemediation` | corrupt lanes for TLC |
| `HistoryRemediationProofs` | theorems about it, and that it implements `ReversiblePlan` |
| `RecipeFilter` | allergens, diets, equipment, substitution: which recipes fit a slot, which product stands for an ingredient |
| `Packaging` | whole packages and the choice of a format |
| `MealSchedule` | the slots of a plan |
| `PlanScore` | what a plan buys, costs and scores; extends `Packaging` and `RecipeFilter` |
| `PlanSearch` | the engine's searches, as steps; extends all of the engine's modules |
| `MCPlanSearch` | problems for TLC |
| `PlanSearchProofs` | theorems about the engine |

### PlanQueue and the code

| Model | Code |
|---|---|
| `job`, `run`, `plan`, `meals`, `list` | committed rows of `generation_job`, `optimization_run`, `meal_plan`, `planned_meal`, `grocery_list`; meals and list are named by the job that wrote them |
| `stale` | jobs with `heartbeat_at` older than the reaper's timeout |
| `worker[w]` | a process: its position in `_poll_once` / `process_job` and what its open transaction has read, deleted, locked |
| `Generate`, `Regenerate`, `RegenerateMeal` | `create_generation`, `regenerate_plan`, `build_regenerate_meal_payload` with `_enqueue_run` |
| `Start`, `Stop`, `Crash` | `run_worker` with `recover_abandoned_jobs`; SIGTERM between jobs; a killed process, or an error `_poll_once` re-raises |
| `Claim`, `Begin`, `FlushEarly` | `claim_job` and its commit; the loads of `process_job`; the flush in `record_openai_usage` |
| `SelectList`, `DeleteList`, `DeleteMeals`, `FlushRows` | the statements of `_clear_previous`, in order |
| `InsertPlan`, `CommitReady`, `CommitInfeasible` | `persist_plan_result`, `persist_infeasible`, `persist_preflight_infeasible` and the commit |
| `ExecuteRaises`, `HandleFailure` | an exception in `_execute`, `_handle_failure` |
| `WaitsFor`, `DeadlockVictim`, `RowLocked` | PostgreSQL's row locks, unique index and deadlock detector (external) |

`planSeen` is the one piece of ORM state: SQLAlchemy sends an UPDATE for a column
only if the new value differs from the value it loaded, and the session keeps
that value for the whole job (`SetPlan`).

### PriceLane and the code

| Model | Code |
|---|---|
| `rows`, `draft[r]` | committed `price_observation` rows; the versions an open transaction inserted or changed. `View(r)` is what its statements see |
| a row | fact (lane, instant, amount), inserting run, `valid_until` (`Open` is NULL), whether disputed, `closed_by_run_id`, whether rolled back |
| `tx[r]` | the transaction of a run: product in hand, lanes locked, products so far |
| `confirmed[r]` | the rows the run's occurrences refer to |
| `read[r]` | how far `record_price_fact` is with the product in hand, and the rows its last SELECT returned |
| `undo[o]` | what an operator's rollback in progress has read, to be cancelled and to be reopened |
| `Fetch`, `Preflight` or `Reject`, `Search`, `Reuse` or `Insert`, `WaitFails` | `record_price_fact` for the next product of the feed, SELECT by SELECT: the lane is locked and passes the preflight or not, the fact is searched for and, if it is not there, the lane read again; the fact is reused, or placed among the rows read and flushed; the lock is not obtained |
| `Flush`, `Saved` | the UPDATEs of SQLAlchemy: the columns that differ from what was loaded, over whatever has been committed since |
| `Conflict`, `Insertion`, `NextAnchor`, `Predecessor` | `_place_in_temporal_sequence` |
| `LaneSound` | `lane_invariants_hold` |
| `Commit`, `Crash` | the end of the job in `jobs/sync_price_provider.py` |
| `ReadCreated`, `ReadClosed`, `FinishRollback` | `rollback_sync`: its two SELECTs, then its UPDATEs and the commit. It takes no advisory lock, so each falls between any two steps of a sync |
| `ReadStaging`, `FinishRollback` | `rollback_staging_observations`, with and without `--only-orphan` |
| `Current` | `CurrentPriceService._latest_valid` for staging rows |

`PriceTimeline` says what a reader may rely on: the price at an instant is the one
fact of the latest instant observed up to it, and none if two facts of that
instant contradict each other. It knows nothing of intervals, drafts or locks.
`PriceLane` implements it (`ImplementsTimeline`) with the facts of the committed
rows for `facts` and `_latest_valid` for `current`.

### CrawlQueue and the code

| Model | Code |
|---|---|
| `job`, `run` | committed rows of `crawl_job`, `crawl_run`; a run has one job at most and names it |
| `stale` | jobs whose `heartbeat_at` is older than the timeout |
| `worker[w]` | a process in `CrawlWorker.run`: what it counted, the job it claimed and its attempts, the rows its transaction has locked |
| `admin[q]` | a request of `cancel_crawl`, `retry_crawl` or the CLI while it is open, and what it has read |
| `Schedule`, `CreateRun` | `schedule_daily` and its helpers, `enqueue_job`; whether a key or the circuit stops it is a choice |
| `Start`, `Stop`, `Crash`, `Stuck` | `run` with `recover_stuck_jobs`, a stop between jobs, a killed process |
| `CountInFlight`, `Claim`, `FindNothing` | `claim_job`: `_retailers_at_capacity`, then the SELECT ... SKIP LOCKED and its commit |
| `Begin`, `Complete`, `Fail` | `_handle_claimed` with `run_crawl_job`, `complete_job`, `fail_job` |
| `OpenCancel`, `OpenRetry`, `ReadJobs`, `CommitCancel`, `CommitRetry` | `cancel_crawl`, `retry_crawl`, `retry_failed.run`: the SELECT of the run, the SELECT of its jobs, the UPDATEs. Any number of requests are open at once |

### GroceryChecklist and the code

| Model | Code |
|---|---|
| `checked` | `grocery_list_item.is_checked` |
| `stored`, `queue` | the stores `itemState` and `syncQueue` of IndexedDB |
| `screen`, `page`, `online` | `effectiveChecked`, the page's life, `useOnlineStatus` |
| `tap[t]`, `flush` | how far a call of `toggle`, and the one run of `flush`, have come |
| `post[p]` | a request: the handler's side and the page's |
| `accident` | ghost: the items hit by an event after which flips cannot be right |
| `Touch`, `Sent`, `NotSent`, `Enqueue` | `toggle`, await by await |
| `FlushRead`, `FlushPost`, `Replayed`, `NotReplayed`, `FlushRemove` | `flush`, await by await |
| `ServeRead`, `ServeCommit`, `ServeFail` | `toggle_item` and the commit of `get_db` |

The actions name the accidents: two requests for an item read the same value
and one flip is lost; a request commits when its page is gone; an answer is lost,
late, or came before a commit that fails; a tap comes before the stored ticks are
shown; the page is closed between two writes to IndexedDB. `grocery-db.ts` claims
convergence without exceptions. An item that met an accident may stay wrong;
`Converges` says that nothing else leaves one wrong.

### HistoryRemediation and the code

| Model | Code |
|---|---|
| `rows` | committed rows of one lane: fact, temporal state (`valid_until`, disputed, rolled back), `updated_at` as a count (`stamp`), occurrences |
| `total` | `price_observation` and occurrence counts of the whole base, which `_count_snapshot` and the manifest's baseline take |
| a plan | the manifest: rows as read (`seen`), state wanted (`want`), whether its actions are supported; equal plans have equal hashes |
| `consumed`, `runs` | `history_remediation_plan_consumption`; `history_remediation_run` with its changes |
| `lock`, `op[o]` | the global advisory lock; an operator's call: how far it is, what it has locked and will write |
| `Sound`, `Expected`, `Excluded`, `PlanOf`, `Seal` | `lane_invariant_report`, `_plan_lane`, `_simulate`, `_seal`, `dry_run` |
| `StartApply`, `LockApply`, `Gates`, `Write`, `CommitApply` | `_validate_retry`; `_acquire` and the consumption gate; `_run_all_gates`; run insertion, row locks and writes; counts, consumption and commit |
| `DuplicateRun`, `CountsDiffer`, `ApplyFails`, `CommitApplyFails`, `CommitApplyUnanswered`, `RecordFailed` | the ways an apply ends otherwise, and `_record_failed_run` |
| `StartRestore` ... `CommitRestore`, `Drifts`, `Mark` | `_restore_guarded`, `_restore_evidence_gates`, `_validate_all_changes` with the writes; `_mark_manual_review` |
| `WriterReads`, `WriterConfirms`, `WriterInserts`, `WriteElsewhere` | `record_price_fact` in this lane or another |
| `RollbackStaging` | `rollback_staging_observations` |

`ReversiblePlan` knows states of rows and a ledger: a plan is applied once, its
entry holds exactly what it changed, and a restore puts that back if the rows
are as the plan left them. `HistoryRemediation` implements it with the runs that
were not failures for `ledger`.

### The engine's modules and the code

| Model | Code |
|---|---|
| a problem | `PlanInput`; recipes, slots and dates are numbered, so plan and menu are sequences |
| `AllergenValid`, `DietValid`, `Valid`, `Fitting` | `AllergenValidator`, `DietaryRestrictionValidator`, the two loops of `generate_plan` |
| `Match`, `Substitutes` | `ProductMatcher.match`, `_substitution_groups` |
| `CeilDiv`, `Purchase`, `Choose` | `decimal_ceil_div`, `compute_packages`, `PackageOptimizer.choose` |
| `PickDates`, `Schedule` | `_pick_dates`, `MealScheduler.schedule` |
| `Provision`, `Line`, `Coverage` | `Provisioner.provision`, `compute_coverage` |
| `Score`, `Greedy`, `Better` | `_score`, `_greedy`, the comparison in `_local_search` |
| `Begin`, `Keep`, `Improve`, `NextPass` | `_local_search`, slot by slot; the shuffle of `_ordered` is any order |
| `Accept`, `Reseed`, `GiveUp`, `Trivial` | the second half of `optimize`; the results of `generate_plan` |

Pure code is operators. The search is a state machine because its properties are
about what it looked at and when it stopped.

## 3. Properties and runs

| Run | Constants | Checks | Shows |
|---|---|---|---|
| `plan_single` | 1 worker, 1 plan, 3 jobs, 2 attempts, 1 crash | `MealsMatchList`, `ReadyPlanHasMeals`, `JobSettles`, `PlanSettles` under `RedeployedSpec` | with one worker the contents of a plan are those of one completed run; every job and plan settles although a process is killed |
| `plan_pair` | 2 workers, 1 plan, 3 jobs, 2 attempts, 1 crash | `TypeOK`, `OneProcessorPerJob`, `RunFollowsJob`, `GeneratingPlanHasWork`, `AttemptsBounded`, `ImplementsBoard` | what stays true with two workers that rewrite the same plan: to its users the queue is a board of jobs |
| `lane_writers` | a sync, two discoveries, two lanes, three instants, two products each | `TypeOK`, `LaneInvariants`, `NoDuplicateOccurrences`, `ImplementsTimeline`, `LanesReleased` | lanes are sound and tell the prices the facts tell, whatever the order, conflicts and failures |
| `lane_rollbacks` | two syncs, a discovery, two products each, three instants, one rollback of either kind | `NoDuplicateFacts`, `OnlyRollbacksBreak` | a rollback between any two statements of a sync never makes a fact active twice; a lane that everyone sees sound stays so but for a `rollback_sync` that reopens a row with a later one, and for a sync that places its fact among rows a rollback has changed since it read them |
| `crawl_queue` | 2 workers, 1 retailer with limit 1, 2 runs, 2 attempts, any 2 of crashes and admin requests | `TypeOK`, `InFlightBounded`, `AttemptsBounded`, `SharedOnlyByLateWrites`, `MisleadingOnlyByLateRetry`, `JobSettles` under `RedeployedSpec` | claims are exclusive, and run and job agree, but for the second of two retries that were open at once; the domain limit is exceeded by the other workers at most, attempts are bounded in spite of it, every job settles |
| `grocery_checklist` | 1 item, 2 taps, 2 requests at once, 1 closed page | `Converges`, `OneRequestPerTap`, `QueueDrains` under `ReconnectingSpec` | ticks converge on every item without an accident; queued taps are replayed |
| `plan_search` | 1,568 problems of 1 to 3 meals over 4 recipes, 8 catalogues, 4 households | `MinimumIsOverLimit`, `LocallyOptimal`, `WholePackages`, `CompleteIsExact`, `ExactlyRequested`, `OwnNamesAreSafe` | plans are local optima, baskets cover them in whole packages, "complete" means complete, slots are those requested, also when two requirements name one meal type, no product of an ingredient's own name carries a member's allergen |
| `remediation` | 2 operators, 2 plans, 3 calls, 3 corrupt lanes of up to 4 rows, two changes by a sync or a rollback | `TypeOK`, `ConsumedPlanIsStale`, `SupersededOnce`, `PlanRepairs`, `ImplementsLedger`, `LockReleased` under `LiveSpec` | plans are applied once and undone exactly or not at all, although rows change between their check and their lock, commits lose their answer and operators die; an applied plan leaves a sound lane unless what it keeps has changed; the lock is always released |

Four statements of the repository do not hold; each has a run that ends in a
counterexample:

| Run | Property | What happens |
|---|---|---|
| `plan_quick_restart` | `AbandonedJobRecovered` | a worker killed and restarted within the heartbeat timeout finds the heartbeat fresh and never looks again: the job hangs until a further restart |
| `plan_race` | `ReadyPlanHasMeals` | two workers, two jobs of one plan: an infeasible run deletes the meals of the other, and does not write `failed` since that is what it had loaded; the plan is `ready` and empty |
| `plan_meal_regeneration` | `MealRegenerationKeepsMeals` | an infeasible regeneration of one meal clears the whole plan |
| `lane_undo` | `LaneInvariants` | undoing the sync of a late observation opens its predecessor, though a later row is open; from then on the lane is refused |

Other disagreements met while modelling, without a run of their own:

* `_place_in_temporal_sequence` is said to run "under the lane lock, so the read +
  placement is atomic per lane" (`api/services/observation_persistence.py:385`).
  `rollback_sync` takes no lane lock. Let one run have recorded A and another B, which
  ended A: A = [1, 2), B = [2, open). A third reads both to place C at 3; the rollback
  of B's run is committed, which reopens A; the third run then ends B, which is rolled back,
  at 3 and inserts C: A and C are both open. `OnlyRollbacksBreak` names this step (an
  `Insert` that is `Overtaken`), and without that clause `lane_rollbacks` ends in
  a counterexample of this kind.
* `claim_job` is documented with "no two workers ever grab the same row"
  (`api/ingestion/queue.py`). Two retries of one dead letter that are open at once
  both read it; the first is committed, a worker claims the job, and the second
  puts it back in the queue for another worker, since neither `retry_crawl`
  (`api/routers/ingestion_admin.py:590`) nor `retry_failed.run` looks at the status again. If the
  worker had completed the job, the run is shown as completed with a queued job.
  `SharedOnlyByLateWrites` and `MisleadingOnlyByLateRetry` except that step
  (`LateRetry`) and, the first of them, a recovery before the first heartbeat.

* Allergens are judged before the search, by the products of the ingredients' own
  names (`engine/validators.py:128`). An ingredient without a product is bought as
  another member of its substitution group (`engine/matching.py:33`), which nobody
  judges: with `MCPlanSearch`'s catalogues a member allergic to soy is given tofu
  for egg. `docs/OPTIMIZATION.md:80` and `docs/RECIPES_GUIDE.md:123` say that
  cannot be. `OwnNamesAreSafe` is the part that holds.
* `_lane_lock_key` (`api/tools/apply_history_lane_remediation.py:2041`) hashes the
  lane's fingerprint once more than the writers do
  (`api/services/observation_identity.py:233`): the remediation's lane locks
  exclude no writer. A sync refuses a corrupt lane, so it seldom matters for syncs;
  but a staging rollback that commits between the gates and the row locks is
  overwritten: a row to be reconstructed is live again.
* Two retries of one failed run both pass `_validate_retry`. The second is told
  `ApplyAlreadyApplied` of a plan that may not be applied (`DuplicateRun`), or its
  failure leaves no record (`RecordFailed` when the run is superseded already).
* An apply checks its plan's rows in the gates and locks them later
  (`apply_history_lane_remediation.py:2206` and `2240`); rows the plan keeps are not
  written, so nothing notices what happens to them in between. A plan that keeps
  `[1, 2)` and extends `[2, 2)`: a rollback takes the second back, a sync finds the
  first alone and ends it at 3, and the apply then makes the second live
  from 2 on: two rows at one time. It takes two changes between two statements;
  `PlanRepairs` is stated for plans whose kept rows are as sealed (`KeptAsSealed`).
* A failure to commit is recorded without the run it retried
  (`apply_history_lane_remediation.py:2132`), and a late `_mark_manual_review`
  overwrites `restored`.

### Bounds, and why they are enough

* Two workers and two jobs of one plan are what every lock conflict of
  `_clear_previous` and the unique index needs; the third job lets a settled plan
  be regenerated while two runs overlap. Plans do not interact, so there is one.
  Two attempts tell a retry from the last attempt; one crash gives the reaper
  something to find, at any position of the process.
* A lane's placement distinguishes only a fact before, at and after an anchor, and
  a disputed anchor: three instants and a conflict at the middle one
  (`Barrier`) have all of them; two lanes are what a wait cycle needs; two
  products per feed let one transaction meet its own draft. Three runs give a
  third writer a sound or a contradicted lane to find. Discoveries differ from
  syncs in their provenance only, so two of them are in one run.
* `lane_rollbacks` has two syncs, which are interchangeable (symmetry), a discovery,
  three instants, a conflict and one rollback (`Undoing`), whose statements fall between any two of
  a sync's: a row is built upon, or reopened beneath a later one or under the hands of a
  sync, with two writers already. The theorem is for any number of each.
* `SlowJobs = FALSE` in every run: a job is faster than the reaper's timeout of
  ten minutes. See section 5.
* `CHECK_DEADLOCK FALSE` in the `PriceLane*.cfg` configurations: each run executes
  once, so the system really stops when all have ended. `PlanQueue` never stops
  (a worker can always be stopped and started) and deadlock is checked.
* `CrawlQueue`: two workers and two runs of one retailer with limit 1 make
  workers race for the count, the claim, the recovery and the row locks; a second
  retailer changes nothing but which jobs are counted. `MaxEvents` bounds crashes and
  admin requests together: two requests are what it takes for one to come late, and
  a crash and a request, or two crashes, meet in other behaviours. Two attempts are
  as for `PlanQueue`. `SlowStart = FALSE`: the first heartbeat follows the claim
  within five minutes (`crawl_worker.py:45`); the theorems `CrawlShared`, `CrawlMisleading` and
  `CrawlAttempts` do without it.
* `GroceryChecklist`: items do not interact but through the order of the queue;
  two taps give a tap, its opposite and two queued entries to replay, two
  requests are what a race needs, and one closed page falls at any moment. The
  safety properties were also checked once with two items and three taps.
* `PlanSearch`: each catalogue has one of the things that matter to a line: two
  formats, a format that is estimated, expired, out of stock or empty, a
  substitute, none. Households have an allergy spelled unlike the label, a serious
  one with an ingredient that is unassessed, a diet with an alias and an excluded
  ingredient. Budgets are below the cheapest plan, between it and the best one, and
  above. What a plan costs and who it is for do not meet in the code, so their
  values are not multiplied. Weights are the code's, doubled to be whole. The budget
  penalty is 200 because what two plans for the same slots differ in, waste,
  repetition, tastes, pantry and cost, is at most 192 in these problems, and a rejected
  dish stands above it. A pass limit of
  4 is reached by some searches and not by others. A call of `generate_plan` ends:
  `CHECK_DEADLOCK FALSE`.
* `HistoryRemediation`: two operators are what every race for the lock, the run
  index and the row locks needs; three calls are an apply that fails and its two
  retries, or an apply, its restore and another apply. Two plans are one before and
  one after a change. The lanes have a duplicate, an overlap beside a row to keep, a
  contradiction, and a lane whose plan fails its simulation; the fourth row is the
  sync's. Two changes at any moment: a rollback and a sync between two statements
  of one apply are what `PlanRepairs` needs its condition for. Calls are bounded: `CHECK_DEADLOCK FALSE`.
* Actions switched off by the bounds of one run (crashes, rollbacks) are taken in
  another.

### Fairness

`PlanQueue!Fairness` is weak: the platform restarts a dead process, a live one
continues, and time passes (backoff, heartbeat). Nothing obliges users to make
requests. `RedeployedSpec` adds strong fairness of `Stop` and `Claim`: the
service is redeployed again and again, which the start-up tasks of `run_worker`
rely on ("se reinicia con cada deploy"), and not so fast that an idle worker
never polls. Without the redeploys the reaper does not run again and
`JobSettles` is false: that is `plan_quick_restart`, which is checked under
the weak `LiveSpec`. `PriceLane!LiveSpec` has weak fairness of each run's own
steps: the feed is in memory before the transaction starts, and the wait for a
lock ends by itself (`WaitFails`): two syncs whose feeds name two products in
opposite orders do hold each other's lanes, and PostgreSQL ends one, which loses
its feed.

`CrawlQueue!RedeployedSpec` is the same for crawl workers: dead processes are
restarted, and live ones continue; processes are replaced again and again (a
worker recovers stuck jobs only when it starts), but not so fast that none ever
counts and claims. That some start comes later than the heartbeat timeout is
part of it: a worker that is restarted within five minutes and never again leaves its
job locked. Admin requests are under no fairness; one may stay open for ever. `GroceryChecklist!ReconnectingSpec`: awaits end (`client.ts`
gives up after 20 seconds), the device loses and finds the network again and
again, since only that, or opening the page, starts a replay, and of requests
repeated for ever one is served and answered in time. Nobody is obliged to tap or
to close the page. `HistoryRemediation!LiveSpec`: a call that was made goes on to
its next statement, each operator for itself; nobody is obliged to make one.

## 4. Proofs

The theorems are for every value of the constants. The assumptions are
those declared in the modules (`QueueAssumption`, `LaneAssumption`,
`CrawlAssumption`, `ChecklistAssumption`, `RemediationAssumption`: bounds are naturals, null values are not
members of the sets they extend; `CanonAssumption`: a catalogue's code is spelled
as it is; `WeightAssumption`, `ScoreAssumption`: weights are whole;
`SearchAssumption`: problems are well formed, that is quantities, prices and
identifiers are naturals, requirements name a meal type and a natural number of
meals, the range has a day, and the pantry knows every ingredient) and those written in a theorem's `ASSUME`.

**PlanQueueProofs.** `StepKinds` sorts the actions by what they do to the rows --
a job enqueued, a clock tick, a start with its reaping, a process leaving, a claim, a step inside a
transaction, a transaction ending -- and the theorems argue kind by kind.

* `TypeCorrect`: from `Sound`, types and the shape of a process (busy exactly
  when past the claim, with a job that exists and has a plan).
* `RunAlwaysFollowsJob`: the run tells what the job tells, on every path of
  success, failure and reaping.
* `GeneratingPlanAlwaysHasWork` from `WorkInv`: the plan has an open job that no
  process has in hand with another plan status loaded. The
  property alone is not inductive because of the UPDATE the ORM omits: the last
  job could end without writing a status it believes is there.
* `OneProcessorAlways`, `AttemptsAlwaysBounded`, `ASSUME SlowJobs = FALSE`, from `Exclusive`: a busy process's job is in
  progress, held by it alone, and not stale. Without the assumption a starting worker takes the job of
  a living one.
* `BoardImplemented`, under the same assumption: `PlanQueue` implements `JobBoard`, whose
  steps are a request, a claim, an end, a failure, a lost process and what the reaper
  takes back. A job is in the hands of the processes whose transaction names it
  (`InHandsOf`); every step inside a transaction, a deadlock and the clock are
  stutters. `Exclusive` says that whoever ends a job had it alone, and that what is
  taken back is in nobody's hands; `RunFollowsJob` that the run says "queued"
  until the last try. `CrawlQueue` does not implement it: a cancellation overwrites
  what a worker has settled.
* `MealsAlwaysMatchList` and `ReadyPlanAlwaysHasMeals`, for one worker, from
  `AloneInvariant`: the meals and the list of a plan are those of one completed run
  (`OneRun`), and what the worker's transaction has read of its plan is what is
  committed, but for what it wrote itself (`Snapshot`). The properties alone are not
  inductive: a transaction that had read another status would leave its own
  unwritten. With two workers both are false (`plan_race`).

**PriceLaneProofs.**

* `SoundInvariant`: `Sound` is types, the discipline of the locks (`Locks`) and what
  sync and rollback know from their last SELECT (`Knows`, `Loads`). Two open
  transactions hold no lane in common, a draft stays within the lanes its
  transaction holds, and a row has one version in each set. While a run holds the
  lane, the fact it did not find stays absent, since rollbacks never make a row
  active again; what a rollback has loaded is still there, with nothing rolled back
  that is not rolled back now. `Sound` is inductive with rollbacks between any two
  statements, and the other invariants rest on it.
* `FactsNeverDuplicated` from `Unduplicated`: no view has a fact active twice.
  Committed rows alone are not inductive; the views of the open transactions are.
* `OccurrencesNeverDuplicated` from `Confirmations`: a transaction confirms rows of
  lanes it holds only, and two discoveries have confirmed no row in common.
* `LanesAlwaysSound`, `ASSUME MaxRollbacks = 0`, from `Chains`: what a run has read of a
  lane is what it still sees there (without rollbacks nobody else writes in a
  locked lane), and in every view, an
  undisputed row ends exactly at the next anchor of its lane, a row is
  disputed exactly if another fact shares its instant, and is then empty.
  `LaneSound`, the code's own check, allows gaps between the intervals; the chain,
  which has none, is what the next theorem needs.
* `TimelineImplemented`, under the same assumption: a chain answers as the
  facts do (`ChainTells`), and only a commit changes the committed rows
  (`CommitPublishes`); every other step is a stutter of `PriceTimeline`.
* `OnlyRollbacksBreakLanes`, for any number of runs, operators and rollbacks: a step
  from a state in which the table and the view of every run are sound, to one in which
  some is not, is either the UPDATEs of a `rollback_sync`, which reopen a row that is
  disputed or has a later row of its lane, committed or in a draft, that is not
  cancelled with it (`~NothingBuiltUpon`); or the flush of a sync that read an unsound
  lane, or whose lane has a row it has not read as it is now (`Overtaken`).
  The chains do not survive a rollback, so the invariant is
  `LaneSound` itself, of the table and of every view (`OrderlyViews`, the same with
  one clause per row). `InsertionOrderly` is its hard case: after a rollback a late
  observation may fall into a gap, and the row before it is then *extended* up to it.
  A row that was read and has been rolled back since is harmless, whatever the flush
  writes into it. `FinishOrderly` rests on two facts about rollbacks: the row locks keep the UPDATEs
  away from every row a draft has changed, and what they leave was there before,
  unchanged or open (`FinishLeaves`).
* `LanesSoundAmongRollbacks`, the invariant that follows: `LaneInvariants` in every
  behaviour in which rollbacks reopen nothing that was built upon and none overtakes a
  sync between its SELECT and its flush. A history with staging
  rollbacks only is one; so is one in which a run is undone that observed last in its
  lanes, while no sync of these lanes is under way.

Some assumption on each is necessary: `lane_undo` is the counterexample for the first,
the one of section 3 for the second.

**CrawlQueueProofs.**

* `CrawlTypeCorrect` from `Sound`, types and who may name which job.
* `CrawlShared`, for any number of workers and of requests open at once: a step from
  a state in which every job has one process at most, and is locked or cancelled under its
  hands (`Exclusive`), to one in which that is lost is a retry committed when its job is a dead
  letter no more (`LateRetry`), or a start that recovers a job between claim and
  first heartbeat (`EarlyRecovery`). Once the heartbeat is flushed the row lock
  keeps recovery away, since the heartbeat others see is old by then.
* `CrawlExclusive`, the invariant that follows: `ASSUME ~SlowStart`, and in behaviours
  without a late retry, no job is in two processes. Both hypotheses are needed.
* `CrawlAttempts` from `Counted`: the attempts a process works with are those of a claim,
  below the maximum. It needs no hypothesis: two processes that share a job count
  the same attempt twice, and a retry in between only lowers the count.
* `CrawlMisleading` from `Outcomes` (only runs with a connector are ever completed or
  failed): only a `LateRetry` parts the run the console shows from its job, even when
  two processes share the job. `CrawlRunFollowsJob` is the invariant that follows.
* `CrawlInFlight`, for a finite set of workers: jobs in flight and workers that are
  about to claim on an old count are counted together.

**GroceryChecklistProofs.**

* `ChecklistTypeCorrect`, `ChecklistOneRequest` from `Sound`: a tap is at one
  place only, in a call of `toggle`, in the queue, or in the hands of `flush`.
* `ChecklistConverges` from `Agreement`, that is `Sound`, `Answers` and `Parity`:
  for an item without an accident, the device and the API agree exactly if the number of
  taps still owed to the API is even. The argument is a count of a finite set that
  each step changes by one or leaves alone, together with the tick.

**HistoryRemediationProofs.** For any number of operators, rows, instants and
plans and any lanes at the start. `Invariant` is the conjunction of

* `LockHeld`: only the holder of the global lock is past it, so at most one
  operation has rows locked;
* `Drafts`: an operation about to commit has read the states that the rows it
  locked still have, since no other action may touch a locked row, and what it
  writes is what its plan or its run says;
* `RunsOK`, `PlansOK`, `ConsumedOK`: a run that did not fail has its plan
  consumed, no two of them have the same plan, and of what was consumed a row
  to change has a later `updated_at` than the plan saw. `updated_at` never goes
  back, even when a restore puts the old state back: that is why the planner
  cannot seal a used plan again (`ConsumedPlansAreStale`), and the property alone
  is not inductive since it speaks of the rows read now;
* `ReadersOK`: a sync has read rows that exist;
* `SupersededOnce` itself, with the row lock of the unique index as the reason.

`TypeCorrect`, `ConsumedPlansAreStale` and `RunsSupersededOnce` follow from it.
`AppliedPlansRepair` needs two facts more: a row never changes its price or
instant (`FactsStay`), and a sealed plan was sealed over the facts that its rows
still tell (`FactsSealed`). Then what an apply leaves of the planned rows is the
plan's own simulation, with some kept rows rolled back, and fewer live rows cannot
break a sound lane (`SoundWithoutSome`).
`LedgerImplemented`: initial states map to initial states, a commit of an apply or a
restore to `Apply` or `Restore`, everything else to `Change` or a stutter.

**PlanSearchProofs.**

* `PurchaseIsExact`: for all quantities, bought and at home less what is left over
  is what is needed, and what is left over is less than a package.
* `CandidatesAreSafe`: for every problem and all tables of spellings, the recipes a
  search may use have no ingredient whose own product carries an allergen of a
  member, nor an unassessed one if an allergy is serious.
* `PlanIsLocallyOptimal` from `SearchInv`: as long as no swap was accepted in this
  pass, no swap improves the slots already looked at.

* `SlotsAreExactlyRequested`: for every list of requirements, the slots of a plan
  are those requested. Nothing forbids two requirements for one meal type (two
  dinners under 30 minutes and three without a limit), so the property counts
  each type over all its requirements, and claims an even spread only for a type
  one requirement names. The sort is stated as what makes it stable: a slot goes to
  the place numbered by the slots before it, by key and then by position. That order
  is strict and total (`EarlierIsOrder`), so the places are a permutation
  (`PlacesAreOrder`, from `RanksAreOrder`) and no count changes (`SortMoves`). The
  slots that the index formula `i * n // count` puts on one day are those between
  two quotients rounded up (`SpreadDay`), hence the days differ by one at most
  (`SpreadIsEven`).

**FoldTheorems.** The library's induction takes a predicate as a parameter, which
the provers cannot instantiate. Here induction is over sets: a set of naturals with
0 and its members' successors is all of them (`NaturalSetInduction`, from the
least element), and a set of subsets of a finite set with every subset whose
proper subsets are in it is all of them (`SubsetInduction`, from a minimal one). A
goal is stated as membership in a set comprehension. From these: the recursive
function behind a fold over a finite set exists and is unique, sums may be taken in
any order, apart, by key (`SumByKey`) or along an injection (`SumOfImage`), a
flattened sequence of sequences is a sequence and has of each element as many as its
parts together (`FlattenCounts`), and the elements of a finite set in a strict total
order have each of the ranks 0, 1, ... once (`RanksAreOrder`).

**PlanShoppingProofs.** The plan engine for every well-formed problem.

* Helpers, from the packages up. Keys compared from the left have a least one if
  each component has (`LeastKey`), so `PackageOptimizer.choose` does choose a usable
  package (`ChooseIsUsable`) and `_greedy` a recipe of the slot
  (`ExtendServes`); without it a `CHOOSE` could be anything. A line's figures
  fit together (`LineIsSound`), a line is named for an ingredient of the plan
  (`ProvisionIsSound`), the score is a number (`MetricIsInteger`).
* `HandedOutMealsAreSafe` from `PlanInv`: the plans of both searches take
  every slot's recipe from those let through for it.
* `PackagesAreWhole`, `CompleteCoverageIsExact`, `OwnNamedPurchasesAreSafe` from
  `PlanInv` at any moment of the search. That merged lines lose no demand is
  `NothingIsLost`: lines have different keys, so that their set has as many as there
  are keys, and each sums its own part of the demand.
* `RefusedMinimumIsOutscored` from `TrackInv`: the plan of the search under way
  scores no more than the cheapest plan tried, or else the first search ended with one
  over the limit that scores no more than it. So a request is refused with a
  minimum within its limit only if a plan over the limit scored no worse, in spite of
  the penalty; the order of the swaps, the breaks and the second search lose no plan.
  That the penalty outweighs the rest cannot be assumed: the code says so of its
  `_BUDGET_PENALTY` of 1,000,000 per currency unit and does nothing to ensure it. By
  cents that is 10,000 a cent, while a plan of 42 slots with one recipe for all of
  them has a repetition term of 12 times 861 = 10,332.

Only model-checked: the liveness properties (`JobSettles`, `PlanSettles`,
`LanesReleased`, `QueueDrains`, `LockReleased`), which are out of the prover's
reach, as is `ENABLED`; and `MinimumIsOverLimit`, which is true of the problems of
`plan_search` and not of all: the theorem above says exactly when it fails. Every other
invariant and every action property of the passing runs is a theorem. Some are
under a hypothesis, which the theorem's `ASSUME` states and the run's constants meet:
no slow job, a single worker, a finite set of workers, no rollback
(`LanesSoundAmongRollbacks` is the same without it: what it asks of each step
instead holds of some behaviours of `lane_rollbacks` and not of others).

## 5. What the models leave out

* Plan queue: job priority (the API always leaves it 0), `locked_by`, quota
  checks, the worker's price refresh, the contents of reports. `generating_candidates`, `validating` and `optimizing`
  are never committed, so no other process sees them. `_handle_failure`
  refreshes and rewrites the job row in one step. Which recipes a meal
  regeneration keeps is an input of the engine; only the set of meals it was based
  on is kept (`basis`).
* Slow jobs: with `SlowJobs = TRUE` two processes may run one job, because the
  heartbeat is renewed only inside the open transaction. The timeout is forty heartbeat periods and at
  least ten minutes; the runs assume that jobs keep within it. With three attempts a
  failure that comes late then puts a job back in the queue that another process has settled:
  nothing in `_handle_failure` looks at the status. `recover_abandoned_jobs` says so much of
  itself, that it is for a single replica.
* Price history: the lock of a lane and its preflight are one step, and so are the search for the
  fact and the SELECT for its placement, which follow each other: no fact can come into
  the locked lane between the two. The occurrence lock is taken while the lane's lock
  is held and is never contended, so it is not a step. `MultipleActiveExactFacts` cannot
  be raised (`FactsNeverDuplicated`). The row locks of `_upsert_variant`,
  taken before the lane's lock, order runs as the lanes do and are not
  modelled. The UPDATEs of a rollback and its commit are one step, which waits until no draft has
  one of its rows; a sync that would wait for the row of a rollback comes after it.
  The rows of `price_conflict`, which are written and not read here, are not kept.
* Crawl queue: `connector_state` and the calendar, which decide whether a run is
  created, and idempotency keys, for the same reason: creating is a choice. Run
  counters, job priorities and metrics. The rows that `run_crawl_job` flushes; it
  catches errors without a savepoint, so those of a failed batch are committed
  with the failed run and written again by the retry.
* Checklist: one device with one tab, and a list that is not regenerated
  meanwhile. If it is, an entry of the queue whose item is gone is answered 404
  and stops every replay at the head of the queue.
* Remediation: one lane; other lanes are `WriteElsewhere`. The gates of
  environment, provenance, authorisation, age and backup, the write guard and the
  evidence hashes are one choice of failure (`ApplyFails`, `RestoreFails`).
  `valid_from` is the instant of the fact. A plan that disputes rows may not be
  applied in this version (`_actions_supported`), so that the anomalies it would
  create are never there. Rows reviewed by a human and unknown foreign keys, which
  exclude a lane, are left out. One sync at a time (the writers' own lane lock,
  modelled in `PriceLane`), whose writes and commit are one step; the first counts
  are taken with the row locks, the second with the commit. A process that
  dies in a commit is `Crash` after it or before it.
* Plan engine: a date selected twice in one requirement (`selected` is a set), units and conversions, nutrition, explanations, imputable and
  marginal costs, what the result says of each meal. Words are split and lower-cased
  already; the tables of `validators.py` are constants. Soft preferences,
  favourites and time are one number per recipe. Quantities are whole: in the code
  the scale of a recipe is a quotient rounded at 28 digits, and 5 servings of a
  recipe for 3 with 300 g come to 500.0000000000000000000000001 g, six packages
  of 100 g (`Decimal` evaluated as in `provisioning.py:95` and `packaging.py:24`).
* Two things the engine's properties do not say. A merged line takes its pantry
  stock from the first ingredient's name only, so what is at home under the name
  of the others is bought again. And `MinimumIsOverLimit` excepts plans with a
  rejected dish, and would have to except those whose soft terms outweigh the penalty
  (`RefusedMinimumIsOutscored`). The weight of a rejected dish, 1e9,
  exceeds the penalty of an overrun of less than
  1,000, so that a plan within the budget may be passed over and reported as
  infeasible with `min_budget_found` below the limit, against the comment in
  `optimizer.py:303-310`.
* The other components of section 1, for the reasons in `PROJECT.json`. Much of
  the code is data or talks to files and outside services (`seed/data.py`, the
  ingredient dictionary, importers, provider adapters), or is a query over rows with
  no state of its own. Modelled are the parts with
  interleavings, failures, or an algorithm.

## 6. Plan

In order; each step is a module with its proofs.

1. `PlanQueue`, `PlanQueueProofs` -- done.
2. `PriceTimeline`, `PriceLane`, `PriceLaneProofs` -- done.
3. `CrawlQueue`, `CrawlQueueProofs` -- done, without the connector's circuit.
4. `RecipeFilter`, `Packaging`, `MealSchedule`, `PlanScore`, `PlanSearch`,
   `PlanSearchProofs`, `FoldTheorems`, `PlanShoppingProofs` -- done.
5. `GroceryChecklist`, `GroceryChecklistProofs` -- done.
6. `ReversiblePlan`, `HistoryRemediation`, `HistoryRemediationProofs` -- done, for
   one lane.
7. `JobBoard`, implemented by `PlanQueue` -- done.
8. `ProductionHistory`: the production branch of a sync, manual entries and
   corrections, without the lane lock, against the same `PriceTimeline`.
9. `Quota` and `Invitations`: check-then-insert under concurrent requests (the quota
   counts runs in one statement and the run is committed by a later one, dated by the
   start of its transaction); composed with `PlanQueue` it needs a run of its own;
   `HttpFetcher`'s breaker and `connector_state`.
10. `Provisioner` over rounded decimals, with conversions between units.
11. `LanesSoundAmongRollbacks`, `OnlyRollbacksBreakLanes`: lanes under rollbacks that
    commit between the statements of the syncs -- done.
