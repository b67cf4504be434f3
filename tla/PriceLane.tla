----------------------------- MODULE PriceLane -----------------------------
(***************************************************************************)
(* The staging price history: provider syncs and discoveries record price  *)
(* facts into history lanes (record_price_fact), and an operator undoes a  *)
(* sync (rollback_sync, rollback_staging_observations).                    *)
(*                                                                         *)
(* A lane is one chain of half-open validity intervals of a product        *)
(* variant at a place.  A sync is one PostgreSQL transaction at READ       *)
(* COMMITTED that records many facts; each takes the advisory lock of its  *)
(* lane, which is kept until the transaction ends.  The rows a transaction *)
(* inserted or changed are its draft: it sees them, the others see the     *)
(* committed rows only.  Each SELECT sees what is committed when it runs,  *)
(* and an UPDATE writes only the columns that differ from what was read.   *)
(* The rollbacks take no advisory lock, only the row locks of their        *)
(* UPDATEs, so they commit between what a sync reads and what it writes.   *)
(*                                                                         *)
(* A row is named by its fact and the run that inserted it.  valid_until   *)
(* NULL is the instant Open, later than all others.                        *)
(***************************************************************************)
EXTENDS Naturals, FiniteSets, FiniteSetsExt

CONSTANTS
    Run,           \* transactions that record prices; each runs once
    Discovery,     \* those of targeted_discovery: their rows name no crawl run
    Operator,      \* those who roll back, one rollback at a time each
    NoRun,         \* crawl_run_id, closed_by_run_id NULL
    Lane,
    Amount,
    NInstants,     \* bound: instants of observation
    Catalogue,     \* the facts the providers may report
    NoFact,        \* no product in hand
    MaxProducts,   \* bound: products in one feed
    MaxRollbacks   \* bound: rollbacks

Instant == 1 .. NInstants
Open == NInstants + 1
Fact == [lane : Lane, at : Instant, amount : Amount]

ASSUME LaneAssumption ==
    /\ NInstants \in Nat
    /\ MaxProducts \in Nat
    /\ MaxRollbacks \in Nat
    /\ Discovery \subseteq Run
    /\ NoRun \notin Run
    /\ Catalogue \subseteq Fact
    /\ NoFact \notin Fact

VARIABLES
    rows,       \* committed price_observation rows
    tx,         \* each run's transaction
    draft,      \* its uncommitted versions of rows
    read,       \* what it has read of the product in hand
    confirmed,  \* the rows its price_observation_occurrence rows refer to
    undo,       \* each operator's rollback: the rows it read
    rollbacks   \* rollbacks so far

vars == <<rows, tx, draft, read, confirmed, undo, rollbacks>>

RowId == [fact : Fact, by : Run]

Row ==
    [fact : Fact, by : Run, until : 1 .. Open, disputed : BOOLEAN,
     closedBy : Run \cup {NoRun}, rolled : BOOLEAN]

Transaction ==
    [pc : {"ready", "open", "committed", "aborted"},
     next : Fact \cup {NoFact}, held : SUBSET Lane, count : 0 .. MaxProducts]

(* "checked": the lane is locked and passed the preflight; "found": rows   *)
(* holds the fact to reuse; "placing": the lane, to place the fact in.     *)
Reading == [step : {"nothing", "checked", "found", "placing"}, rows : SUBSET Row]

Unread == [step |-> "nothing", rows |-> {}]

(* created: the rows to cancel; closed: the rows to reopen.                *)
Rollback ==
    [pc : {"idle", "selecting", "changing"}, run : Run \cup {NoRun},
     created : SUBSET Row, closed : SUBSET Row]

NoUndo == [pc |-> "idle", run |-> NoRun, created |-> {}, closed |-> {}]

TypeOK ==
    /\ rows \in SUBSET Row
    /\ tx \in [Run -> Transaction]
    /\ draft \in [Run -> SUBSET Row]
    /\ read \in [Run -> Reading]
    /\ confirmed \in [Run -> SUBSET RowId]
    /\ undo \in [Operator -> Rollback]
    /\ rollbacks \in 0 .. MaxRollbacks

Init ==
    /\ rows = {}
    /\ tx = [r \in Run |->
               [pc |-> "ready", next |-> NoFact, held |-> {}, count |-> 0]]
    /\ draft = [r \in Run |-> {}]
    /\ read = [r \in Run |-> Unread]
    /\ confirmed = [r \in Run |-> {}]
    /\ undo = [o \in Operator |-> NoUndo]
    /\ rollbacks = 0

-----------------------------------------------------------------------------
(* Rows.                                                                   *)

SameRow(x, y) == x.fact = y.fact /\ x.by = y.by

(* The rows of S with the versions of D in place of the old ones.          *)
Over(S, D) == {x \in S : \A y \in D : ~SameRow(x, y)} \cup D

(* An UPDATE of the committed row c by an object loaded as x and now y.    *)
Saved(c, x, y) ==
    [c EXCEPT !.until    = IF y.until = x.until THEN @ ELSE y.until,
              !.disputed = IF y.disputed = x.disputed THEN @ ELSE y.disputed,
              !.closedBy = IF y.closedBy = x.closedBy THEN @ ELSE y.closedBy,
              !.rolled   = IF y.rolled = x.rolled THEN @ ELSE y.rolled]

(* The flush of the objects D, of which those of L were loaded: the new    *)
(* rows and the changed versions of rows of S.  A row still as loaded is   *)
(* not updated.                                                            *)
Flush(S, L, D) ==
    {y \in D : \A x \in L : ~SameRow(x, y)}
    \cup {Saved(p[1], p[2], p[3]) :
             p \in {p \in S \X L \X D : /\ SameRow(p[1], p[2])
                                        /\ SameRow(p[2], p[3])
                                        /\ p[2] # p[3]}}

(* What the statements of run r see.                                       *)
View(r) == Over(rows, draft[r])

(* _lane_rows: rows not rolled back, disputed ones included.               *)
LaneRows(S, l) == {x \in S : x.fact.lane = l /\ ~x.rolled}

(* lane_invariants_hold, of the rows of one lane.                          *)
LaneSound(L) ==
    LET active == {x \in L : ~x.disputed}
        disputed == {x \in L : x.disputed}
    IN /\ \A x, y \in active :
            /\ x.until = Open /\ y.until = Open => x = y
            /\ x.fact.at = y.fact.at => x = y
            /\ x.fact.at < y.fact.at => x.until <= y.fact.at
       /\ \A x \in active : x.fact.at < x.until
       /\ \A x \in disputed : x.until = x.fact.at
       /\ \A x \in active, d \in disputed :
            ~(x.fact.at < d.fact.at /\ d.fact.at < x.until)

(* _latest_valid for staging: the undisputed rows whose validity contains  *)
(* the instant, open ones first, then the latest observed.                 *)
Current(S, l, s) ==
    LET valid == {x \in LaneRows(S, l) :
                    ~x.disputed /\ x.fact.at <= s /\ s < x.until}
    IN {x.fact.amount : x \in {x \in valid : \A y \in valid :
            \/ x.until = Open /\ y.until # Open
            \/ /\ x.until = Open \/ y.until # Open
               /\ y.fact.at <= x.fact.at}}

CrawlRun(r) == IF r \in Discovery THEN NoRun ELSE r

-----------------------------------------------------------------------------
(* record_price_fact, under the lock of the lane.                          *)

(* _find_existing_fact: the active rows of exactly this fact.              *)
Matches(S, f) == {x \in S : x.fact = f /\ ~x.rolled}

NewRow(r, f, until, disputed) ==
    [fact |-> f, by |-> r, until |-> until, disputed |-> disputed,
     closedBy |-> NoRun, rolled |-> FALSE]

(* _place_in_temporal_sequence, another fact at the same instant: both are *)
(* disputed, with an empty interval.                                       *)
Conflict(r, f, L) ==
    {[x EXCEPT !.disputed = TRUE, !.until = x.fact.at] :
        x \in {x \in L : x.fact.at = f.at /\ ~x.disputed}}
    \cup {NewRow(r, f, f.at, TRUE)}

NextAnchorActive(L, t) ==          \* fault: a disputed row is no barrier
    Min({x.fact.at : x \in {x \in L : x.fact.at > t /\ ~x.disputed}} \cup {Open})

NextAnchorLate(L, t) ==            \* fault: an interval that includes its end
    Min({x.fact.at : x \in {x \in L : x.fact.at > t}} \cup {Open}) + 1

NextAnchor(L, t) == Min({x.fact.at : x \in {x \in L : x.fact.at > t}} \cup {Open})

(* The row at the previous anchor, unless that anchor is disputed.         *)
Predecessor(L, t) ==
    {x \in L : /\ x.fact.at < t /\ ~x.disputed
               /\ \A y \in L : y.fact.at < t => y.fact.at <= x.fact.at}

(* ... otherwise the fact ends at the next anchor and its predecessor at   *)
(* the fact.                                                               *)
Insertion(r, f, L) ==
    {[x EXCEPT !.until = f.at, !.closedBy = CrawlRun(r)] :
        x \in Predecessor(L, f.at)}
    \cup {NewRow(r, f, NextAnchor(L, f.at), FALSE)}

Placed(r, f, L) ==
    IF \E x \in L : x.fact.at = f.at THEN Conflict(r, f, L) ELSE Insertion(r, f, L)

(* _find_existing_occurrence: discoveries have the same provenance, so one *)
(* reuses the occurrence another one committed.                            *)
ConfirmUnchecked(r, id) ==         \* fault: no search for the occurrence
    confirmed' = [confirmed EXCEPT ![r] = @ \cup {id}]

Confirm(r, id) ==
    confirmed' =
        IF /\ r \in Discovery
           /\ \E d \in Discovery : tx[d].pc = "committed" /\ id \in confirmed[d]
        THEN confirmed
        ELSE [confirmed EXCEPT ![r] = @ \cup {id}]

(* pg_advisory_xact_lock would wait.                                       *)
LockHolders(r) == {s \in Run \ {r} : tx[r].next.lane \in tx[s].held}

LockedPerFact(r) ==                \* fault: the lock is the fact's, not the lane's
    \A s \in Run \ {r} : \A x \in draft[s] : x.by = s => x.fact # tx[r].next

LockFree(r) == LockHolders(r) = {}

(* r holds a product and its reading of it has come to this step.          *)
At(r, step) ==
    /\ tx[r].pc = "open"
    /\ tx[r].next # NoFact
    /\ read[r].step = step

Lock(r) == [tx[r] EXCEPT !.held = @ \cup {tx[r].next.lane}]

(* The transaction goes on to its next product, the lane still locked.     *)
Recorded(r) ==
    /\ tx' = [tx EXCEPT ![r] = [Lock(r) EXCEPT !.next = NoFact]]
    /\ read' = [read EXCEPT ![r] = Unread]

(* The process ends with an exception, or dies: the transaction is undone  *)
(* and its advisory locks are released.                                    *)
AbortKeepingLocks(r) ==            \* fault: pg_advisory_lock on a pooled session
    /\ tx' = [tx EXCEPT ![r] = [tx[r] EXCEPT !.pc = "aborted", !.next = NoFact]]
    /\ draft' = [draft EXCEPT ![r] = {}]
    /\ read' = [read EXCEPT ![r] = Unread]
    /\ confirmed' = [confirmed EXCEPT ![r] = {}]

Abort(r) ==
    /\ tx' = [tx EXCEPT ![r] = [tx[r] EXCEPT !.pc = "aborted", !.next = NoFact,
                                             !.held = {}]]
    /\ draft' = [draft EXCEPT ![r] = {}]
    /\ read' = [read EXCEPT ![r] = Unread]
    /\ confirmed' = [confirmed EXCEPT ![r] = {}]

-----------------------------------------------------------------------------
(* The steps of a run.                                                     *)

(* The next product of the feed.                                           *)
Fetch(r) ==
    /\ tx[r].pc \in {"ready", "open"}
    /\ tx[r].next = NoFact
    /\ tx[r].count < MaxProducts
    /\ \E f \in Catalogue :
        tx' = [tx EXCEPT ![r] = [tx[r] EXCEPT !.pc = "open", !.next = f,
                                              !.count = @ + 1]]
    /\ UNCHANGED <<rows, draft, read, confirmed, undo, rollbacks>>

(* PreexistingHistoryLaneAnomaly: a sync skips the product, a discovery    *)
(* does not catch it.                                                      *)
Reject(r) ==
    /\ At(r, "nothing")
    /\ LockFree(r)
    /\ ~LaneSound(LaneRows(View(r), tx[r].next.lane))
    /\ IF r \in Discovery
       THEN Abort(r)
       ELSE Recorded(r) /\ UNCHANGED <<draft, confirmed>>
    /\ UNCHANGED <<rows, undo, rollbacks>>

(* The lane is locked and has passed _preexisting_lane_anomaly.            *)
Preflight(r) ==
    /\ At(r, "nothing")
    /\ LockFree(r)
    /\ LaneSound(LaneRows(View(r), tx[r].next.lane))
    /\ tx' = [tx EXCEPT ![r] = Lock(r)]
    /\ read' = [read EXCEPT ![r].step = "checked"]
    /\ UNCHANGED <<rows, draft, confirmed, undo, rollbacks>>

SearchNothing(r) ==                \* fault: no search for the existing fact
    /\ At(r, "checked")
    /\ read' = [read EXCEPT ![r] =
         [step |-> "placing", rows |-> LaneRows(View(r), tx[r].next.lane)]]
    /\ UNCHANGED <<rows, tx, draft, confirmed, undo, rollbacks>>

(* The fact is there, or the lane is read again to place it: no fact comes *)
(* into a locked lane between these two SELECTs.  (Two matches would raise *)
(* MultipleActiveExactFacts; NoDuplicateFacts says it cannot be.)          *)
Search(r) ==
    /\ At(r, "checked")
    /\ LET same == Matches(View(r), tx[r].next)
       IN \/ /\ \E x \in same : same = {x}
             /\ read' = [read EXCEPT ![r] = [step |-> "found", rows |-> same]]
          \/ /\ same = {}
             /\ read' = [read EXCEPT ![r] =
                  [step |-> "placing",
                   rows |-> LaneRows(View(r), tx[r].next.lane)]]
    /\ UNCHANGED <<rows, tx, draft, confirmed, undo, rollbacks>>

(* A new occurrence of the fact that was found, at most.                   *)
Reuse(r) ==
    /\ At(r, "found")
    /\ \E x \in read[r].rows : Confirm(r, [fact |-> x.fact, by |-> x.by])
    /\ Recorded(r)
    /\ UNCHANGED <<rows, draft, undo, rollbacks>>

(* The fact is placed among the rows that were read, and flushed.          *)
Insert(r) ==
    /\ At(r, "placing")
    /\ LET f == tx[r].next
           L == read[r].rows
       IN /\ draft' = [draft EXCEPT
                ![r] = Over(@, Flush(View(r), L, Placed(r, f, L)))]
          /\ Confirm(r, [fact |-> f, by |-> r])
    /\ Recorded(r)
    /\ UNCHANGED <<rows, undo, rollbacks>>

(* The wait for the lock ends with an error, after five seconds or when    *)
(* PostgreSQL finds a deadlock; nobody catches it.                         *)
WaitFails(r) ==
    /\ At(r, "nothing")
    /\ ~LockFree(r)
    /\ Abort(r)
    /\ UNCHANGED <<rows, undo, rollbacks>>

Crash(r) ==
    /\ tx[r].pc = "open"
    /\ Abort(r)
    /\ UNCHANGED <<rows, undo, rollbacks>>

Commit(r) ==
    /\ tx[r].pc = "open"
    /\ tx[r].next = NoFact
    /\ rows' = View(r)
    /\ draft' = [draft EXCEPT ![r] = {}]
    /\ tx' = [tx EXCEPT ![r] = [tx[r] EXCEPT !.pc = "committed", !.held = {}]]
    /\ UNCHANGED <<read, confirmed, undo, rollbacks>>

-----------------------------------------------------------------------------
(* Rollbacks.                                                              *)

(* Some transaction holds the row lock of a row of S.                      *)
RowsLocked(S) == \E r \in Run : \E x \in draft[r], y \in S : SameRow(x, y)

(* rollback_sync reads the rows the run created, to cancel those that are  *)
(* not rolled back (with --force all), and stops if there are rows but     *)
(* none to cancel.                                                         *)
ReadCreated(o, r, force) ==
    /\ undo[o] = NoUndo
    /\ rollbacks < MaxRollbacks
    /\ r \notin Discovery
    /\ tx[r].pc = "committed"
    /\ LET created == {x \in rows : x.by = r}
           cancel == {x \in created : force \/ ~x.rolled}
       IN /\ created # {} => cancel # {}
          /\ undo' = [undo EXCEPT ![o] =
               [pc |-> "selecting", run |-> r, created |-> cancel, closed |-> {}]]
    /\ rollbacks' = rollbacks + 1
    /\ UNCHANGED <<rows, tx, draft, read, confirmed>>

(* It reads the rows the run closed; a row it has loaded before stays the  *)
(* object it was.                                                          *)
ReadClosed(o) ==
    /\ undo[o].pc = "selecting"
    /\ LET loaded == undo[o].created
           closed == {x \in rows : x.closedBy = undo[o].run}
       IN undo' = [undo EXCEPT ![o] =
            [@ EXCEPT !.pc = "changing",
                      !.closed = {x \in closed : \A y \in loaded : ~SameRow(x, y)}
                         \cup {y \in loaded : \E x \in closed : SameRow(x, y)}]]
    /\ UNCHANGED <<rows, tx, draft, read, confirmed, rollbacks>>

(* rollback_staging_observations reads every active row, or only those     *)
(* without a crawl run.  It reopens nothing.                               *)
ReadStaging(o, orphans) ==
    /\ undo[o] = NoUndo
    /\ rollbacks < MaxRollbacks
    /\ LET matched == {x \in rows : ~x.rolled /\ (orphans => x.by \in Discovery)}
       IN /\ matched # {}
          /\ undo' = [undo EXCEPT ![o] = [@ EXCEPT !.pc = "changing",
                                                  !.created = matched]]
    /\ rollbacks' = rollbacks + 1
    /\ UNCHANGED <<rows, tx, draft, read, confirmed>>

UndoneIfOpen(o, x) ==              \* fault: only the open rows are rolled back
    LET reopened == x \in undo[o].closed
        cancelled == x \in undo[o].created /\ x.until = Open
    IN [x EXCEPT !.closedBy = IF reopened THEN NoRun ELSE @,
                 !.rolled = @ \/ cancelled,
                 !.until = CASE cancelled -> x.fact.at
                             [] reopened /\ ~cancelled -> Open
                             [] OTHER -> @]

(* A row the run closed is open again, a row to cancel is rolled back and, *)
(* if open, closed.                                                        *)
Undone(o, x) ==
    LET reopened == x \in undo[o].closed
        cancelled == x \in undo[o].created
    IN [x EXCEPT !.closedBy = IF reopened THEN NoRun ELSE @,
                 !.rolled = @ \/ cancelled,
                 !.until = CASE cancelled /\ (reopened \/ @ = Open) -> x.fact.at
                             [] reopened /\ ~cancelled -> Open
                             [] OTHER -> @]

Loaded(o) == undo[o].created \cup undo[o].closed

(* The flush waits for the row locks and is committed.                     *)
FinishRollback(o) ==
    /\ undo[o].pc = "changing"
    /\ ~RowsLocked(Loaded(o))
    /\ rows' = Over(rows, Flush(rows, Loaded(o), {Undone(o, x) : x \in Loaded(o)}))
    /\ undo' = [undo EXCEPT ![o] = NoUndo]
    /\ UNCHANGED <<tx, draft, read, confirmed, rollbacks>>

-----------------------------------------------------------------------------
(* What a run does on its own until it ends.                               *)
Work(r) ==
    \/ Fetch(r)
    \/ Reject(r)
    \/ Preflight(r)
    \/ Search(r)
    \/ Reuse(r)
    \/ Insert(r)
    \/ WaitFails(r)
    \/ Commit(r)

RollBack(o) ==
    \/ \E r \in Run, force \in BOOLEAN : ReadCreated(o, r, force)
    \/ ReadClosed(o)
    \/ \E orphans \in BOOLEAN : ReadStaging(o, orphans)
    \/ FinishRollback(o)

Next ==
    \/ \E r \in Run : Work(r) \/ Crash(r)
    \/ \E o \in Operator : RollBack(o)

Spec == Init /\ [][Next]_vars

(* A process that has started keeps going: the feed was downloaded before. *)
LiveSpec == Spec /\ \A r \in Run : WF_vars(Work(r))

-----------------------------------------------------------------------------
(* Properties.                                                             *)

(* The invariants of price_history_lane.py: at most one open row, no       *)
(* overlap, no interval across a conflict; whatever the order of arrival,  *)
(* the interleaving of syncs, aborts and retries.                          *)
LaneInvariants == \A l \in Lane : LaneSound(LaneRows(rows, l))

(* "the search-then-insert can never race into a duplicate"                *)
(* (record_price_fact): no fact is active twice, even when rollbacks run   *)
(* among the syncs.  With it MultipleActiveExactFacts is never raised.     *)
NoDuplicateFacts ==
    \A x, y \in rows : x.fact = y.fact /\ ~x.rolled /\ ~y.rolled => x = y

(* Everyone, a transaction in the middle of its work included, sees sound  *)
(* lanes.                                                                  *)
AllSeeSoundLanes ==
    \A l \in Lane : /\ LaneSound(LaneRows(rows, l))
                   /\ \A r \in Run : LaneSound(LaneRows(View(r), l))

Cancels(o, x) == \E s \in undo[o].created : SameRow(x, s)
Reopens(o, x) == ~Cancels(o, x) /\ \E s \in undo[o].closed : SameRow(x, s)

(* No row to reopen is disputed, or has a later row in its lane, committed *)
(* or not, that stays.                                                     *)
NothingBuiltUpon(o) ==
    \A x \in rows : ~x.rolled /\ Reopens(o, x) =>
        /\ ~x.disputed
        /\ \A y \in rows \cup UNION {draft[r] : r \in Run} :
            /\ y.fact.lane = x.fact.lane /\ ~y.rolled
            /\ y.fact.at > x.fact.at
                => Cancels(o, y)

(* What r has read of the lane is not what there is any more: a rollback   *)
(* had broken the lane by then, or has changed a row of it since.          *)
Overtaken(r) ==
    \/ ~LaneSound(read[r].rows)
    \/ ~(LaneRows(View(r), tx[r].next.lane) \subseteq read[r].rows)

(* The chain of a lane is lost in two ways only: rollback_sync, "restoring *)
(* the previous current-price projection", reopens a row after which       *)
(* another run has recorded; or it reopens one between the SELECT and the  *)
(* flush of a sync, which "under the lane lock" places its fact among rows *)
(* that are not there any more.  No other step of a sync, no abort and no  *)
(* other rollback does harm, in whatever order they come.                  *)
OnlyRollbacksBreak ==
    [][~AllSeeSoundLanes' =>
          \/ ~AllSeeSoundLanes
          \/ \E o \in Operator : FinishRollback(o) /\ ~NothingBuiltUpon(o)
          \/ \E r \in Run : Insert(r) /\ Overtaken(r)]_vars

(* Discoveries carry the same provenance: they never both insert an        *)
(* occurrence of one fact.                                                 *)
NoDuplicateOccurrences ==
    \A d, e \in Discovery :
        d # e /\ tx[d].pc = "committed" /\ tx[e].pc = "committed"
            => confirmed[d] \cap confirmed[e] = {}

ActiveFacts == {x.fact : x \in {x \in rows : ~x.rolled}}

CurrentPrices ==
    [l \in Lane |-> [s \in Instant |-> Current(rows, l, s)]]

History == INSTANCE PriceTimeline WITH facts <- ActiveFacts, current <- CurrentPrices

(* The chain of intervals answers as the facts alone would ("independent   *)
(* of arrival order", docs/PRICE_OBSERVATION_CONCURRENCY.md).              *)
ImplementsTimeline == History!Spec

(* No transaction keeps its lanes from the others for ever: two syncs that *)
(* wait for each other's lane are told apart by PostgreSQL.                *)
LanesReleased ==
    \A r \in Run : tx[r].held # {} ~> tx[r].held = {}

=============================================================================
