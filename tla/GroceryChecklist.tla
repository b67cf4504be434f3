--------------------------- MODULE GroceryChecklist ---------------------------
(***************************************************************************)
(* The grocery checklist of one device: the page shows a tick per item,    *)
(* keeps it in IndexedDB (itemState), sends every tap to the API as a      *)
(* flip, and queues the taps it could not send (syncQueue) to replay them  *)
(* when the device is online again.                                        *)
(*                                                                         *)
(* The API has no "set to": POST .../toggle reads is_checked and writes    *)
(* its negation, so a tap must be applied once, no less and no more.  A    *)
(* request is served by a SELECT, an UPDATE and a commit, and FastAPI      *)
(* (0.118 and later) closes the session of get_db after the response is    *)
(* sent: the answer may reach the page before the commit.                  *)
(*                                                                         *)
(* The page is single-threaded; what interleaves are its awaits, the       *)
(* requests and the API.  There is one device with one tab, and the list   *)
(* is not regenerated meanwhile.                                           *)
(***************************************************************************)
EXTENDS Naturals, Sequences, FiniteSets, SequencesExt

CONSTANTS
    Item,
    NTaps,      \* bound: taps ever made
    NPosts,     \* bound: requests under way at once
    MaxCloses   \* bound: times the page is closed

Tap == 1 .. NTaps
Post == 1 .. NPosts
NoTap == 0
NoPost == 0

ASSUME ChecklistAssumption ==
    /\ NTaps \in Nat
    /\ NPosts \in Nat \ {0}
    /\ MaxCloses \in Nat

VARIABLES
    checked,   \* grocery_list_item.is_checked, committed
    stored,    \* itemState of IndexedDB; the server's value where there is no row
    queue,     \* syncQueue of IndexedDB: taps to replay
    page,      \* the page: closed, opened, hydrated
    screen,    \* effectiveChecked: overrides over the fetched list
    tap,       \* each call of toggle: item and how far it has come
    flush,     \* the one run of flush (syncingRef)
    post,      \* requests: the handler's progress and the page's
    online,    \* useOnlineStatus
    closes,    \* times the page was closed
    accident   \* ghost: items hit by an event that flips cannot survive

vars == <<checked, stored, queue, page, screen, tap, flush, post, online,
          closes, accident>>

(* A call of toggle awaits its own request (posting) or enqueueToggle      *)
(* (queueing), or has returned with the tap queued, or is settled: sent or *)
(* replayed; it is gone when the page is closed before.                    *)
Stage == {"unused", "posting", "queueing", "queued", "settled", "gone"}
TapRow == [stage : Stage, item : Item]

(* reading: getQueuedToggles; next: the loop over the entries read;        *)
(* posting: awaiting a request; removing: awaiting removeQueuedToggle.     *)
FlushRow == [pc : {"idle", "reading", "next", "posting", "removing"},
             rest : Seq(Tap), post : Post \cup {NoPost}]

(* pc: the handler has not started, has read is_checked (val), has         *)
(* committed, or has failed.  client: the page awaits the answer, has got  *)
(* it, or is gone: it gave up or was closed.                               *)
PostRow == [pc : {"free", "sent", "read", "committed", "failed"},
            client : {"waiting", "answered", "gone"},
            tap : Tap \cup {NoTap}, val : BOOLEAN]

TypeOK ==
    /\ checked \in [Item -> BOOLEAN]
    /\ stored \in [Item -> BOOLEAN]
    /\ queue \in Seq(Tap)
    /\ page \in {"closed", "opened", "hydrated"}
    /\ screen \in [Item -> BOOLEAN]
    /\ tap \in [Tap -> TapRow]
    /\ flush \in FlushRow
    /\ post \in [Post -> PostRow]
    /\ online \in BOOLEAN
    /\ closes \in 0 .. MaxCloses
    /\ accident \subseteq Item

NoFlush == [pc |-> "idle", rest |-> <<>>, post |-> NoPost]
FreePost == [pc |-> "free", client |-> "gone", tap |-> NoTap, val |-> FALSE]
Nothing == [i \in Item |-> FALSE]

Init ==
    /\ checked = Nothing
    /\ stored = Nothing
    /\ queue = <<>>
    /\ page = "closed"
    /\ screen = Nothing
    /\ tap \in {[t \in Tap |-> [stage |-> "unused", item |-> i]] : i \in Item}
    /\ flush = NoFlush
    /\ post = [p \in Post |-> FreePost]
    /\ online \in BOOLEAN
    /\ closes = 0
    /\ accident = {}

-----------------------------------------------------------------------------
(* Requests.                                                               *)

ItemOf(p) == tap[post[p].tap].item

(* A slot is free again when both sides are through with the request.      *)
Put(p, row) ==
    post' = [post EXCEPT ![p] =
        IF row.pc \in {"committed", "failed"} /\ row.client # "waiting"
        THEN FreePost ELSE row]

Send(t, p) ==
    /\ post[p].pc = "free" /\ \A q \in Post : q < p => post[q].pc # "free"
    /\ Put(p, [pc |-> "sent", client |-> "waiting", tap |-> t, val |-> FALSE])

(* toggle_item: the SELECT.                                                *)
ServeRead(p) ==
    /\ post[p].pc = "sent"
    /\ Put(p, [post[p] EXCEPT !.pc = "read", !.val = checked[ItemOf(p)]])
    /\ UNCHANGED <<checked, stored, queue, page, screen, tap, flush, online,
                   closes, accident>>

(* The UPDATE and the commit.  Accidents: another request has flipped the  *)
(* item since the SELECT and its flip is overwritten; or the page is gone  *)
(* and will send the tap again, or never know.                             *)
ServeCommit(p) ==
    /\ post[p].pc = "read"
    /\ checked' = [checked EXCEPT ![ItemOf(p)] = ~post[p].val]
    /\ Put(p, [post[p] EXCEPT !.pc = "committed"])
    /\ accident' = IF checked[ItemOf(p)] # post[p].val \/ post[p].client = "gone"
                   THEN accident \cup {ItemOf(p)} ELSE accident
    /\ UNCHANGED <<stored, queue, page, screen, tap, flush, online, closes>>

(* The request never arrives, is refused, or is rolled back.  Accident:    *)
(* the page has been told that it succeeded.                               *)
ServeFail(p) ==
    /\ post[p].pc \in {"sent", "read"}
    /\ Put(p, [post[p] EXCEPT !.pc = "failed"])
    /\ accident' = IF post[p].client = "answered"
                   THEN accident \cup {ItemOf(p)} ELSE accident
    /\ UNCHANGED <<checked, stored, queue, page, screen, tap, flush, online,
                   closes>>

-----------------------------------------------------------------------------
(* toggle.                                                                 *)

TouchServer(i) == ~checked[i]  \* fault: flips what the server has, not what is shown

Shown(i) == ~screen[i]

Unused(t) == tap[t].stage = "unused" /\ \A k \in Tap : k < t => tap[k].stage # "unused"

(* Up to the first await after setItemState.  isOnline is that of the last *)
(* rendering.  Accident: the tap comes before the stored ticks are shown;  *)
(* the page does not look at isHydrated.                                   *)
Touch(i) ==
    /\ page # "closed"
    /\ screen' = [screen EXCEPT ![i] = Shown(i)]
    /\ stored' = [stored EXCEPT ![i] = Shown(i)]
    /\ \E t \in Tap :
        /\ Unused(t)
        /\ \/ /\ online
              /\ tap' = [tap EXCEPT ![t] = [stage |-> "posting", item |-> i]]
              /\ \E p \in Post : Send(t, p)
           \/ /\ ~online
              /\ tap' = [tap EXCEPT ![t] = [stage |-> "queueing", item |-> i]]
              /\ UNCHANGED post
    /\ accident' = IF page # "hydrated" THEN accident \cup {i} ELSE accident
    /\ UNCHANGED <<checked, queue, page, flush, online, closes>>

(* The request of a tap, as opposed to one of the flush.                   *)
OfTap(p) ==
    /\ post[p].client = "waiting"
    /\ ~(flush.pc = "posting" /\ flush.post = p)

Sent(p) ==
    /\ OfTap(p)
    /\ post[p].pc \in {"read", "committed"}
    /\ Put(p, [post[p] EXCEPT !.client = "answered"])
    /\ tap' = [tap EXCEPT ![post[p].tap].stage = "settled"]
    /\ UNCHANGED <<checked, stored, queue, page, screen, flush, online, closes,
                   accident>>

(* An error, or 20 seconds without an answer.  Accident: the flip is done. *)
NotSent(p) ==
    /\ OfTap(p)
    /\ Put(p, [post[p] EXCEPT !.client = "gone"])
    /\ tap' = [tap EXCEPT ![post[p].tap].stage = "queueing"]
    /\ accident' = IF post[p].pc = "committed"
                   THEN accident \cup {ItemOf(p)} ELSE accident
    /\ UNCHANGED <<checked, stored, queue, page, screen, flush, online, closes>>

(* enqueueToggle.                                                          *)
Enqueue(t) ==
    /\ tap[t].stage = "queueing"
    /\ tap' = [tap EXCEPT ![t].stage = "queued"]
    /\ queue' = Append(queue, t)
    /\ UNCHANGED <<checked, stored, page, screen, flush, post, online, closes,
                   accident>>

-----------------------------------------------------------------------------
(* flush.                                                                  *)

StartAnyway == [NoFlush EXCEPT !.pc = "reading"]       \* fault: syncingRef not asked

NeverStarted == flush                                  \* fault: no effect on isOnline

Started == IF flush.pc = "idle" THEN [NoFlush EXCEPT !.pc = "reading"] ELSE flush

Loop(rest) == IF rest = <<>> THEN NoFlush ELSE [NoFlush EXCEPT !.pc = "next", !.rest = rest]

FlushRead ==
    /\ flush.pc = "reading"
    /\ flush' = Loop(queue)
    /\ UNCHANGED <<checked, stored, queue, page, screen, tap, post, online,
                   closes, accident>>

FlushPost ==
    /\ flush.pc = "next"
    /\ \E p \in Post :
        /\ Send(Head(flush.rest), p)
        /\ flush' = [flush EXCEPT !.pc = "posting", !.post = p]
    /\ UNCHANGED <<checked, stored, queue, page, screen, tap, online, closes,
                   accident>>

Replayed(p) ==
    /\ flush.pc = "posting"
    /\ flush.post = p
    /\ post[p].pc \in {"read", "committed"}
    /\ Put(p, [post[p] EXCEPT !.client = "answered"])
    /\ flush' = [flush EXCEPT !.pc = "removing", !.post = NoPost]
    /\ UNCHANGED <<checked, stored, queue, page, screen, tap, online, closes,
                   accident>>

(* The loop is left; the entry stays for the next reconnection.            *)
NotReplayed(p) ==
    /\ flush.pc = "posting"
    /\ flush.post = p
    /\ Put(p, [post[p] EXCEPT !.client = "gone"])
    /\ flush' = NoFlush
    /\ accident' = IF post[p].pc = "committed"
                   THEN accident \cup {ItemOf(p)} ELSE accident
    /\ UNCHANGED <<checked, stored, queue, page, screen, tap, online, closes>>

(* removeQueuedToggle: the entry of a tap, by its key.                     *)
Without(q, t) ==
    IF \E k \in DOMAIN q : q[k] = t
    THEN RemoveAt(q, CHOOSE k \in DOMAIN q : q[k] = t) ELSE q

FlushRemove ==
    /\ flush.pc = "removing"
    /\ queue' = Without(queue, Head(flush.rest))
    /\ tap' = [tap EXCEPT ![Head(flush.rest)].stage = "settled"]
    /\ flush' = Loop(Tail(flush.rest))
    /\ UNCHANGED <<checked, stored, page, screen, post, online, closes,
                   accident>>

-----------------------------------------------------------------------------
(* The device.                                                             *)

GoOffline ==
    /\ online
    /\ online' = FALSE
    /\ UNCHANGED <<checked, stored, queue, page, screen, tap, flush, post,
                   closes, accident>>

GoOnline ==
    /\ ~online
    /\ online' = TRUE
    /\ flush' = IF page # "closed" THEN Started ELSE flush
    /\ UNCHANGED <<checked, stored, queue, page, screen, tap, post, closes,
                   accident>>

(* The page is mounted: the fetched list is shown.                         *)
Open ==
    /\ page = "closed"
    /\ page' = "opened"
    /\ screen' = checked
    /\ flush' = IF online THEN Started ELSE flush
    /\ UNCHANGED <<checked, stored, queue, tap, post, online, closes, accident>>

(* getAllItemStates and setOverrides.                                      *)
Hydrate ==
    /\ page = "opened"
    /\ page' = "hydrated"
    /\ screen' = stored
    /\ UNCHANGED <<checked, stored, queue, tap, flush, post, online, closes, accident>>

(* The items of taps that are neither in the queue nor settled, and of a   *)
(* queued tap that has been replayed.                                      *)
Exposed ==
    {tap[t].item : t \in {k \in Tap : tap[k].stage \in {"posting", "queueing"}}}
        \cup (IF flush.pc = "removing" THEN {tap[Head(flush.rest)].item} ELSE {})
        \cup (IF flush.pc = "posting" /\ post[flush.post].pc = "committed"
              THEN {ItemOf(flush.post)} ELSE {})

(* The tab is closed or killed, whatever it awaits.                        *)
Close ==
    /\ page # "closed"
    /\ closes < MaxCloses
    /\ closes' = closes + 1
    /\ page' = "closed"
    /\ screen' = Nothing
    /\ tap' = [t \in Tap |-> IF tap[t].stage \in {"posting", "queueing"}
                             THEN [tap[t] EXCEPT !.stage = "gone"] ELSE tap[t]]
    /\ flush' = NoFlush
    /\ post' = [p \in Post |->
                    IF post[p].client # "waiting" THEN post[p]
                    ELSE IF post[p].pc \in {"committed", "failed"} THEN FreePost
                    ELSE [post[p] EXCEPT !.client = "gone"]]
    /\ accident' = accident \cup Exposed
    /\ UNCHANGED <<checked, stored, queue, online>>

-----------------------------------------------------------------------------
Serve(p) == ServeRead(p) \/ ServeCommit(p) \/ ServeFail(p)

Toggle ==
    \/ \E i \in Item : Touch(i)
    \/ \E p \in Post : Sent(p) \/ NotSent(p)
    \/ \E t \in Tap : Enqueue(t)

Flush ==
    \/ FlushRead \/ FlushPost \/ FlushRemove
    \/ \E p \in Post : Replayed(p) \/ NotReplayed(p)

Device == GoOffline \/ GoOnline \/ Open \/ Hydrate \/ Close

Next ==
    \/ \E p \in Post : Serve(p)
    \/ Toggle
    \/ Flush
    \/ Device

Spec == Init /\ [][Next]_vars

(* The page's awaits end, the device loses and finds the network again and *)
(* again, and of requests sent again and again one is served and answered  *)
(* in time.                                                                *)
ServeInTime(p) == ServeRead(p) /\ post[p].client = "waiting"

Fairness ==
    /\ WF_vars(GoOffline) /\ WF_vars(GoOnline) /\ WF_vars(Open)
    /\ WF_vars(FlushRead \/ FlushPost \/ FlushRemove)
    /\ \A t \in Tap : WF_vars(Enqueue(t))
    /\ \A p \in Post :
        /\ WF_vars(NotSent(p) \/ NotReplayed(p)) /\ WF_vars(Serve(p))
        /\ SF_vars(Replayed(p)) /\ SF_vars(ServeInTime(p))

ReconnectingSpec == Spec /\ Fairness

-----------------------------------------------------------------------------
(* Properties.                                                             *)

Quiet ==
    /\ queue = <<>>
    /\ \A t \in Tap : tap[t].stage \notin {"posting", "queueing", "queued"}
    /\ \A p \in Post : post[p].pc = "free"

(* "Replaying N flips in the original order always converges on the        *)
(* correct final state" (lib/offline/grocery-db.ts): when nothing is under *)
(* way, the API has the tick that the device keeps, for every item that    *)
(* met with none of the accidents named in the actions.  Failed requests,  *)
(* reconnections during a flush, taps during a replay and closed pages do  *)
(* no harm by themselves.                                                  *)
Converges == Quiet => \A i \in Item \ accident : stored[i] = checked[i]

(* A flip that is sent twice is undone: flush, which any reconnection may  *)
(* start, and the calls of toggle never await two requests for one tap.    *)
OneRequestPerTap ==
    \A p, q \in Post :
        /\ post[p].client = "waiting"
        /\ post[q].client = "waiting"
        /\ post[p].tap = post[q].tap
        => p = q

(* "stop, retry on next reconnect" (use-grocery-checklist.ts): taps made   *)
(* without network are all replayed, if the device reconnects often enough.*)
QueueDrains == queue # <<>> ~> queue = <<>>

=============================================================================
