------------------------- MODULE GroceryChecklistProofs -------------------------
(***************************************************************************)
(* What the checklist promises for every set of items and every number of  *)
(* taps, requests and closed pages.                                        *)
(***************************************************************************)
EXTENDS GroceryChecklist, FiniteSetTheorems, TLAPS

-----------------------------------------------------------------------------
(* Queues of taps.                                                         *)

Distinct(q) == \A j, k \in 1 .. Len(q) : q[j] = q[k] => j = k

LEMMA AppendNew ==
  ASSUME NEW q \in Seq(Tap), Distinct(q), NEW t \in Tap,
         \A k \in 1 .. Len(q) : q[k] # t
  PROVE  /\ Append(q, t) \in Seq(Tap)
         /\ Distinct(Append(q, t))
         /\ \A k \in 1 .. Len(Append(q, t)) :
               Append(q, t)[k] = t \/ \E j \in 1 .. Len(q) : Append(q, t)[k] = q[j]
  BY DEF Distinct

LEMMA TailKeeps ==
  ASSUME NEW q \in Seq(Tap), Distinct(q), q # <<>>
  PROVE  /\ Head(q) \in Tap /\ Tail(q) \in Seq(Tap)
         /\ Distinct(Tail(q))
         /\ \A k \in 1 .. Len(Tail(q)) :
               Tail(q)[k] # Head(q) /\ \E j \in 1 .. Len(q) : Tail(q)[k] = q[j]
  BY DEF Distinct

LEMMA HeadIn ==
  ASSUME NEW q \in Seq(Tap), q # <<>>
  PROVE  1 \in 1 .. Len(q) /\ Head(q) = q[1] /\ Head(q) \in Tap
  OBVIOUS

LEMMA RemoveAtKeeps ==
  ASSUME NEW q \in Seq(Tap), Distinct(q), NEW i \in 1 .. Len(q)
  PROVE  /\ RemoveAt(q, i) \in Seq(Tap)
         /\ Distinct(RemoveAt(q, i))
         /\ \A k \in 1 .. Len(RemoveAt(q, i)) :
               /\ RemoveAt(q, i)[k] # q[i]
               /\ \E j \in 1 .. Len(q) : RemoveAt(q, i)[k] = q[j]
<1> DEFINE r == RemoveAt(q, i)
           from(k) == IF k < i THEN k ELSE k + 1
<1>1. /\ r \in Seq(Tap) /\ Len(r) = Len(q) - 1
      /\ \A k \in 1 .. Len(r) : r[k] = q[from(k)]
  <2> DEFINE a == SubSeq(q, 1, i - 1)
             b == SubSeq(q, i + 1, Len(q))
  <2>1. /\ a \in Seq(Tap) /\ Len(a) = i - 1
        /\ \A k \in 1 .. i - 1 : a[k] = q[k]
    OBVIOUS
  <2>2. /\ b \in Seq(Tap) /\ Len(b) = Len(q) - i
        /\ \A k \in 1 .. Len(q) - i : b[k] = q[k + i]
    OBVIOUS
  <2>3. r = a \o b
    BY DEF RemoveAt
  <2> HIDE DEF a, b, r, from
  <2>4. r \in Seq(Tap) /\ Len(r) = Len(q) - 1
    BY <2>1, <2>2, <2>3
  <2>5. \A k \in 1 .. Len(r) :
           r[k] = IF k <= Len(a) THEN a[k] ELSE b[k - Len(a)]
    BY <2>1, <2>2, <2>3, <2>4
  <2>6. ASSUME NEW k \in 1 .. Len(r) PROVE r[k] = q[from(k)]
    <3>1. CASE k < i
      BY <2>1, <2>5, <3>1 DEF from
    <3>2. CASE k >= i
      <4> DEFINE m == k - (i - 1)
      <4>1. m \in 1 .. Len(q) - i /\ m + i = k + 1
        BY <2>4, <3>2
      <4>2. r[k] = b[m]
        BY <2>1, <2>4, <2>5, <3>2
      <4> HIDE DEF m
      <4>3. from(k) = m + i
        BY <2>4, <3>2, <4>1 DEF from
      <4> QED
        BY <2>2, <4>1, <4>2, <4>3
    <3> QED
      BY <3>1, <3>2
  <2> QED
    BY <2>4, <2>6
<1>2. \A k \in 1 .. Len(r) : from(k) \in 1 .. Len(q) /\ from(k) # i
  BY <1>1
<1>3. \A j, k \in 1 .. Len(r) : from(j) = from(k) => j = k
  OBVIOUS
<1> HIDE DEF r, from
<1> QED
  BY <1>1, <1>2, <1>3 DEF Distinct, r

LEMMA WithoutKeeps ==
  ASSUME NEW q \in Seq(Tap), Distinct(q), NEW t \in Tap
  PROVE  /\ Without(q, t) \in Seq(Tap)
         /\ Distinct(Without(q, t))
         /\ \A k \in 1 .. Len(Without(q, t)) :
               /\ Without(q, t)[k] # t
               /\ \E j \in 1 .. Len(q) : Without(q, t)[k] = q[j]
<1>1. CASE \E k \in DOMAIN q : q[k] = t
  <2> DEFINE i == CHOOSE k \in DOMAIN q : q[k] = t
  <2>1. i \in 1 .. Len(q) /\ q[i] = t
    BY <1>1
  <2>2. Without(q, t) = RemoveAt(q, i)
    BY <1>1 DEF Without
  <2> HIDE DEF i
  <2> QED
    BY <2>1, <2>2, RemoveAtKeeps
<1>2. CASE ~ \E k \in DOMAIN q : q[k] = t
  BY <1>2 DEF Without
<1> QED
  BY <1>1, <1>2

-----------------------------------------------------------------------------
(* Rows: what the updates of a request and of a tap leave as they were.    *)

LEMMA PcField ==
  ASSUME NEW r \in PostRow, NEW pc \in {"free", "sent", "read", "committed", "failed"}
  PROVE  /\ [r EXCEPT !.pc = pc] \in PostRow
         /\ [r EXCEPT !.pc = pc].pc = pc
         /\ [r EXCEPT !.pc = pc].client = r.client
         /\ [r EXCEPT !.pc = pc].tap = r.tap
  BY DEF PostRow

LEMMA ClientField ==
  ASSUME NEW r \in PostRow, NEW client \in {"waiting", "answered", "gone"}
  PROVE  /\ [r EXCEPT !.client = client] \in PostRow
         /\ [r EXCEPT !.client = client].pc = r.pc
         /\ [r EXCEPT !.client = client].client = client
         /\ [r EXCEPT !.client = client].tap = r.tap
  BY DEF PostRow

LEMMA ReadFields ==
  ASSUME NEW r \in PostRow, NEW val \in BOOLEAN
  PROVE  /\ [r EXCEPT !.pc = "read", !.val = val] \in PostRow
         /\ [r EXCEPT !.pc = "read", !.val = val].pc = "read"
         /\ [r EXCEPT !.pc = "read", !.val = val].client = r.client
         /\ [r EXCEPT !.pc = "read", !.val = val].tap = r.tap
  BY DEF PostRow

LEMMA PutEffect ==
  ASSUME post \in [Post -> PostRow], NEW p \in Post, NEW row \in PostRow, Put(p, row)
  PROVE  /\ post' \in [Post -> PostRow]
         /\ \A q \in Post : q # p => post'[q] = post[q]
         /\ IF row.pc \in {"committed", "failed"} /\ row.client # "waiting"
            THEN post'[p] = FreePost ELSE post'[p] = row
<1>1. FreePost \in PostRow
  BY DEF FreePost, PostRow
<1> DEFINE new == IF row.pc \in {"committed", "failed"} /\ row.client # "waiting"
                  THEN FreePost ELSE row
<1>2. new \in PostRow
  BY <1>1
<1>3. post' = [post EXCEPT ![p] = new]
  BY DEF Put
<1>4. post' \in [Post -> PostRow] /\ post'[p] = new
      /\ \A q \in Post : q # p => post'[q] = post[q]
  <2> HIDE DEF new
  <2> QED
    BY <1>2, <1>3
<1> QED
  BY <1>4

LEMMA SendEffect ==
  ASSUME post \in [Post -> PostRow], NEW t \in Tap, NEW p \in Post, Send(t, p)
  PROVE  /\ post' \in [Post -> PostRow]
         /\ post[p].pc = "free"
         /\ \A q \in Post : q # p => post'[q] = post[q]
         /\ post'[p].pc = "sent" /\ post'[p].client = "waiting" /\ post'[p].tap = t
<1> DEFINE row == [pc |-> "sent", client |-> "waiting", tap |-> t, val |-> FALSE]
<1>1. row \in PostRow /\ row.pc = "sent" /\ row.client = "waiting" /\ row.tap = t
  BY DEF PostRow
<1>2. Put(p, row) /\ post[p].pc = "free"
  BY DEF Send
<1> HIDE DEF row
<1> QED
  BY <1>1, <1>2, PutEffect

LEMMA StageEffect ==
  ASSUME tap \in [Tap -> TapRow], NEW t \in Tap, NEW stage \in Stage,
         tap' = [tap EXCEPT ![t].stage = stage]
  PROVE  /\ tap' \in [Tap -> TapRow]
         /\ tap'[t].stage = stage /\ tap'[t].item = tap[t].item
         /\ \A k \in Tap : k # t => tap'[k] = tap[k]
  BY DEF TapRow

-----------------------------------------------------------------------------
(* Each tap is in one place: a call of toggle has it, or the queue, and    *)
(* flush works on entries of the queue.                                    *)

OfFlush(p) == flush.pc = "posting" /\ flush.post = p

Queued(q) == Distinct(q) /\ \A k \in 1 .. Len(q) : tap[q[k]].stage = "queued"

Flushing ==
    /\ flush.pc \in {"next", "posting", "removing"} => flush.rest # <<>>
    /\ flush.pc = "posting" =>
          /\ flush.post \in Post
          /\ post[flush.post].client = "waiting"
          /\ post[flush.post].tap = Head(flush.rest)

Requests ==
    /\ \A p \in Post : post[p].pc = "free" => post[p] = FreePost
    /\ \A p \in Post : post[p].pc # "free" =>
          post[p].tap \in Tap /\ tap[post[p].tap].stage # "unused"
    /\ \A p \in Post : post[p].client = "waiting" /\ ~OfFlush(p) =>
          tap[post[p].tap].stage = "posting"

Sound ==
    /\ TypeOK
    /\ Queued(queue) /\ Queued(flush.rest)
    /\ Flushing
    /\ Requests
    /\ OneRequestPerTap

(* A waiting request is under way and for a tap.                           *)
LEMMA WaitingIsBusy ==
  ASSUME Sound, NEW p \in Post, post[p].client \in {"waiting", "answered"}
  PROVE  post[p].pc # "free" /\ post[p].tap \in Tap /\ post[p] \in PostRow
<1>1. post[p].pc # "free"
  BY DEF Sound, Requests, FreePost
<1> QED
  BY <1>1 DEF Sound, Requests, TypeOK

LEMMA FlushTypes ==
  ASSUME Sound
  PROVE  /\ flush \in FlushRow
         /\ flush.rest \in Seq(Tap)
         /\ flush.pc \in {"next", "posting", "removing"} =>
               /\ Head(flush.rest) \in Tap
               /\ tap[Head(flush.rest)].stage = "queued"
<1>1. flush \in FlushRow /\ flush.rest \in Seq(Tap)
  BY DEF Sound, TypeOK, FlushRow
<1> QED
  BY <1>1, HeadIn DEF Sound, Queued, Flushing

(* Queues are kept by a step that leaves them and their taps alone.        *)
LEMMA QueuedKept ==
  ASSUME NEW q \in Seq(Tap), Queued(q),
         \A t \in Tap : tap[t].stage = "queued" => tap'[t].stage = "queued"
  PROVE  Distinct(q) /\ \A k \in 1 .. Len(q) : tap'[q[k]].stage = "queued"
<1>1. \A k \in 1 .. Len(q) : q[k] \in Tap
  OBVIOUS
<1> QED
  BY <1>1 DEF Queued

(* The rest of Sound is kept by a step that sends nothing.                 *)
Less(q) ==
    \/ post'[q] = post[q]
    \/ post'[q] = FreePost
    \/ /\ post'[q].pc # "free" /\ post[q].pc # "free"
       /\ post'[q].tap = post[q].tap
       /\ post'[q].client = "waiting" => post[q].client = "waiting"

LEMMA RequestsKept ==
  ASSUME Sound, \A q \in Post : Less(q),
         \A t \in Tap : tap[t].stage # "unused" => tap'[t].stage # "unused",
         \A q \in Post : post'[q].client = "waiting" /\ ~OfFlush(q)' =>
             tap'[post[q].tap].stage = "posting"
  PROVE  Requests' /\ OneRequestPerTap'
<1>1. FreePost.client = "gone" /\ FreePost.pc = "free"
  BY DEF FreePost
<1>2. \A p \in Post : post'[p].pc = "free" => post'[p] = FreePost
  BY DEF Less, Sound, Requests
<1>3. \A p \in Post : post'[p].pc # "free" =>
          /\ post'[p].tap = post[p].tap /\ post[p].pc # "free"
          /\ post'[p].client = "waiting" => post[p].client = "waiting"
  BY <1>1 DEF Less
<1>4. \A p \in Post : post'[p].client = "waiting" =>
          post'[p].pc # "free"
  BY <1>1, <1>2
<1>5. \A p \in Post : post'[p].pc # "free" =>
          post'[p].tap \in Tap /\ tap'[post'[p].tap].stage # "unused"
  BY <1>3 DEF Sound, Requests
<1>6. \A p \in Post : post'[p].client = "waiting" /\ ~OfFlush(p)' =>
          tap'[post'[p].tap].stage = "posting"
  BY <1>3, <1>4
<1>7. OneRequestPerTap'
  BY <1>3, <1>4 DEF Sound, OneRequestPerTap
<1> QED
  BY <1>2, <1>5, <1>6, <1>7 DEF Requests

-----------------------------------------------------------------------------
(* What each action does to a request.                                     *)

LEMMA ReadEffect ==
  ASSUME Sound, NEW p \in Post, ServeRead(p)
  PROVE  /\ post' \in [Post -> PostRow] /\ \A q \in Post : q # p => post'[q] = post[q]
         /\ post[p].pc = "sent" /\ post'[p].pc = "read"
         /\ post'[p].client = post[p].client /\ post'[p].tap = post[p].tap
         /\ UNCHANGED <<checked, stored, queue, page, screen, tap, flush, online,
                        closes, accident>>
<1> DEFINE row == [post[p] EXCEPT !.pc = "read", !.val = checked[ItemOf(p)]]
<1>1. Put(p, row) /\ post[p].pc = "sent"
      /\ UNCHANGED <<checked, stored, queue, page, screen, tap, flush, online,
                     closes, accident>>
  BY DEF ServeRead
<1>2. post \in [Post -> PostRow] /\ post[p] \in PostRow /\ post[p].tap \in Tap
  BY <1>1 DEF Sound, TypeOK, Requests
<1>3. ItemOf(p) \in Item
  BY <1>2 DEF Sound, TypeOK, TapRow, ItemOf
<1>4. checked[ItemOf(p)] \in BOOLEAN
  BY <1>3 DEF Sound, TypeOK
<1>5. row \in PostRow /\ row.pc = "read" /\ row.client = post[p].client
      /\ row.tap = post[p].tap
  <2> DEFINE val == checked[ItemOf(p)]
  <2> HIDE DEF val
  <2>1. [post[p] EXCEPT !.pc = "read", !.val = val] \in PostRow
        /\ [post[p] EXCEPT !.pc = "read", !.val = val].pc = "read"
        /\ [post[p] EXCEPT !.pc = "read", !.val = val].client = post[p].client
        /\ [post[p] EXCEPT !.pc = "read", !.val = val].tap = post[p].tap
    <3>1. val \in BOOLEAN
      BY <1>4 DEF val
    <3> QED
      BY <1>2, <3>1, ReadFields
  <2> QED
    BY <2>1 DEF val
<1> HIDE DEF row
<1> QED
  BY <1>1, <1>2, <1>5, PutEffect

(* The server is through with the request: served or failed.               *)
LEMMA EndEffect ==
  ASSUME Sound, NEW p \in Post, NEW pc \in {"committed", "failed"},
         post[p].pc # "free", Put(p, [post[p] EXCEPT !.pc = pc])
  PROVE  /\ post' \in [Post -> PostRow] /\ \A q \in Post : q # p => post'[q] = post[q]
         /\ post[p].client # "waiting" => post'[p] = FreePost
         /\ post[p].client = "waiting" =>
               /\ post'[p].pc = pc
               /\ post'[p].client = "waiting" /\ post'[p].tap = post[p].tap
<1>1. post \in [Post -> PostRow] /\ post[p] \in PostRow
  BY DEF Sound, TypeOK
<1> DEFINE row == [post[p] EXCEPT !.pc = pc]
<1>2. row \in PostRow /\ row.pc = pc /\ row.client = post[p].client
      /\ row.tap = post[p].tap
  <2> DEFINE r == post[p]
  <2>1. r \in PostRow /\ pc \in {"free", "sent", "read", "committed", "failed"}
    BY <1>1
  <2> HIDE DEF r
  <2>2. /\ [r EXCEPT !.pc = pc] \in PostRow
        /\ [r EXCEPT !.pc = pc].pc = pc
        /\ [r EXCEPT !.pc = pc].client = r.client
        /\ [r EXCEPT !.pc = pc].tap = r.tap
    BY <2>1, PcField
  <2> QED
    BY <2>2 DEF r
<1> HIDE DEF row
<1>3. Put(p, row)
  BY DEF row
<1> QED
  BY <1>1, <1>2, <1>3, PutEffect

(* The page is through with it: it has the answer, or has given up.        *)
LEMMA LeaveEffect ==
  ASSUME Sound, NEW p \in Post, NEW client \in {"answered", "gone"},
         post[p].client = "waiting", Put(p, [post[p] EXCEPT !.client = client])
  PROVE  /\ post' \in [Post -> PostRow] /\ \A q \in Post : q # p => post'[q] = post[q]
         /\ post[p].pc # "free" /\ post[p].tap \in Tap
         /\ post[p].pc \in {"committed", "failed"} => post'[p] = FreePost
         /\ post[p].pc \notin {"committed", "failed"} =>
               /\ post'[p].pc = post[p].pc
               /\ post'[p].client = client /\ post'[p].tap = post[p].tap
<1>1. post \in [Post -> PostRow] /\ post[p] \in PostRow
  BY DEF Sound, TypeOK
<1> DEFINE row == [post[p] EXCEPT !.client = client]
<1>2. row \in PostRow /\ row.pc = post[p].pc /\ row.client = client
      /\ row.tap = post[p].tap
  <2> DEFINE r == post[p]
  <2>1. r \in PostRow
    BY <1>1
  <2> HIDE DEF r
  <2>2. /\ [r EXCEPT !.client = client] \in PostRow
        /\ [r EXCEPT !.client = client].pc = r.pc
        /\ [r EXCEPT !.client = client].client = client
        /\ [r EXCEPT !.client = client].tap = r.tap
    <3>1. client \in {"waiting", "answered", "gone"}
      OBVIOUS
    <3>2. \A c \in {"waiting", "answered", "gone"} :
             /\ [r EXCEPT !.client = c] \in PostRow
             /\ [r EXCEPT !.client = c].pc = r.pc
             /\ [r EXCEPT !.client = c].client = c
             /\ [r EXCEPT !.client = c].tap = r.tap
      BY <2>1, ClientField, Zenon
    <3> QED
      BY <3>1, <3>2, Zenon
  <2> QED
    BY <2>2 DEF r
<1> HIDE DEF row
<1>3. Put(p, row)
  BY DEF row
<1> QED
  BY <1>1, <1>2, <1>3, PutEffect, WaitingIsBusy

(* An answer or the end of the wait for it, of a tap.                      *)
LEMMA TapAwaits ==
  ASSUME Sound, NEW p \in Post, NEW client \in {"answered", "gone"},
         NEW stage \in Stage, stage # "unused",
         OfTap(p), Put(p, [post[p] EXCEPT !.client = client]),
         tap' = [tap EXCEPT ![post[p].tap].stage = stage]
  PROVE  /\ post[p].client = "waiting" /\ ~OfFlush(p)
         /\ tap[post[p].tap].stage = "posting"
         /\ tap' \in [Tap -> TapRow]
         /\ tap'[post[p].tap].stage = stage
         /\ tap'[post[p].tap].item = tap[post[p].tap].item
         /\ \A t \in Tap : t # post[p].tap => tap'[t] = tap[t]
<1>1. post[p].client = "waiting" /\ ~OfFlush(p)
  BY DEF OfTap, OfFlush
<1>2. post[p].tap \in Tap
  BY <1>1, WaitingIsBusy
<1>3. tap[post[p].tap].stage = "posting"
  BY <1>1 DEF Sound, Requests
<1> QED
  BY <1>1, <1>2, <1>3, StageEffect DEF Sound, TypeOK

-----------------------------------------------------------------------------
(* Sound is kept by every action.                                          *)

LEMMA ItemIsItem ==
  ASSUME Sound, NEW p \in Post, post[p].pc # "free"
  PROVE  ItemOf(p) \in Item /\ post[p].tap \in Tap /\ post[p].val \in BOOLEAN
<1>1. post[p].tap \in Tap
  BY DEF Sound, Requests
<1> QED
  BY <1>1 DEF Sound, TypeOK, TapRow, PostRow, ItemOf

LEMMA ServeSound ==
  ASSUME Sound, NEW p \in Post, Serve(p)
  PROVE  Sound'
<1>1. /\ post' \in [Post -> PostRow] /\ \A q \in Post : q # p => post'[q] = post[q]
      /\ post[p].pc # "free"
      /\ Less(p)
      /\ post[p].client = "waiting" =>
            post'[p].client = "waiting" /\ post'[p].tap = post[p].tap
  <2>1. CASE ServeRead(p)
    BY <2>1, ReadEffect DEF Less
  <2>2. CASE ServeCommit(p)
    BY <2>2, EndEffect DEF ServeCommit, Less
  <2>3. CASE ServeFail(p)
    BY <2>3, EndEffect DEF ServeFail, Less
  <2> QED
    BY <2>1, <2>2, <2>3 DEF Serve
<1>2. UNCHANGED <<stored, queue, page, screen, tap, flush, online, closes>>
  BY DEF Serve, ServeRead, ServeCommit, ServeFail
<1>3. checked' \in [Item -> BOOLEAN] /\ accident' \subseteq Item
  <2>1. ItemOf(p) \in Item /\ post[p].val \in BOOLEAN
    BY <1>1, ItemIsItem
  <2>2. checked \in [Item -> BOOLEAN] /\ accident \subseteq Item
    BY DEF Sound, TypeOK
  <2>3. accident' = accident \/ accident' = accident \cup {ItemOf(p)}
    BY DEF Serve, ServeRead, ServeCommit, ServeFail
  <2>4. checked' = checked \/ checked' = [checked EXCEPT ![ItemOf(p)] = ~post[p].val]
    BY DEF Serve, ServeRead, ServeCommit, ServeFail
  <2> QED
    BY <2>1, <2>2, <2>3, <2>4
<1>4. TypeOK'
  BY <1>1, <1>2, <1>3 DEF Sound, TypeOK
<1>5. Queued(queue)' /\ Queued(flush.rest)'
  BY <1>2 DEF Sound, Queued
<1>6. Flushing'
  BY <1>1, <1>2 DEF Sound, Flushing
<1>7. \A q \in Post : Less(q)
  BY <1>1 DEF Less
<1>8. Requests' /\ OneRequestPerTap'
  <2>1. \A q \in Post : post'[q].client = "waiting" /\ ~OfFlush(q)' =>
            tap'[post[q].tap].stage = "posting"
    BY <1>1, <1>2 DEF Sound, Requests, Less, OfFlush, FreePost
  <2> QED
    BY <1>2, <1>7, <2>1, RequestsKept
<1> QED
  BY <1>4, <1>5, <1>6, <1>8 DEF Sound

LEMMA TapAwaitsSound ==
  ASSUME Sound, NEW p \in Post, Sent(p) \/ NotSent(p)
  PROVE  Sound'
<1> DEFINE client == IF Sent(p) THEN "answered" ELSE "gone"
           stage == IF Sent(p) THEN "settled" ELSE "queueing"
<1>1. /\ OfTap(p) /\ Put(p, [post[p] EXCEPT !.client = client])
      /\ tap' = [tap EXCEPT ![post[p].tap].stage = stage]
      /\ client \in {"answered", "gone"}
      /\ stage \in Stage /\ stage \notin {"unused", "queued"}
      /\ UNCHANGED <<checked, stored, queue, page, screen, flush, online, closes>>
      /\ accident' \in {accident, accident \cup {ItemOf(p)}}
  BY DEF Sent, NotSent, Stage
<1> HIDE DEF client, stage
<1>2. /\ post[p].client = "waiting" /\ ~OfFlush(p)
      /\ tap[post[p].tap].stage = "posting"
      /\ tap' \in [Tap -> TapRow]
      /\ tap'[post[p].tap].stage = stage
      /\ \A t \in Tap : t # post[p].tap => tap'[t] = tap[t]
  BY <1>1, TapAwaits
<1>3. /\ post' \in [Post -> PostRow] /\ \A q \in Post : q # p => post'[q] = post[q]
      /\ post[p].tap \in Tap
      /\ Less(p) /\ post'[p].client # "waiting"
  <2>1. /\ post' \in [Post -> PostRow] /\ \A q \in Post : q # p => post'[q] = post[q]
        /\ post[p].pc # "free" /\ post[p].tap \in Tap
        /\ post[p].pc \in {"committed", "failed"} => post'[p] = FreePost
        /\ post[p].pc \notin {"committed", "failed"} =>
              /\ post'[p].pc = post[p].pc
              /\ post'[p].client = client /\ post'[p].tap = post[p].tap
    BY <1>1, <1>2, LeaveEffect
  <2> QED
    BY <1>1, <2>1 DEF Less, FreePost
<1>4. accident' \subseteq Item
  <2>1. ItemOf(p) \in Item /\ accident \subseteq Item
    BY <1>2, WaitingIsBusy, ItemIsItem DEF Sound, TypeOK
  <2> QED
    BY <1>1, <2>1
<1>5. TypeOK'
  BY <1>1, <1>2, <1>3, <1>4 DEF Sound, TypeOK
<1>6. \A t \in Tap : tap[t].stage = "queued" => tap'[t].stage = "queued"
  BY <1>2
<1>7. Queued(queue)' /\ Queued(flush.rest)'
  BY <1>1, <1>6, QueuedKept, FlushTypes DEF Sound, TypeOK, Queued
<1>8. Flushing'
  BY <1>1, <1>2, <1>3 DEF Sound, Flushing, OfFlush
<1>9. Requests' /\ OneRequestPerTap'
  <2>1. \A q \in Post : Less(q)
    BY <1>3 DEF Less
  <2>2. \A t \in Tap : tap[t].stage # "unused" => tap'[t].stage # "unused"
    BY <1>1, <1>2
  <2>3. ASSUME NEW q \in Post, post'[q].client = "waiting", ~OfFlush(q)'
        PROVE  tap'[post[q].tap].stage = "posting"
    <3>1. q # p /\ post[q].client = "waiting" /\ ~OfFlush(q)
      BY <1>1, <1>3, <2>3 DEF OfFlush
    <3>2. post[q].tap \in Tap /\ tap[post[q].tap].stage = "posting"
      BY <3>1, WaitingIsBusy DEF Sound, Requests
    <3>3. post[q].tap # post[p].tap
      BY <1>2, <3>1 DEF Sound, OneRequestPerTap
    <3> QED
      BY <1>2, <3>2, <3>3
  <2> QED
    BY <2>1, <2>2, <2>3, RequestsKept
<1> QED
  BY <1>5, <1>7, <1>8, <1>9 DEF Sound

LEMMA EnqueueSound ==
  ASSUME Sound, NEW t \in Tap, Enqueue(t)
  PROVE  Sound'
<1>1. /\ tap[t].stage = "queueing" /\ tap' = [tap EXCEPT ![t].stage = "queued"]
      /\ queue' = Append(queue, t)
      /\ UNCHANGED <<checked, stored, page, screen, flush, post, online, closes, accident>>
  BY DEF Enqueue
<1>2. /\ tap' \in [Tap -> TapRow] /\ tap'[t].stage = "queued"
      /\ \A k \in Tap : k # t => tap'[k] = tap[k]
  BY <1>1, StageEffect DEF Sound, TypeOK, Stage
<1>3. /\ queue \in Seq(Tap) /\ Distinct(queue)
      /\ \A k \in 1 .. Len(queue) : queue[k] # t /\ tap[queue[k]].stage = "queued"
  BY <1>1 DEF Sound, TypeOK, Queued
<1>4. /\ queue' \in Seq(Tap) /\ Distinct(queue')
      /\ \A k \in 1 .. Len(queue') :
            queue'[k] = t \/ \E j \in 1 .. Len(queue) : queue'[k] = queue[j]
  BY <1>1, <1>3, AppendNew
<1>5. \A k \in Tap : tap[k].stage = "queued" => tap'[k].stage = "queued"
  BY <1>1, <1>2
<1>6. Queued(queue)' /\ Queued(flush.rest)'
  <2>1. Queued(flush.rest)'
    BY <1>1, <1>5, QueuedKept, FlushTypes DEF Sound, Queued
  <2>2. \A k \in 1 .. Len(queue) : queue[k] \in Tap
    BY <1>3
  <2>3. Queued(queue)'
    BY <1>2, <1>3, <1>4, <1>5, <2>2 DEF Queued
  <2> QED
    BY <2>1, <2>3
<1>7. TypeOK'
  BY <1>1, <1>2, <1>4 DEF Sound, TypeOK
<1>8. Flushing'
  BY <1>1 DEF Sound, Flushing
<1>9. Requests' /\ OneRequestPerTap'
  <2>1. \A q \in Post : Less(q)
    BY <1>1 DEF Less
  <2>2. \A k \in Tap : tap[k].stage # "unused" => tap'[k].stage # "unused"
    BY <1>2
  <2>3. ASSUME NEW q \in Post, post'[q].client = "waiting", ~OfFlush(q)'
        PROVE  tap'[post[q].tap].stage = "posting"
    <3>1. post[q].client = "waiting" /\ ~OfFlush(q)
      BY <1>1, <2>3 DEF OfFlush
    <3>2. post[q].tap \in Tap /\ tap[post[q].tap].stage = "posting"
      BY <3>1, WaitingIsBusy DEF Sound, Requests
    <3> QED
      BY <1>1, <1>2, <3>2
  <2> QED
    BY <2>1, <2>2, <2>3, RequestsKept
<1> QED
  BY <1>6, <1>7, <1>8, <1>9 DEF Sound

(* A tap that is not used yet has no request.                              *)
LEMMA TouchSound ==
  ASSUME Sound, NEW i \in Item, Touch(i)
  PROVE  Sound'
<1>1. PICK t \in Tap :
        /\ Unused(t)
        /\ \/ /\ online
              /\ tap' = [tap EXCEPT ![t] = [stage |-> "posting", item |-> i]]
              /\ \E p \in Post : Send(t, p)
           \/ /\ ~online
              /\ tap' = [tap EXCEPT ![t] = [stage |-> "queueing", item |-> i]]
              /\ UNCHANGED post
  BY DEF Touch
<1>2. /\ UNCHANGED <<checked, queue, page, flush, online, closes>>
      /\ screen' = [screen EXCEPT ![i] = Shown(i)]
      /\ stored' = [stored EXCEPT ![i] = Shown(i)]
      /\ accident' \in {accident, accident \cup {i}}
  BY DEF Touch
<1>3. /\ tap' \in [Tap -> TapRow]
      /\ \A k \in Tap : k # t => tap'[k] = tap[k]
      /\ tap[t].stage = "unused" /\ tap'[t].stage # "unused"
  BY <1>1 DEF Unused, Sound, TypeOK, TapRow, Stage
<1>4. \A q \in Post : post[q].client = "waiting" => post[q].tap # t
  BY <1>3 DEF Sound, Requests, FreePost
<1>5. screen' \in [Item -> BOOLEAN] /\ stored' \in [Item -> BOOLEAN]
  BY <1>2 DEF Sound, TypeOK, Shown
<1>6. accident' \subseteq Item
  BY <1>2 DEF Sound, TypeOK
<1>7. \A k \in Tap : tap[k].stage = "queued" => tap'[k].stage = "queued"
  BY <1>3
<1>8. Queued(queue)' /\ Queued(flush.rest)'
  BY <1>2, <1>7, QueuedKept, FlushTypes DEF Sound, TypeOK, Queued
<1>9. CASE online
  <2>1. PICK p \in Post : Send(t, p)
    BY <1>1, <1>9
  <2>2. /\ post' \in [Post -> PostRow] /\ post[p].pc = "free"
        /\ \A q \in Post : q # p => post'[q] = post[q]
        /\ post'[p].pc = "sent" /\ post'[p].client = "waiting" /\ post'[p].tap = t
    BY <2>1, SendEffect DEF Sound, TypeOK
  <2>3. tap'[t].stage = "posting"
    BY <1>1, <1>9 DEF Sound, TypeOK
  <2>4. post[p].client # "waiting"
    BY <2>2 DEF Sound, Requests, FreePost
  <2>5. TypeOK'
    BY <1>2, <1>3, <1>5, <1>6, <2>2 DEF Sound, TypeOK
  <2>6. Flushing'
    BY <1>2, <2>2, <2>4 DEF Sound, Flushing
  <2>7. Requests'
    <3>1. \A q \in Post : post'[q].pc = "free" => post'[q] = FreePost
      BY <2>2 DEF Sound, Requests
    <3>2. \A q \in Post : post'[q].pc # "free" =>
              post'[q].tap \in Tap /\ tap'[post'[q].tap].stage # "unused"
      BY <1>3, <2>2 DEF Sound, Requests
    <3>3. ASSUME NEW q \in Post, post'[q].client = "waiting", ~OfFlush(q)'
          PROVE  tap'[post'[q].tap].stage = "posting"
      <4>1. CASE q = p
        BY <2>2, <2>3, <4>1
      <4>2. CASE q # p
        <5>1. post'[q] = post[q] /\ post[q].client = "waiting" /\ ~OfFlush(q)
          BY <1>2, <2>2, <3>3, <4>2 DEF OfFlush
        <5>2. post[q].tap \in Tap /\ tap[post[q].tap].stage = "posting"
          BY <5>1, WaitingIsBusy DEF Sound, Requests
        <5> QED
          BY <1>3, <1>4, <5>1, <5>2
      <4> QED
        BY <4>1, <4>2
    <3> QED
      BY <3>1, <3>2, <3>3 DEF Requests
  <2>8. OneRequestPerTap'
    BY <1>4, <2>2 DEF Sound, OneRequestPerTap
  <2> QED
    BY <1>8, <2>5, <2>6, <2>7, <2>8 DEF Sound
<1>10. CASE ~online
  <2>1. post' = post
    BY <1>1, <1>10
  <2>2. TypeOK'
    BY <1>2, <1>3, <1>5, <1>6, <2>1 DEF Sound, TypeOK
  <2>3. Flushing'
    BY <1>2, <2>1 DEF Sound, Flushing
  <2>4. Requests' /\ OneRequestPerTap'
    <3>1. \A q \in Post : Less(q)
      BY <2>1 DEF Less
    <3>2. \A k \in Tap : tap[k].stage # "unused" => tap'[k].stage # "unused"
      BY <1>3
    <3>3. ASSUME NEW q \in Post, post'[q].client = "waiting", ~OfFlush(q)'
          PROVE  tap'[post[q].tap].stage = "posting"
      <4>1. post[q].client = "waiting" /\ ~OfFlush(q)
        BY <1>2, <2>1, <3>3 DEF OfFlush
      <4>2. post[q].tap \in Tap /\ tap[post[q].tap].stage = "posting"
        BY <4>1, WaitingIsBusy DEF Sound, Requests
      <4> QED
        BY <1>3, <1>4, <4>1, <4>2
    <3> QED
      BY <3>1, <3>2, <3>3, RequestsKept
  <2> QED
    BY <1>8, <2>2, <2>3, <2>4 DEF Sound
<1> QED
  BY <1>9, <1>10

LEMMA LoopFields ==
  ASSUME NEW q \in Seq(Tap)
  PROVE  /\ Loop(q) \in FlushRow /\ Loop(q).rest = q
         /\ Loop(q).pc \in {"idle", "next"}
         /\ Loop(q).pc = "next" => q # <<>>
  BY DEF Loop, NoFlush, FlushRow, NoPost

LEMMA StartedFields ==
  ASSUME flush \in FlushRow
  PROVE  /\ Started \in FlushRow
         /\ Started = flush \/ (flush.pc = "idle" /\ Started.pc = "reading" /\ Started.rest = <<>>)
<1> DEFINE reading == [pc |-> "reading", rest |-> <<>>, post |-> NoPost]
<1>1. reading \in FlushRow /\ reading.pc = "reading" /\ reading.rest = <<>>
  BY DEF FlushRow
<1>2. Started = IF flush.pc = "idle" THEN reading ELSE flush
  BY DEF Started, NoFlush
<1> HIDE DEF reading
<1> QED
  BY <1>1, <1>2

(* A step of the page that concerns flush only.                            *)
LEMMA FlushMoves ==
  ASSUME Sound, UNCHANGED <<checked, stored, queue, tap, post>>,
         page' \in {"closed", "opened", "hydrated"}, screen' \in [Item -> BOOLEAN],
         online' \in BOOLEAN, closes' \in 0 .. MaxCloses, accident' \subseteq Item,
         flush' \in FlushRow, Queued(flush'.rest),
         \/ flush' = flush
         \/ flush.pc # "posting" /\ flush'.pc # "posting"
            /\ (flush'.pc \in {"next", "removing"} => flush'.rest # <<>>)
  PROVE  Sound'
<1>1. TypeOK'
  BY DEF Sound, TypeOK
<1>2. Queued(queue)' /\ Queued(flush.rest)'
  BY DEF Sound, Queued
<1>3. Flushing'
  BY DEF Sound, Flushing
<1>4. \A q \in Post : OfFlush(q)' <=> OfFlush(q)
  BY DEF OfFlush
<1>5. Requests' /\ OneRequestPerTap'
  BY <1>4 DEF Sound, Requests, OneRequestPerTap
<1> QED
  BY <1>1, <1>2, <1>3, <1>5 DEF Sound

LEMMA EmptyQueued == Queued(<<>>)
  BY DEF Queued, Distinct

LEMMA FlushReadSound ==
  ASSUME Sound, FlushRead
  PROVE  Sound'
<1>1. /\ flush.pc = "reading" /\ flush' = Loop(queue)
      /\ UNCHANGED <<checked, stored, queue, page, screen, tap, post, online, closes, accident>>
  BY DEF FlushRead
<1>2. queue \in Seq(Tap) /\ Queued(queue)
  BY DEF Sound, TypeOK
<1>3. /\ flush' \in FlushRow /\ flush'.rest = queue
      /\ flush'.pc \in {"idle", "next"}
      /\ flush'.pc = "next" => flush'.rest # <<>>
  BY <1>1, <1>2, LoopFields
<1> QED
  BY <1>1, <1>2, <1>3, FlushMoves DEF Sound, TypeOK

LEMMA DeviceSound ==
  ASSUME Sound, GoOffline \/ GoOnline \/ Open \/ Hydrate
  PROVE  Sound'
<1>1. /\ UNCHANGED <<checked, stored, queue, tap, post, closes, accident>>
      /\ flush' = flush \/ flush' = Started
      /\ page' \in {"closed", "opened", "hydrated"} /\ screen' \in [Item -> BOOLEAN]
      /\ online' \in BOOLEAN
  BY DEF GoOffline, GoOnline, Open, Hydrate, Sound, TypeOK
<1>2. flush \in FlushRow
  BY DEF Sound, TypeOK
<1>3. /\ flush' \in FlushRow
      /\ flush' = flush \/ (flush.pc = "idle" /\ flush'.pc = "reading" /\ flush'.rest = <<>>)
  BY <1>1, <1>2, StartedFields
<1>4. Queued(flush'.rest)
  BY <1>3, EmptyQueued DEF Sound
<1>5. \/ flush' = flush
      \/ flush.pc # "posting" /\ flush'.pc # "posting"
         /\ (flush'.pc \in {"next", "removing"} => flush'.rest # <<>>)
  BY <1>3
<1>6. closes' \in 0 .. MaxCloses /\ accident' \subseteq Item
  BY <1>1 DEF Sound, TypeOK
<1> QED
  BY <1>1, <1>3, <1>4, <1>5, <1>6, FlushMoves

(* The entry flush sends is in the queue, and nobody else sends it.        *)
LEMMA FlushPostSound ==
  ASSUME Sound, FlushPost
  PROVE  Sound'
<1>1. PICK p \in Post :
        Send(Head(flush.rest), p) /\ flush' = [flush EXCEPT !.pc = "posting", !.post = p]
  BY DEF FlushPost
<1>2. /\ flush.pc = "next"
      /\ UNCHANGED <<checked, stored, queue, page, screen, tap, online, closes, accident>>
  BY DEF FlushPost
<1> DEFINE t == Head(flush.rest)
<1>3. /\ flush \in FlushRow /\ flush.rest \in Seq(Tap) /\ flush.rest # <<>>
      /\ t \in Tap /\ tap[t].stage = "queued"
  BY <1>2, FlushTypes DEF Sound, Flushing
<1>4. /\ flush' \in FlushRow /\ flush'.rest = flush.rest
      /\ flush'.pc = "posting" /\ flush'.post = p
  BY <1>1, <1>3 DEF FlushRow
<1>5. Send(t, p)
  BY <1>1
<1> HIDE DEF t
<1>6. /\ post' \in [Post -> PostRow] /\ post[p].pc = "free"
      /\ \A q \in Post : q # p => post'[q] = post[q]
      /\ post'[p].pc = "sent" /\ post'[p].client = "waiting" /\ post'[p].tap = t
  BY <1>3, <1>5, SendEffect DEF Sound, TypeOK
<1>7. \A q \in Post : post[q].client = "waiting" =>
        q # p /\ post[q].tap \in Tap /\ tap[post[q].tap].stage = "posting"
  BY <1>2, <1>6, WaitingIsBusy DEF Sound, Requests, OfFlush
<1>8. TypeOK'
  BY <1>2, <1>4, <1>6 DEF Sound, TypeOK
<1>9. Queued(queue)' /\ Queued(flush.rest)'
  BY <1>2, <1>4 DEF Sound, Queued
<1>10. Flushing'
  BY <1>3, <1>4, <1>6 DEF Flushing, t
<1>11. Requests'
  <2>1. \A q \in Post : post'[q].pc = "free" => post'[q] = FreePost
    BY <1>6 DEF Sound, Requests
  <2>2. \A q \in Post : post'[q].pc # "free" =>
            post'[q].tap \in Tap /\ tap'[post'[q].tap].stage # "unused"
    BY <1>2, <1>3, <1>6 DEF Sound, Requests
  <2>3. ASSUME NEW q \in Post, post'[q].client = "waiting", ~OfFlush(q)'
        PROVE  tap'[post'[q].tap].stage = "posting"
    <3>1. q # p
      BY <1>4, <2>3 DEF OfFlush
    <3> QED
      BY <1>2, <1>6, <1>7, <2>3, <3>1
  <2> QED
    BY <2>1, <2>2, <2>3 DEF Requests
<1>12. OneRequestPerTap'
  <2>1. \A q \in Post : q # p /\ post'[q].client = "waiting" => post'[q].tap # t
    BY <1>3, <1>6, <1>7
  <2> QED
    BY <1>6, <2>1 DEF Sound, OneRequestPerTap
<1> QED
  BY <1>8, <1>9, <1>10, <1>11, <1>12 DEF Sound

LEMMA FlushAwaitsSound ==
  ASSUME Sound, NEW p \in Post, Replayed(p) \/ NotReplayed(p)
  PROVE  Sound'
<1> DEFINE client == IF Replayed(p) THEN "answered" ELSE "gone"
           row == [flush EXCEPT !.pc = "removing", !.post = NoPost]
<1>1. /\ flush.pc = "posting" /\ flush.post = p
      /\ Put(p, [post[p] EXCEPT !.client = client])
      /\ client \in {"answered", "gone"}
      /\ flush' = row \/ flush' = NoFlush
      /\ UNCHANGED <<checked, stored, queue, page, screen, tap, online, closes>>
      /\ accident' \in {accident, accident \cup {ItemOf(p)}}
  BY DEF Replayed, NotReplayed
<1> HIDE DEF client
<1>2. /\ post[p].client = "waiting" /\ flush.rest # <<>> /\ flush \in FlushRow
      /\ flush.rest \in Seq(Tap)
  BY <1>1, FlushTypes DEF Sound, Flushing
<1>3. /\ post' \in [Post -> PostRow] /\ \A q \in Post : q # p => post'[q] = post[q]
      /\ Less(p) /\ post'[p].client # "waiting"
  <2>1. /\ post' \in [Post -> PostRow] /\ \A q \in Post : q # p => post'[q] = post[q]
        /\ post[p].pc # "free" /\ post[p].tap \in Tap
        /\ post[p].pc \in {"committed", "failed"} => post'[p] = FreePost
        /\ post[p].pc \notin {"committed", "failed"} =>
              /\ post'[p].pc = post[p].pc
              /\ post'[p].client = client /\ post'[p].tap = post[p].tap
    BY <1>1, <1>2, LeaveEffect
  <2> QED
    BY <1>1, <2>1 DEF Less, FreePost
<1>4. accident' \subseteq Item
  <2>1. ItemOf(p) \in Item /\ accident \subseteq Item
    BY <1>2, WaitingIsBusy, ItemIsItem DEF Sound, TypeOK
  <2> QED
    BY <1>1, <2>1
<1>5. /\ row \in FlushRow /\ row.pc = "removing" /\ row.rest = flush.rest
      /\ NoFlush \in FlushRow /\ NoFlush.pc = "idle" /\ NoFlush.rest = <<>>
  <2>1. NoFlush \in FlushRow /\ NoFlush.pc = "idle" /\ NoFlush.rest = <<>>
    BY DEF FlushRow, NoFlush
  <2> DEFINE f == flush
  <2>2. f \in FlushRow
    BY <1>2
  <2> HIDE DEF f
  <2>3. /\ [f EXCEPT !.pc = "removing", !.post = NoPost] \in FlushRow
        /\ [f EXCEPT !.pc = "removing", !.post = NoPost].pc = "removing"
        /\ [f EXCEPT !.pc = "removing", !.post = NoPost].rest = f.rest
    BY <2>2 DEF FlushRow
  <2> QED
    BY <2>1, <2>3 DEF f
<1> HIDE DEF row
<1>6. /\ flush' \in FlushRow /\ flush'.pc \in {"idle", "removing"}
      /\ flush'.rest = flush.rest \/ flush'.rest = <<>>
      /\ flush'.pc = "removing" => flush'.rest # <<>>
  BY <1>1, <1>2, <1>5
<1>7. TypeOK'
  BY <1>1, <1>3, <1>4, <1>6 DEF Sound, TypeOK
<1>8. Queued(queue)' /\ Queued(flush.rest)'
  BY <1>1, <1>6, EmptyQueued DEF Sound, Queued
<1>9. Flushing'
  BY <1>6 DEF Flushing
<1>10. Requests' /\ OneRequestPerTap'
  <2>1. \A q \in Post : Less(q)
    BY <1>3 DEF Less
  <2>2. ASSUME NEW q \in Post, post'[q].client = "waiting", ~OfFlush(q)'
        PROVE  tap'[post[q].tap].stage = "posting"
    <3>1. q # p /\ post[q].client = "waiting"
      BY <1>3, <2>2
    <3>2. ~OfFlush(q)
      BY <1>1, <3>1 DEF OfFlush
    <3> QED
      BY <1>1, <3>1, <3>2 DEF Sound, Requests
  <2> QED
    BY <1>1, <2>1, <2>2, RequestsKept
<1> QED
  BY <1>7, <1>8, <1>9, <1>10 DEF Sound

LEMMA FlushRemoveSound ==
  ASSUME Sound, FlushRemove
  PROVE  Sound'
<1> DEFINE t == Head(flush.rest)
<1>1. /\ flush.pc = "removing" /\ queue' = Without(queue, t)
      /\ tap' = [tap EXCEPT ![t].stage = "settled"] /\ flush' = Loop(Tail(flush.rest))
      /\ UNCHANGED <<checked, stored, page, screen, post, online, closes, accident>>
  BY DEF FlushRemove
<1>2. /\ flush \in FlushRow /\ flush.rest \in Seq(Tap) /\ flush.rest # <<>>
      /\ t \in Tap /\ tap[t].stage = "queued"
      /\ Distinct(flush.rest) /\ Distinct(queue) /\ queue \in Seq(Tap)
      /\ \A k \in 1 .. Len(queue) : queue[k] \in Tap /\ tap[queue[k]].stage = "queued"
      /\ \A k \in 1 .. Len(flush.rest) :
            flush.rest[k] \in Tap /\ tap[flush.rest[k]].stage = "queued"
  BY <1>1, FlushTypes DEF Sound, TypeOK, Flushing, Queued
<1>3. /\ Tail(flush.rest) \in Seq(Tap) /\ Distinct(Tail(flush.rest))
      /\ \A k \in 1 .. Len(Tail(flush.rest)) :
            Tail(flush.rest)[k] # t
            /\ \E j \in 1 .. Len(flush.rest) : Tail(flush.rest)[k] = flush.rest[j]
  BY <1>2, TailKeeps
<1>4. /\ queue' \in Seq(Tap) /\ Distinct(queue')
      /\ \A k \in 1 .. Len(queue') :
            queue'[k] # t /\ \E j \in 1 .. Len(queue) : queue'[k] = queue[j]
  <2> DEFINE q == Without(queue, t)
  <2>1. queue' = q
    BY <1>1
  <2> HIDE DEF t
  <2>2. queue \in Seq(Tap) /\ Distinct(queue) /\ t \in Tap
    BY <1>2
  <2>3. /\ q \in Seq(Tap) /\ Distinct(q)
        /\ \A k \in 1 .. Len(q) :
              q[k] # t /\ \E j \in 1 .. Len(queue) : q[k] = queue[j]
    BY <2>2, WithoutKeeps
  <2> HIDE DEF q
  <2> QED
    BY <2>1, <2>3
<1>5. /\ flush' \in FlushRow /\ flush'.rest = Tail(flush.rest)
      /\ flush'.pc \in {"idle", "next"}
      /\ flush'.pc = "next" => flush'.rest # <<>>
  BY <1>1, <1>3, LoopFields
<1> HIDE DEF t
<1>6. /\ tap' \in [Tap -> TapRow] /\ tap'[t].stage = "settled"
      /\ \A k \in Tap : k # t => tap'[k] = tap[k]
  BY <1>1, <1>2, StageEffect DEF Sound, TypeOK, Stage
<1>7. TypeOK'
  BY <1>1, <1>4, <1>5, <1>6 DEF Sound, TypeOK
<1>8. Queued(queue)'
  BY <1>2, <1>4, <1>6 DEF Queued
<1>9. Queued(flush.rest)'
  BY <1>2, <1>3, <1>5, <1>6 DEF Queued
<1>10. Flushing'
  BY <1>5 DEF Flushing
<1>11. Requests' /\ OneRequestPerTap'
  <2>1. \A q \in Post : Less(q)
    BY <1>1 DEF Less
  <2>2. \A k \in Tap : tap[k].stage # "unused" => tap'[k].stage # "unused"
    BY <1>6
  <2>3. ASSUME NEW q \in Post, post'[q].client = "waiting", ~OfFlush(q)'
        PROVE  tap'[post[q].tap].stage = "posting"
    <3>1. post[q].client = "waiting" /\ ~OfFlush(q)
      BY <1>1, <2>3 DEF OfFlush
    <3>2. post[q].tap \in Tap /\ tap[post[q].tap].stage = "posting"
      BY <3>1, WaitingIsBusy DEF Sound, Requests
    <3> QED
      BY <1>2, <1>6, <3>2
  <2> QED
    BY <2>1, <2>2, <2>3, RequestsKept
<1> QED
  BY <1>7, <1>8, <1>9, <1>10, <1>11 DEF Sound

(* Closing the page loses what its calls awaited.                          *)
LEMMA CloseEffect ==
  ASSUME Sound, Close
  PROVE  /\ tap' \in [Tap -> TapRow]
         /\ \A t \in Tap : tap[t].stage \in {"posting", "queueing"} =>
               tap'[t].stage = "gone" /\ tap'[t].item = tap[t].item
         /\ \A t \in Tap : tap[t].stage \notin {"posting", "queueing"} => tap'[t] = tap[t]
         /\ post' \in [Post -> PostRow]
         /\ \A q \in Post : post[q].client # "waiting" => post'[q] = post[q]
         /\ \A q \in Post : post'[q].client # "waiting" /\ Less(q)
         /\ \A q \in Post : post[q].client = "waiting" => post'[q].client = "gone"
         /\ Exposed \subseteq Item
<1>1. tap \in [Tap -> TapRow] /\ post \in [Post -> PostRow]
  BY DEF Sound, TypeOK
<1>2. tap' = [t \in Tap |-> IF tap[t].stage \in {"posting", "queueing"}
                            THEN [tap[t] EXCEPT !.stage = "gone"] ELSE tap[t]]
  BY DEF Close
<1>3. ASSUME NEW t \in Tap
      PROVE  /\ tap'[t] \in TapRow
             /\ tap[t].stage \in {"posting", "queueing"} =>
                   tap'[t].stage = "gone" /\ tap'[t].item = tap[t].item
             /\ tap[t].stage \notin {"posting", "queueing"} => tap'[t] = tap[t]
  BY <1>1, <1>2 DEF TapRow, Stage
<1>4. post' = [p \in Post |->
                IF post[p].client # "waiting" THEN post[p]
                ELSE IF post[p].pc \in {"committed", "failed"} THEN FreePost
                ELSE [post[p] EXCEPT !.client = "gone"]]
  BY DEF Close
<1>5. ASSUME NEW q \in Post
      PROVE  /\ post'[q] \in PostRow
             /\ post[q].client # "waiting" => post'[q] = post[q]
             /\ post'[q].client # "waiting" /\ Less(q)
             /\ post[q].client = "waiting" => post'[q].client = "gone"
  <2>1. FreePost \in PostRow /\ FreePost.client = "gone"
    BY DEF FreePost, PostRow
  <2> DEFINE r == post[q]
             gone == [r EXCEPT !.client = "gone"]
  <2>2. r \in PostRow
    BY <1>1
  <2>3. gone \in PostRow /\ gone.pc = r.pc /\ gone.client = "gone" /\ gone.tap = r.tap
    <3> HIDE DEF r
    <3> QED
      BY <2>2, ClientField
  <2>4. post'[q] = IF r.client # "waiting" THEN r
                   ELSE IF r.pc \in {"committed", "failed"} THEN FreePost ELSE gone
    BY <1>4
  <2>5. r.client = "waiting" => r.pc # "free"
    BY WaitingIsBusy
  <2>6. r = post[q]
    OBVIOUS
  <2> HIDE DEF r, gone
  <2> QED
    BY <2>1, <2>2, <2>3, <2>4, <2>5, <2>6 DEF Less
<1>6. tap' \in [Tap -> TapRow]
  BY <1>2, <1>3
<1>7. post' \in [Post -> PostRow]
  BY <1>4, <1>5
<1>8. Exposed \subseteq Item
  <2>1. \A t \in Tap : tap[t].item \in Item
    BY <1>1 DEF TapRow
  <2>2. flush.pc = "removing" => Head(flush.rest) \in Tap
    BY FlushTypes
  <2>3. flush.pc = "posting" => ItemOf(flush.post) \in Item
    BY WaitingIsBusy, ItemIsItem DEF Sound, Flushing
  <2> QED
    BY <2>1, <2>2, <2>3 DEF Exposed
<1> QED
  BY <1>3, <1>5, <1>6, <1>7, <1>8

LEMMA CloseSound ==
  ASSUME Sound, Close
  PROVE  Sound'
<1>1. /\ closes < MaxCloses /\ closes' = closes + 1 /\ page' = "closed"
      /\ screen' = Nothing /\ flush' = NoFlush /\ accident' = accident \cup Exposed
      /\ UNCHANGED <<checked, stored, queue, online>>
  BY DEF Close
<1>2. /\ NoFlush \in FlushRow /\ NoFlush.pc = "idle" /\ NoFlush.rest = <<>>
      /\ Nothing \in [Item -> BOOLEAN]
  BY DEF NoFlush, FlushRow, Nothing
<1>3. TypeOK'
  <2>1. closes' \in 0 .. MaxCloses
    BY <1>1, ChecklistAssumption DEF Sound, TypeOK
  <2> QED
    BY <1>1, <1>2, <2>1, CloseEffect DEF Sound, TypeOK
<1>4. \A t \in Tap : tap[t].stage = "queued" => tap'[t].stage = "queued"
  BY CloseEffect
<1>5. Queued(queue)' /\ Queued(flush.rest)'
  <2>1. Queued(flush.rest)'
    BY <1>1, <1>2 DEF Queued, Distinct
  <2> QED
    BY <1>1, <1>4, <2>1, QueuedKept DEF Sound, TypeOK, Queued
<1>6. Flushing'
  BY <1>1, <1>2 DEF Flushing
<1>7. Requests' /\ OneRequestPerTap'
  <2>1. \A t \in Tap : tap[t].stage # "unused" => tap'[t].stage # "unused"
    BY CloseEffect
  <2> QED
    BY <2>1, CloseEffect, RequestsKept
<1> QED
  BY <1>3, <1>5, <1>6, <1>7 DEF Sound

LEMMA SoundInit ==
  ASSUME Init
  PROVE  Sound
<1>1. PICK i \in Item : tap = [t \in Tap |-> [stage |-> "unused", item |-> i]]
  BY DEF Init
<1>2. tap \in [Tap -> TapRow]
  BY <1>1 DEF TapRow, Stage
<1>3. /\ NoFlush \in FlushRow /\ NoFlush.pc = "idle" /\ NoFlush.rest = <<>>
      /\ Nothing \in [Item -> BOOLEAN]
      /\ FreePost \in PostRow /\ FreePost.pc = "free" /\ FreePost.client = "gone"
  BY DEF NoFlush, FlushRow, Nothing, FreePost, PostRow
<1>4. /\ post \in [Post -> PostRow] /\ \A p \in Post : post[p] = FreePost
      /\ flush = NoFlush /\ queue = <<>>
  BY <1>3 DEF Init
<1>5. TypeOK
  BY <1>2, <1>3, <1>4, ChecklistAssumption DEF Init, TypeOK
<1>6. Queued(queue) /\ Queued(flush.rest)
  BY <1>3, <1>4, EmptyQueued
<1>7. Flushing /\ Requests /\ OneRequestPerTap
  BY <1>3, <1>4 DEF Flushing, Requests, OneRequestPerTap
<1> QED
  BY <1>5, <1>6, <1>7 DEF Sound

LEMMA SoundStep ==
  ASSUME Sound, [Next]_vars
  PROVE  Sound'
<1>1. CASE \E p \in Post : Serve(p)
  BY <1>1, ServeSound
<1>2. CASE Toggle
  BY <1>2, TouchSound, TapAwaitsSound, EnqueueSound DEF Toggle
<1>3. CASE Flush
  BY <1>3, FlushReadSound, FlushPostSound, FlushRemoveSound, FlushAwaitsSound DEF Flush
<1>4. CASE Device
  BY <1>4, DeviceSound, CloseSound DEF Device
<1>5. CASE UNCHANGED vars
  BY <1>5 DEF vars, Sound, TypeOK, Queued, Flushing, Requests, OneRequestPerTap, OfFlush
<1> QED
  BY <1>1, <1>2, <1>3, <1>4, <1>5 DEF Next

LEMMA ChecklistSound == Spec => []Sound
<1>1. Init => Sound
  BY SoundInit
<1>2. Sound /\ [Next]_vars => Sound'
  BY SoundStep
<1> QED
  BY <1>1, <1>2, PTL DEF Spec

(* The types of the page's, the device's and the API's state: in           *)
(* particular the queue only ever holds taps, and flush its entries.       *)
THEOREM ChecklistTypeCorrect == Spec => []TypeOK
<1>1. Sound => TypeOK
  BY DEF Sound
<1> QED
  BY <1>1, ChecklistSound, PTL

(* No tap is under way in two requests the page awaits: a call of toggle   *)
(* and flush, or two reconnections, never both send one.                   *)
THEOREM ChecklistOneRequest == Spec => []OneRequestPerTap
<1>1. Sound => OneRequestPerTap
  BY DEF Sound
<1> QED
  BY <1>1, ChecklistSound, PTL

-----------------------------------------------------------------------------
(* Convergence.  A tap is owed while the API has its flip before it, and   *)
(* nothing will send it once more or lose it: a request that the page has  *)
(* the answer of is still to commit, or the tap waits in a call of toggle  *)
(* or in the queue.  For an item without an accident, the device and the   *)
(* API differ exactly when the number of taps owed is odd.                 *)

Clean(t) == tap[t].item \notin accident

Removing(t) == flush.pc = "removing" /\ Head(flush.rest) = t

Confirmed(t) == \E p \in Post :
    post[p].tap = t /\ post[p].client = "waiting" /\ post[p].pc = "committed"

Pledged(t) == \E p \in Post : post[p].tap = t /\ post[p].client = "answered"

Kept(t) ==
    /\ tap[t].stage \in {"posting", "queueing", "queued"}
    /\ ~Removing(t) /\ ~Confirmed(t)

OwedTap(t) == Pledged(t) \/ Kept(t)

Owed(i) == {t \in Tap : tap[t].item = i /\ OwedTap(t)}

Even(S) == Cardinality(S) % 2 = 0

Parity == \A i \in Item \ accident : (stored[i] = checked[i]) <=> Even(Owed(i))

Answers ==
    /\ \A p \in Post : post[p].client = "answered" =>
          /\ post[p].pc = "read"
          /\ Clean(post[p].tap) =>
                tap[post[p].tap].stage = "settled" \/ Removing(post[p].tap)
    /\ \A p, q \in Post :
          /\ post[p].client = "answered" /\ post[q].client = "answered"
          /\ post[p].tap = post[q].tap /\ Clean(post[p].tap)
          => p = q
    /\ page = "hydrated" => screen = stored

Agreement == Sound /\ Answers /\ Parity

(* Parity of the sets of taps owed.                                        *)
LEMMA EvenFlips ==
  ASSUME NEW S \in SUBSET Tap, NEW t \in Tap
  PROVE  /\ t \notin S => (Even(S \cup {t}) <=> ~Even(S))
         /\ t \in S => (Even(S \ {t}) <=> ~Even(S))
<1>1. IsFiniteSet(S)
  <2>1. IsFiniteSet(Tap)
    BY FS_Interval, ChecklistAssumption DEF Tap
  <2> QED
    BY <2>1, FS_Subset
<1> DEFINE n == Cardinality(S)
<1>2. n \in Nat
  BY <1>1, FS_CardinalityType
<1>3. t \notin S => Cardinality(S \cup {t}) = n + 1
  BY <1>1, FS_AddElement
<1>4. t \in S => Cardinality(S \ {t}) = n - 1
  BY <1>1, FS_RemoveElement
<1>5. t \in S => n # 0
  BY <1>1, FS_EmptySet
<1> DEFINE more == Cardinality(S \cup {t})
           less == Cardinality(S \ {t})
<1>6. Even(S) <=> (n % 2) = 0
  BY DEF Even
<1>7. Even(S \cup {t}) <=> (more % 2) = 0
  BY DEF Even
<1>8. Even(S \ {t}) <=> (less % 2) = 0
  BY DEF Even
<1> HIDE DEF n, more, less
<1>9. t \notin S => ((more % 2) = 0 <=> ~((n % 2) = 0))
  BY <1>2, <1>3 DEF more
<1>10. t \in S => ((less % 2) = 0 <=> ~((n % 2) = 0))
  BY <1>2, <1>4, <1>5 DEF less
<1> QED
  BY <1>6, <1>7, <1>8, <1>9, <1>10

LEMMA FreePostFields ==
  FreePost.client = "gone" /\ FreePost.pc = "free" /\ FreePost.tap \notin Tap
  BY ChecklistAssumption DEF FreePost, Tap, NoTap

(* A tap that an action does not concern is owed as before.                *)
LEMMA OwedElsewhere ==
  ASSUME NEW t \in Tap, NEW p,
         \A q \in Post : q # p => post'[q] = post[q],
         post[p].tap # t, post'[p].tap # t,
         tap'[t].stage = tap[t].stage,
         Removing(t)' <=> Removing(t)
  PROVE  OwedTap(t)' <=> OwedTap(t)
<1>1. Pledged(t)' <=> Pledged(t)
  BY DEF Pledged
<1>2. Confirmed(t)' <=> Confirmed(t)
  BY DEF Confirmed
<1> QED
  BY <1>1, <1>2 DEF OwedTap, Kept

(* A request that is waited for, of a clean tap, is the tap's only one.    *)
LEMMA CleanWaiting ==
  ASSUME Sound, Answers, NEW p \in Post, post[p].client = "waiting",
         Clean(post[p].tap)
  PROVE  /\ post[p].tap \in Tap
         /\ ~Pledged(post[p].tap) /\ ~Removing(post[p].tap)
         /\ tap[post[p].tap].stage \in {"posting", "queued"}
         /\ OwedTap(post[p].tap) <=> post[p].pc # "committed"
<1> DEFINE t == post[p].tap
<1>1. t \in Tap
  BY WaitingIsBusy
<1>2. ~Removing(t) /\ tap[t].stage \in {"posting", "queued"}
  <2>1. CASE OfFlush(p)
    BY <2>1, FlushTypes DEF OfFlush, Removing, Sound, Flushing
  <2>2. CASE ~OfFlush(p)
    <3>1. tap[t].stage = "posting"
      BY <2>2 DEF Sound, Requests
    <3> QED
      BY <3>1, FlushTypes DEF Removing
  <2> QED
    BY <2>1, <2>2
<1>3. ~Pledged(t)
  BY <1>2 DEF Pledged, Answers
<1>4. Confirmed(t) <=> post[p].pc = "committed"
  BY DEF Confirmed, Sound, OneRequestPerTap
<1> QED
  BY <1>1, <1>2, <1>3, <1>4 DEF OwedTap, Kept

(* Steps after which every clean tap is owed as before keep the parity.    *)
LEMMA ParityKept ==
  ASSUME Agreement, UNCHANGED <<checked, stored>>, accident \subseteq accident',
         \A t \in Tap : tap'[t].item = tap[t].item,
         \A t \in Tap : tap[t].item \notin accident' => (OwedTap(t)' <=> OwedTap(t))
  PROVE  Parity'
<1> SUFFICES ASSUME NEW i \in Item \ accident'
             PROVE  (stored'[i] = checked'[i]) <=> Even(Owed(i))'
  BY DEF Parity
<1>1. Owed(i)' = Owed(i)
  BY DEF Owed
<1>2. (stored[i] = checked[i]) <=> Even(Owed(i))
  BY DEF Agreement, Parity
<1> QED
  BY <1>1, <1>2 DEF Even

LEMMA AnswersKept ==
  ASSUME Agreement, accident \subseteq accident',
         \A q \in Post : post'[q].client = "answered" =>
             /\ post[q].client = "answered"
             /\ post'[q].pc = "read" /\ post'[q].tap = post[q].tap,
         \A t \in Tap : tap[t].stage # "unused" => tap'[t].item = tap[t].item,
         \A t \in Tap :
             tap[t].item \notin accident' /\ (tap[t].stage = "settled" \/ Removing(t))
             => tap'[t].stage = "settled" \/ Removing(t)',
         page' = "hydrated" => screen' = stored'
  PROVE  Answers'
<1>1. \A q \in Post : post[q].client = "answered" =>
        post[q].tap \in Tap /\ tap[post[q].tap].stage # "unused"
  BY WaitingIsBusy DEF Agreement, Sound, Requests
<1>2. \A q \in Post : post'[q].client = "answered" =>
        /\ post[q].client = "answered" /\ post'[q].tap = post[q].tap
        /\ post[q].tap \in Tap
        /\ Clean(post[q].tap)' =>
              Clean(post[q].tap) /\ tap[post[q].tap].item \notin accident'
  BY <1>1 DEF Clean
<1>3. \A q \in Post : post'[q].client = "answered" =>
        /\ post'[q].pc = "read"
        /\ Clean(post[q].tap)' =>
              tap'[post'[q].tap].stage = "settled" \/ Removing(post[q].tap)'
  BY <1>2 DEF Agreement, Answers
<1>4. \A p, q \in Post :
        /\ post'[p].client = "answered" /\ post'[q].client = "answered"
        /\ post'[p].tap = post'[q].tap /\ Clean(post[p].tap)'
        => p = q
  BY <1>2 DEF Agreement, Answers
<1> QED
  BY <1>3, <1>4 DEF Answers

LEMMA ReadAgrees ==
  ASSUME Agreement, NEW p \in Post, ServeRead(p)
  PROVE  Answers' /\ Parity'
<1>1. Sound /\ Answers
  BY DEF Agreement
<1>2. /\ \A q \in Post : q # p => post'[q] = post[q]
      /\ post[p].pc = "sent" /\ post'[p].pc = "read"
      /\ post'[p].client = post[p].client /\ post'[p].tap = post[p].tap
      /\ UNCHANGED <<checked, stored, page, screen, tap, flush, accident>>
  BY <1>1, ReadEffect
<1>3. post[p].client # "answered"
  BY <1>1, <1>2 DEF Answers
<1>4. \A t \in Tap : (Removing(t)' <=> Removing(t))
  BY <1>2 DEF Removing
<1>5. \A t \in Tap : OwedTap(t)' <=> OwedTap(t)
  <2> TAKE t \in Tap
  <2>1. Pledged(t)' <=> Pledged(t)
    BY <1>2 DEF Pledged
  <2>2. Confirmed(t)' <=> Confirmed(t)
    BY <1>2 DEF Confirmed
  <2> QED
    BY <1>2, <1>4, <2>1, <2>2 DEF OwedTap, Kept
<1>6. \A q \in Post : post'[q].client = "answered" =>
        post[q].client = "answered" /\ post'[q] = post[q] /\ post[q].pc = "read"
  BY <1>1, <1>2, <1>3 DEF Answers
<1>7. Answers'
  BY <1>1, <1>2, <1>4, <1>6, AnswersKept DEF Answers
<1>8. Parity'
  BY <1>2, <1>5, ParityKept
<1> QED
  BY <1>7, <1>8

(* An answer never comes from a request that has ended.                    *)
LEMMA EndAnswers ==
  ASSUME Agreement, NEW p \in Post, NEW pc \in {"committed", "failed"},
         post[p].pc # "free", Put(p, [post[p] EXCEPT !.pc = pc]),
         UNCHANGED <<stored, page, screen, tap, flush>>, accident \subseteq accident'
  PROVE  Answers'
<1>1. Sound /\ Answers
  BY DEF Agreement
<1>2. /\ \A q \in Post : q # p => post'[q] = post[q]
      /\ post'[p].client # "answered"
  <2>1. /\ \A q \in Post : q # p => post'[q] = post[q]
        /\ post[p].client # "waiting" => post'[p] = FreePost
        /\ post[p].client = "waiting" => post'[p].client = "waiting"
    BY <1>1, EndEffect
  <2> QED
    BY <2>1, FreePostFields
<1>3. \A t \in Tap : (Removing(t)' <=> Removing(t))
  BY DEF Removing
<1>4. \A q \in Post : post'[q].client = "answered" =>
        post[q].client = "answered" /\ post'[q] = post[q] /\ post[q].pc = "read"
  BY <1>1, <1>2 DEF Answers
<1> QED
  BY <1>1, <1>3, <1>4, AnswersKept DEF Answers

LEMMA FailAgrees ==
  ASSUME Agreement, NEW p \in Post, ServeFail(p)
  PROVE  Answers' /\ Parity'
<1>1. Sound /\ Answers
  BY DEF Agreement
<1>2. /\ post[p].pc \in {"sent", "read"} /\ Put(p, [post[p] EXCEPT !.pc = "failed"])
      /\ accident' = IF post[p].client = "answered"
                     THEN accident \cup {ItemOf(p)} ELSE accident
      /\ UNCHANGED <<checked, stored, queue, page, screen, tap, flush, online, closes>>
  BY DEF ServeFail
<1>3. Answers'
  BY <1>2, EndAnswers
<1>4. /\ \A q \in Post : q # p => post'[q] = post[q]
      /\ post[p].client # "waiting" => post'[p] = FreePost
      /\ post[p].client = "waiting" =>
            post'[p].pc = "failed" /\ post'[p].client = "waiting"
            /\ post'[p].tap = post[p].tap
  BY <1>1, <1>2, EndEffect
<1>5. ASSUME NEW t \in Tap, tap[t].item \notin accident'
      PROVE  OwedTap(t)' <=> OwedTap(t)
  <2>1. post[p].client = "answered" => post[p].tap # t
    BY <1>2, <1>5 DEF ItemOf
  <2>2. Pledged(t)' <=> Pledged(t)
    BY <1>4, <2>1, FreePostFields DEF Pledged
  <2>3. Confirmed(t)' <=> Confirmed(t)
    BY <1>2, <1>4, FreePostFields DEF Confirmed
  <2> QED
    BY <1>2, <2>2, <2>3 DEF OwedTap, Kept, Removing
<1>6. Parity'
  BY <1>2, <1>5, ParityKept
<1> QED
  BY <1>3, <1>6

(* The commit flips the item's tick and settles one tap that was owed.     *)
LEMMA CommitAgrees ==
  ASSUME Agreement, NEW p \in Post, ServeCommit(p)
  PROVE  Answers' /\ Parity'
<1>1. Sound /\ Answers /\ Parity
  BY DEF Agreement
<1>2. ItemOf(p) \in Item /\ post[p].tap \in Tap
  BY <1>1, ItemIsItem DEF ServeCommit
<1>3. PICK t \in Tap, i \in Item : t = post[p].tap /\ i = ItemOf(p)
  BY <1>2
<1>4. /\ post[p].pc = "read" /\ Put(p, [post[p] EXCEPT !.pc = "committed"])
      /\ checked' = [checked EXCEPT ![i] = ~post[p].val]
      /\ accident' = IF checked[i] # post[p].val \/ post[p].client = "gone"
                     THEN accident \cup {i} ELSE accident
      /\ UNCHANGED <<stored, queue, page, screen, tap, flush, online, closes>>
  BY <1>3 DEF ServeCommit
<1>5. Answers'
  BY <1>4, EndAnswers
<1>6. /\ \A q \in Post : q # p => post'[q] = post[q]
      /\ post[p].client # "waiting" => post'[p] = FreePost
      /\ post[p].client = "waiting" =>
            post'[p].pc = "committed" /\ post'[p].client = "waiting" /\ post'[p].tap = t
  BY <1>1, <1>4, <1>3, EndEffect
<1>7. i \in Item /\ t \in Tap /\ i = tap[t].item /\ post[p].val \in BOOLEAN
      /\ checked \in [Item -> BOOLEAN] /\ stored \in [Item -> BOOLEAN]
      /\ post[p].client \in {"waiting", "answered", "gone"} /\ t = post[p].tap
  BY <1>1, <1>4, <1>3, ItemIsItem DEF Sound, TypeOK, PostRow, ItemOf
<1>8. \A k \in Tap : k # t => (OwedTap(k)' <=> OwedTap(k))
  <2>1. \A k \in Tap : k # t => post'[p].tap # k
    BY <1>6, FreePostFields, <1>7
  <2> QED
    BY <1>4, <1>6, <1>7, <2>1, OwedElsewhere DEF Removing
<1>9. ASSUME i \notin accident' PROVE OwedTap(t) /\ ~OwedTap(t)'
  <2>1. Clean(t) /\ post[p].client # "gone"
    BY <1>4, <1>7, <1>9 DEF Clean
  <2>2. CASE post[p].client = "waiting"
    <3>1. OwedTap(t) /\ ~Pledged(t)
      BY <1>1, <1>4, <1>7, <2>1, <2>2, CleanWaiting
    <3>2. Confirmed(t)'
      BY <1>6, <1>7, <2>2 DEF Confirmed
    <3>3. ~Pledged(t)'
      BY <1>6, <2>2, <3>1 DEF Pledged
    <3> QED
      BY <3>1, <3>2, <3>3 DEF OwedTap, Kept
  <2>3. CASE post[p].client = "answered"
    <3>1. OwedTap(t)
      BY <1>7, <2>3 DEF OwedTap, Pledged
    <3>2. ~Pledged(t)'
      BY <1>1, <1>6, <1>7, <2>1, <2>3, FreePostFields DEF Answers, Pledged
    <3>3. tap[t].stage = "settled" \/ Removing(t)
      BY <1>1, <1>7, <2>1, <2>3 DEF Answers
    <3>4. ~Kept(t)'
      BY <1>4, <3>3 DEF Kept, Removing
    <3> QED
      BY <3>1, <3>2, <3>4 DEF OwedTap
  <2> QED
    BY <1>7, <2>1, <2>2, <2>3
<1>10. ASSUME NEW j \in Item \ accident'
      PROVE  (stored'[j] = checked'[j]) <=> Even(Owed(j))'
  <2>1. (stored[j] = checked[j]) <=> Even(Owed(j))
    BY <1>1, <1>4, <1>10 DEF Parity
  <2>2. CASE j # i
    <3>1. Owed(j)' = Owed(j)
      BY <1>4, <1>7, <1>8, <2>2 DEF Owed
    <3>2. checked'[j] = checked[j] /\ stored'[j] = stored[j]
      BY <1>4, <1>7, <2>2
    <3> QED
      BY <2>1, <3>1, <3>2 DEF Even
  <2>3. CASE j = i
    <3>1. Owed(j)' = Owed(j) \ {t} /\ t \in Owed(j)
      BY <1>4, <1>7, <1>8, <1>9, <1>10, <2>3 DEF Owed
    <3>2. Owed(j) \in SUBSET Tap
      BY DEF Owed
    <3>3. Even(Owed(j))' <=> ~Even(Owed(j))
      BY <1>7, <3>1, <3>2, EvenFlips DEF Even
    <3>4. (stored'[j] = checked'[j]) <=> ~(stored[j] = checked[j])
      <4>1. post[p].val = checked[j]
        BY <1>4, <1>10, <2>3
      <4>2. checked'[j] = ~checked[j] /\ stored'[j] = stored[j]
        BY <1>4, <1>7, <2>3, <4>1
      <4>3. checked[j] \in BOOLEAN /\ stored[j] \in BOOLEAN
        BY <1>7
      <4> QED
        BY <4>2, <4>3
    <3> QED
      BY <2>1, <3>3, <3>4
  <2> QED
    BY <2>2, <2>3
<1> QED
  BY <1>5, <1>10 DEF Parity

(* The page gets an answer: the tap is settled, or about to be removed.    *)
LEMMA AnswerAgrees ==
  ASSUME Agreement, NEW p \in Post, NEW t \in Tap, t = post[p].tap,
         post[p].client = "waiting", post[p].pc \in {"read", "committed"},
         Put(p, [post[p] EXCEPT !.client = "answered"]),
         UNCHANGED <<checked, stored, page, screen, accident>>,
         \A k \in Tap : k # t => tap'[k] = tap[k] /\ (Removing(k)' <=> Removing(k)),
         tap'[t].item = tap[t].item,
         tap'[t].stage = "settled" \/ Removing(t)'
  PROVE  Answers' /\ Parity'
<1>1. Sound /\ Answers
  BY DEF Agreement
<1>2. /\ \A q \in Post : q # p => post'[q] = post[q]
      /\ post[p].pc = "committed" => post'[p] = FreePost
      /\ post[p].pc = "read" =>
            post'[p].pc = "read" /\ post'[p].client = "answered" /\ post'[p].tap = t
  BY <1>1, LeaveEffect
<1>3. ~Kept(t)'
  BY DEF Kept
<1>4. Clean(t) => ~Pledged(t) /\ (OwedTap(t) <=> post[p].pc # "committed")
  BY <1>1, CleanWaiting
<1>5. \A k \in Tap : k # t => (OwedTap(k)' <=> OwedTap(k))
  <2>1. \A k \in Tap : k # t => post'[p].tap # k
    BY <1>2, FreePostFields
  <2> QED
    BY <1>2, <2>1, OwedElsewhere
<1>6. ASSUME Clean(t) PROVE OwedTap(t)' <=> OwedTap(t)
  <2>1. CASE post[p].pc = "committed"
    <3>1. ~Pledged(t)'
      BY <1>2, <1>4, <1>6, <2>1, FreePostFields DEF Pledged
    <3> QED
      BY <1>3, <1>4, <1>6, <2>1, <3>1 DEF OwedTap
  <2>2. CASE post[p].pc = "read"
    <3>1. Pledged(t)'
      BY <1>2, <2>2 DEF Pledged
    <3> QED
      BY <1>4, <1>6, <2>2, <3>1 DEF OwedTap
  <2> QED
    BY <2>1, <2>2
<1>7. Parity'
  BY <1>5, <1>6, ParityKept DEF Clean
<1>8. \A q \in Post : post'[q].client = "answered" =>
        /\ post'[q].pc = "read"
        /\ q = p => post'[q].tap = t
        /\ q # p => /\ post'[q] = post[q] /\ post[q].tap \in Tap
                    /\ Clean(post[q].tap) => post[q].tap # t
  <2>1. \A q \in Post : q # p /\ post'[q].client = "answered" =>
          post'[q] = post[q] /\ post[q].tap \in Tap /\ post[q].pc = "read"
    BY <1>1, <1>2, WaitingIsBusy DEF Answers
  <2>2. \A q \in Post : post[q].client = "answered" /\ Clean(t) => post[q].tap # t
    BY <1>4 DEF Pledged
  <2> QED
    BY <1>2, <2>1, <2>2, FreePostFields
<1>9. \A q \in Post : post'[q].client = "answered" =>
        /\ post'[q].pc = "read"
        /\ Clean(post[q].tap)' =>
              tap'[post'[q].tap].stage = "settled" \/ Removing(post[q].tap)'
  BY <1>1, <1>8 DEF Answers, Clean
<1>10. \A q, r \in Post :
        (/\ post'[q].client = "answered" /\ post'[r].client = "answered"
         /\ post'[q].tap = post'[r].tap /\ Clean(post[q].tap)')
        => q = r
  BY <1>1, <1>8 DEF Answers, Clean
<1>11. page' = "hydrated" => screen' = stored'
  BY <1>1 DEF Answers
<1> QED
  BY <1>7, <1>9, <1>10, <1>11 DEF Answers

(* The page gives a request up: the tap is, or will be, in the queue.      *)
LEMMA GiveUpAgrees ==
  ASSUME Agreement, NEW p \in Post, NEW t \in Tap, t = post[p].tap,
         post[p].client = "waiting",
         Put(p, [post[p] EXCEPT !.client = "gone"]),
         accident' = IF post[p].pc = "committed"
                     THEN accident \cup {ItemOf(p)} ELSE accident,
         UNCHANGED <<checked, stored, page, screen>>,
         \A k \in Tap : k # t => tap'[k] = tap[k] /\ (Removing(k)' <=> Removing(k)),
         tap'[t].item = tap[t].item,
         tap'[t].stage \in {"queueing", "queued"}, ~Removing(t)'
  PROVE  Answers' /\ Parity'
<1>1. Sound /\ Answers
  BY DEF Agreement
<1>2. /\ \A q \in Post : q # p => post'[q] = post[q]
      /\ post[p].pc \in {"committed", "failed"} => post'[p] = FreePost
      /\ post[p].pc \notin {"committed", "failed"} =>
            post'[p].client = "gone" /\ post'[p].tap = t
  BY <1>1, LeaveEffect
<1>3. post'[p].client = "gone"
  BY <1>2, FreePostFields
<1>4. Clean(t) =>
        /\ ~Pledged(t) /\ ~Removing(t) /\ tap[t].stage \in {"posting", "queued"}
        /\ OwedTap(t) <=> post[p].pc # "committed"
  BY <1>1, CleanWaiting
<1>5. \A k \in Tap : k # t => (OwedTap(k)' <=> OwedTap(k))
  <2>1. \A k \in Tap : k # t => post'[p].tap # k
    BY <1>2, FreePostFields
  <2> QED
    BY <1>2, <2>1, OwedElsewhere
<1>6. ASSUME tap[t].item \notin accident' PROVE OwedTap(t)' /\ OwedTap(t)
  <2>1. Clean(t) /\ post[p].pc # "committed"
    BY <1>6 DEF Clean, ItemOf
  <2>2. ~Confirmed(t)'
    BY <1>1, <1>2, <1>3 DEF Confirmed, Sound, OneRequestPerTap
  <2> QED
    BY <1>4, <2>1, <2>2 DEF OwedTap, Kept
<1>7. Parity'
  <2>1. \A k \in Tap : tap'[k].item = tap[k].item
    OBVIOUS
  <2>2. \A k \in Tap : tap[k].item \notin accident' => (OwedTap(k)' <=> OwedTap(k))
    BY <1>5, <1>6
  <2> QED
    BY <2>1, <2>2, ParityKept
<1>8. Answers'
  <2>1. \A q \in Post : post'[q].client = "answered" =>
          post[q].client = "answered" /\ post'[q].pc = "read" /\ post'[q].tap = post[q].tap
    BY <1>1, <1>2, <1>3 DEF Answers
  <2>2. \A k \in Tap :
          tap[k].item \notin accident' /\ (tap[k].stage = "settled" \/ Removing(k))
          => tap'[k].stage = "settled" \/ Removing(k)'
    BY <1>4 DEF Clean
  <2>3. page' = "hydrated" => screen' = stored'
    BY <1>1 DEF Answers
  <2> QED
    BY <2>1, <2>2, <2>3, AnswersKept
<1> QED
  BY <1>7, <1>8

LEMMA TapAwaitsAgrees ==
  ASSUME Agreement, NEW p \in Post, Sent(p) \/ NotSent(p)
  PROVE  Answers' /\ Parity'
<1>1. Sound
  BY DEF Agreement
<1>2. OfTap(p) /\ post[p].client = "waiting"
  BY DEF Sent, NotSent, OfTap
<1>3. PICK t \in Tap : t = post[p].tap
  BY <1>1, <1>2, WaitingIsBusy
<1>4. \A k \in Tap : Removing(k)' <=> Removing(k)
  BY DEF Sent, NotSent, Removing
<1>5. CASE Sent(p)
  <2>1. /\ tap' = [tap EXCEPT ![post[p].tap].stage = "settled"]
        /\ Put(p, [post[p] EXCEPT !.client = "answered"])
        /\ post[p].pc \in {"read", "committed"}
        /\ UNCHANGED <<checked, stored, page, screen, accident>>
    BY <1>5 DEF Sent
  <2>2. /\ \A k \in Tap : k # t => tap'[k] = tap[k]
        /\ tap'[t].item = tap[t].item /\ tap'[t].stage = "settled"
    BY <1>1, <1>3, <2>1, StageEffect DEF Sound, TypeOK, Stage
  <2> QED
    BY <1>2, <1>3, <1>4, <2>1, <2>2, AnswerAgrees
<1>6. CASE NotSent(p)
  <2>1. /\ tap' = [tap EXCEPT ![post[p].tap].stage = "queueing"]
        /\ Put(p, [post[p] EXCEPT !.client = "gone"])
        /\ accident' = IF post[p].pc = "committed"
                       THEN accident \cup {ItemOf(p)} ELSE accident
        /\ UNCHANGED <<checked, stored, page, screen>>
    BY <1>6 DEF NotSent
  <2>2. /\ \A k \in Tap : k # t => tap'[k] = tap[k]
        /\ tap'[t].item = tap[t].item /\ tap'[t].stage = "queueing"
    BY <1>1, <1>3, <2>1, StageEffect DEF Sound, TypeOK, Stage
  <2>3. ~Removing(t)'
    <3>1. tap[t].stage = "posting"
      BY <1>1, <1>2, <1>3 DEF Sound, Requests, OfTap, OfFlush
    <3> QED
      BY <1>1, <1>4, <3>1, FlushTypes DEF Removing
  <2> QED
    BY <1>2, <1>3, <1>4, <2>1, <2>2, <2>3, GiveUpAgrees
<1> QED
  BY <1>5, <1>6

LEMMA FlushAwaitsAgrees ==
  ASSUME Agreement, NEW p \in Post, Replayed(p) \/ NotReplayed(p)
  PROVE  Answers' /\ Parity'
<1>1. Sound
  BY DEF Agreement
<1>2. flush.pc = "posting" /\ flush.post = p /\ tap' = tap
  BY DEF Replayed, NotReplayed
<1>3. post[p].client = "waiting" /\ post[p].tap = Head(flush.rest)
  BY <1>1, <1>2 DEF Sound, Flushing
<1>4. PICK t \in Tap : t = post[p].tap
  BY <1>1, <1>3, WaitingIsBusy
<1>5. t = Head(flush.rest) /\ tap[t].stage = "queued" /\ flush \in FlushRow
      /\ \A k \in Tap : ~Removing(k)
  BY <1>1, <1>2, <1>3, <1>4, FlushTypes DEF Removing
<1>6. CASE Replayed(p)
  <2>1. /\ flush' = [flush EXCEPT !.pc = "removing", !.post = NoPost]
        /\ Put(p, [post[p] EXCEPT !.client = "answered"])
        /\ post[p].pc \in {"read", "committed"}
        /\ UNCHANGED <<checked, stored, page, screen, accident>>
    BY <1>6 DEF Replayed
  <2>2. flush'.pc = "removing" /\ flush'.rest = flush.rest
    BY <1>5, <2>1 DEF FlushRow
  <2>3. \A k \in Tap : Removing(k)' <=> k = t
    BY <1>5, <2>2 DEF Removing
  <2> QED
    BY <1>2, <1>3, <1>4, <1>5, <2>1, <2>3, AnswerAgrees
<1>7. CASE NotReplayed(p)
  <2>1. /\ flush' = NoFlush
        /\ Put(p, [post[p] EXCEPT !.client = "gone"])
        /\ accident' = IF post[p].pc = "committed"
                       THEN accident \cup {ItemOf(p)} ELSE accident
        /\ UNCHANGED <<checked, stored, page, screen>>
    BY <1>7 DEF NotReplayed
  <2>2. \A k \in Tap : ~Removing(k)'
    BY <2>1 DEF Removing, NoFlush
  <2> QED
    BY <1>2, <1>3, <1>4, <1>5, <2>1, <2>2, GiveUpAgrees
<1> QED
  BY <1>6, <1>7

(* Steps that neither answer nor serve a request, and lose no tap.         *)
SentOrSame(q) ==
    \/ post'[q] = post[q]
    \/ /\ post[q].client # "answered" /\ post[q].pc = "free"
       /\ post'[q].client = "waiting" /\ post'[q].pc = "sent"

MovedOrSame(t) ==
    /\ \/ tap'[t] = tap[t]
       \/ tap[t].stage = "queueing" /\ tap'[t].stage = "queued"
       \/ Removing(t) /\ tap'[t].stage = "settled"
    /\ tap'[t].item = tap[t].item
    /\ Removing(t)' <=> (Removing(t) /\ tap'[t] = tap[t])

LEMMA QuietAgrees ==
  ASSUME Agreement, UNCHANGED <<checked, stored, accident>>,
         \A q \in Post : SentOrSame(q), \A t \in Tap : MovedOrSame(t),
         page' = "hydrated" => screen' = stored'
  PROVE  Answers' /\ Parity'
<1>1. Sound /\ Answers
  BY DEF Agreement
<1>2. \A q \in Post : post'[q].client = "answered" =>
        post[q].client = "answered" /\ post'[q] = post[q] /\ post[q].pc = "read"
  BY <1>1 DEF Answers, SentOrSame
<1>3. \A t \in Tap : Removing(t) => tap[t].stage = "queued"
  BY <1>1, FlushTypes DEF Removing
<1>4. ASSUME NEW t \in Tap PROVE OwedTap(t)' <=> OwedTap(t)
  <2>1. Pledged(t)' <=> Pledged(t)
    BY DEF Pledged, SentOrSame
  <2>2. Confirmed(t)' <=> Confirmed(t)
    <3>1. \A q \in Post : post[q].pc = "committed" => post'[q] = post[q]
      BY DEF SentOrSame
    <3>2. \A q \in Post : post'[q].pc = "committed" => post'[q] = post[q]
      BY DEF SentOrSame
    <3> QED
      BY <3>1, <3>2 DEF Confirmed
  <2>3. Kept(t)' <=> Kept(t)
    BY <1>3, <2>2 DEF Kept, MovedOrSame
  <2> QED
    BY <2>1, <2>3 DEF OwedTap
<1>5. Parity'
  BY <1>4, ParityKept DEF MovedOrSame
<1>6. \A t \in Tap : tap[t].stage = "settled" \/ Removing(t)
        => tap'[t].stage = "settled" \/ Removing(t)'
  BY <1>3 DEF MovedOrSame
<1>7. Answers'
  BY <1>2, <1>6, AnswersKept DEF MovedOrSame
<1> QED
  BY <1>5, <1>7

LEMMA EnqueueAgrees ==
  ASSUME Agreement, NEW t \in Tap, Enqueue(t)
  PROVE  Answers' /\ Parity'
<1>1. Sound /\ Answers
  BY DEF Agreement
<1>2. /\ tap[t].stage = "queueing" /\ tap' = [tap EXCEPT ![t].stage = "queued"]
      /\ UNCHANGED <<checked, stored, page, screen, flush, post, accident>>
  BY DEF Enqueue
<1>3. /\ tap'[t].stage = "queued" /\ tap'[t].item = tap[t].item
      /\ \A k \in Tap : k # t => tap'[k] = tap[k]
  BY <1>1, <1>2, StageEffect DEF Sound, TypeOK, Stage
<1>4. \A k \in Tap : Removing(k)' <=> (Removing(k) /\ tap'[k] = tap[k])
  <2>1. \A k \in Tap : Removing(k) => k # t
    BY <1>1, <1>2, FlushTypes DEF Removing
  <2> QED
    BY <1>2, <1>3, <2>1 DEF Removing
<1>5. page' = "hydrated" => screen' = stored'
  BY <1>1, <1>2 DEF Answers
<1> QED
  <2>1. \A q \in Post : SentOrSame(q)
    BY <1>2 DEF SentOrSame
  <2>2. \A k \in Tap : MovedOrSame(k)
    BY <1>2, <1>3, <1>4 DEF MovedOrSame
  <2> QED
    BY <1>2, <1>5, <2>1, <2>2, QuietAgrees

LEMMA PageAgrees ==
  ASSUME Agreement, FlushRead \/ GoOffline \/ GoOnline \/ Open \/ Hydrate
  PROVE  Answers' /\ Parity'
<1>1. Sound /\ Answers
  BY DEF Agreement
<1>2. UNCHANGED <<checked, stored, tap, post, accident>>
  BY DEF FlushRead, GoOffline, GoOnline, Open, Hydrate
<1>3. \A t \in Tap : Removing(t)' <=> Removing(t)
  <2>1. CASE FlushRead
    <3>1. queue \in Seq(Tap)
      BY <1>1 DEF Sound, TypeOK
    <3>2. flush.pc = "reading" /\ flush'.pc \in {"idle", "next"}
      BY <2>1, <3>1, LoopFields DEF FlushRead
    <3> QED
      BY <3>2 DEF Removing
  <2>2. CASE GoOffline \/ GoOnline \/ Open \/ Hydrate
    <3>1. flush' = flush \/ flush' = Started
      BY <2>2 DEF GoOffline, GoOnline, Open, Hydrate
    <3>2. flush' = flush \/ (flush.pc = "idle" /\ flush'.pc = "reading")
      BY <1>1, <3>1, StartedFields DEF Sound, TypeOK
    <3> QED
      BY <3>2 DEF Removing
  <2> QED
    BY <2>1, <2>2
<1>4. page' = "hydrated" => screen' = stored'
  BY <1>1 DEF Answers, FlushRead, GoOffline, GoOnline, Open, Hydrate
<1> QED
  <2>1. \A q \in Post : SentOrSame(q)
    BY <1>2 DEF SentOrSame
  <2>2. \A t \in Tap : MovedOrSame(t)
    BY <1>2, <1>3 DEF MovedOrSame
  <2> QED
    BY <1>2, <1>4, <2>1, <2>2, QuietAgrees

LEMMA FlushPostAgrees ==
  ASSUME Agreement, FlushPost
  PROVE  Answers' /\ Parity'
<1>1. Sound /\ Answers
  BY DEF Agreement
<1>2. PICK p \in Post :
        Send(Head(flush.rest), p) /\ flush' = [flush EXCEPT !.pc = "posting", !.post = p]
  BY DEF FlushPost
<1>3. /\ flush.pc = "next"
      /\ UNCHANGED <<checked, stored, page, screen, tap, accident>>
  BY DEF FlushPost
<1>4. Head(flush.rest) \in Tap /\ flush \in FlushRow
  BY <1>1, <1>3, FlushTypes
<1>5. /\ post[p].pc = "free" /\ post'[p].pc = "sent" /\ post'[p].client = "waiting"
      /\ \A q \in Post : q # p => post'[q] = post[q]
  <2> DEFINE t == Head(flush.rest)
  <2>1. t \in Tap /\ Send(t, p)
    BY <1>2, <1>4
  <2> HIDE DEF t
  <2> QED
    BY <1>1, <2>1, SendEffect DEF Sound, TypeOK
<1>6. post[p].client # "answered"
  BY <1>1, <1>5 DEF Answers
<1>7. flush'.pc = "posting"
  BY <1>2, <1>4 DEF FlushRow
<1>8. \A t \in Tap : Removing(t)' <=> Removing(t)
  BY <1>3, <1>7 DEF Removing
<1>9. page' = "hydrated" => screen' = stored'
  BY <1>1, <1>3 DEF Answers
<1> QED
  <2>1. \A q \in Post : SentOrSame(q)
    BY <1>5, <1>6 DEF SentOrSame
  <2>2. \A t \in Tap : MovedOrSame(t)
    BY <1>3, <1>8 DEF MovedOrSame
  <2> QED
    BY <1>3, <1>9, <2>1, <2>2, QuietAgrees

LEMMA FlushRemoveAgrees ==
  ASSUME Agreement, FlushRemove
  PROVE  Answers' /\ Parity'
<1>1. Sound /\ Answers
  BY DEF Agreement
<1>2. flush.pc = "removing"
  BY DEF FlushRemove
<1>3. /\ Head(flush.rest) \in Tap /\ tap[Head(flush.rest)].stage = "queued"
      /\ flush.rest \in Seq(Tap) /\ Distinct(flush.rest) /\ flush.rest # <<>>
  BY <1>1, <1>2, FlushTypes DEF Sound, Queued, Flushing
<1>4. PICK t \in Tap : t = Head(flush.rest)
  BY <1>3
<1>5. /\ tap' = [tap EXCEPT ![t].stage = "settled"]
      /\ flush' = Loop(Tail(flush.rest))
      /\ UNCHANGED <<checked, stored, page, screen, post, accident>>
  BY <1>4 DEF FlushRemove
<1>6. /\ tap'[t].stage = "settled" /\ tap'[t].item = tap[t].item
      /\ \A k \in Tap : k # t => tap'[k] = tap[k]
  BY <1>1, <1>5, StageEffect DEF Sound, TypeOK, Stage
<1>7. flush'.pc \in {"idle", "next"}
  BY <1>3, <1>5, TailKeeps, LoopFields
<1>8. \A k \in Tap : Removing(k)' <=> (Removing(k) /\ tap'[k] = tap[k])
  BY <1>2, <1>3, <1>4, <1>6, <1>7 DEF Removing
<1>9. Removing(t)
  BY <1>2, <1>4 DEF Removing
<1>10. page' = "hydrated" => screen' = stored'
  BY <1>1, <1>5 DEF Answers
<1> QED
  <2>1. \A q \in Post : SentOrSame(q)
    BY <1>5 DEF SentOrSame
  <2>2. \A k \in Tap : MovedOrSame(k)
    BY <1>6, <1>8, <1>9 DEF MovedOrSame
  <2> QED
    BY <1>5, <1>10, <2>1, <2>2, QuietAgrees

(* What the page has not exposed is settled or in the queue.               *)
LEMMA CloseAgrees ==
  ASSUME Agreement, Close
  PROVE  Answers' /\ Parity'
<1>1. Sound /\ Answers
  BY DEF Agreement
<1>2. /\ accident' = accident \cup Exposed /\ flush' = NoFlush /\ page' = "closed"
      /\ UNCHANGED <<checked, stored>>
  BY DEF Close
<1>3. /\ \A t \in Tap : tap[t].stage \in {"posting", "queueing"} =>
            tap'[t].stage = "gone" /\ tap'[t].item = tap[t].item
      /\ \A t \in Tap : tap[t].stage \notin {"posting", "queueing"} => tap'[t] = tap[t]
      /\ \A q \in Post : post[q].client # "waiting" => post'[q] = post[q]
      /\ \A q \in Post : post[q].client = "waiting" => post'[q].client = "gone"
  BY <1>1, CloseEffect
<1>4. ASSUME NEW t \in Tap, tap[t].item \notin accident'
      PROVE  /\ tap[t].stage \notin {"posting", "queueing"}
             /\ ~Removing(t) /\ ~Confirmed(t)
  <2>1. tap[t].stage \notin {"posting", "queueing"}
    BY <1>2, <1>4 DEF Exposed
  <2>2. ~Removing(t)
    BY <1>2, <1>4 DEF Exposed, Removing
  <2>3. ASSUME NEW p \in Post, post[p].tap = t, post[p].client = "waiting",
               post[p].pc = "committed"
        PROVE  FALSE
    <3>1. CASE OfFlush(p)
      BY <1>2, <1>4, <2>3, <3>1 DEF Exposed, OfFlush, ItemOf
    <3>2. CASE ~OfFlush(p)
      BY <1>1, <2>1, <2>3, <3>2 DEF Sound, Requests
    <3> QED
      BY <3>1, <3>2
  <2> QED
    BY <2>1, <2>2, <2>3 DEF Confirmed
<1>5. \A t \in Tap : ~Removing(t)'
  BY <1>2 DEF Removing, NoFlush
<1>6. ASSUME NEW t \in Tap, tap[t].item \notin accident'
      PROVE  OwedTap(t)' <=> OwedTap(t)
  <2>1. Pledged(t)' <=> Pledged(t)
    BY <1>3 DEF Pledged
  <2>2. ~Confirmed(t)'
    BY <1>3 DEF Confirmed
  <2>3. Kept(t)' <=> Kept(t)
    BY <1>3, <1>4, <1>5, <1>6, <2>2 DEF Kept
  <2> QED
    BY <2>1, <2>3 DEF OwedTap
<1>7. \A t \in Tap : tap'[t].item = tap[t].item
  BY <1>3
<1>8. Parity'
  BY <1>2, <1>6, <1>7, ParityKept
<1>9. Answers'
  <2>1. \A q \in Post : post'[q].client = "answered" =>
          post[q].client = "answered" /\ post'[q] = post[q] /\ post[q].pc = "read"
    BY <1>1, <1>3 DEF Answers
  <2>2. \A t \in Tap :
          tap[t].item \notin accident' /\ (tap[t].stage = "settled" \/ Removing(t))
          => tap'[t].stage = "settled" \/ Removing(t)'
    BY <1>3, <1>4
  <2> QED
    BY <1>2, <1>7, <2>1, <2>2, AnswersKept
<1> QED
  BY <1>8, <1>9

(* A tap flips what the device keeps and is owed from then on.             *)
LEMMA TouchAgrees ==
  ASSUME Agreement, NEW i \in Item, Touch(i)
  PROVE  Answers' /\ Parity'
<1>1. Sound /\ Answers /\ Parity
  BY DEF Agreement
<1>2. PICK t \in Tap :
        /\ Unused(t)
        /\ \/ /\ tap' = [tap EXCEPT ![t] = [stage |-> "posting", item |-> i]]
              /\ \E p \in Post : Send(t, p)
           \/ /\ tap' = [tap EXCEPT ![t] = [stage |-> "queueing", item |-> i]]
              /\ UNCHANGED post
  BY DEF Touch
<1>3. /\ UNCHANGED <<checked, queue, page, flush, online, closes>>
      /\ screen' = [screen EXCEPT ![i] = ~screen[i]]
      /\ stored' = [stored EXCEPT ![i] = ~screen[i]]
      /\ accident' = IF page # "hydrated" THEN accident \cup {i} ELSE accident
  BY DEF Touch, Shown
<1>4. /\ screen \in [Item -> BOOLEAN] /\ stored \in [Item -> BOOLEAN]
      /\ checked \in [Item -> BOOLEAN]
      /\ tap \in [Tap -> TapRow] /\ tap[t].stage = "unused"
  BY <1>1, <1>2 DEF Sound, TypeOK, Unused
<1>5. /\ \A k \in Tap : k # t => tap'[k] = tap[k]
      /\ tap'[t].stage \in {"posting", "queueing"} /\ tap'[t].item = i
  BY <1>2, <1>4
<1>6. \A q \in Post :
        \/ post'[q] = post[q]
        \/ /\ post[q].pc = "free" /\ post'[q].pc = "sent"
           /\ post'[q].tap = t /\ post'[q].client = "waiting"
  <2>1. CASE UNCHANGED post
    BY <2>1
  <2>2. ASSUME NEW p \in Post, Send(t, p)
        PROVE  /\ post[p].pc = "free" /\ \A q \in Post : q # p => post'[q] = post[q]
               /\ post'[p].pc = "sent" /\ post'[p].client = "waiting" /\ post'[p].tap = t
    BY <1>1, <2>2, SendEffect DEF Sound, TypeOK
  <2>3. CASE \E p \in Post : Send(t, p)
    BY <2>2, <2>3
  <2> QED
    BY <1>2, <2>1, <2>3
<1>7. \A q \in Post : post[q].client \in {"waiting", "answered"} =>
        post[q].pc # "free" /\ post[q].tap # t
  BY <1>1, <1>4, WaitingIsBusy DEF Sound, Requests
<1>8. \A k \in Tap : Removing(k)' <=> Removing(k)
  BY <1>3 DEF Removing
<1>9. ~Removing(t)
  BY <1>1, <1>4, FlushTypes DEF Removing
<1>10. ASSUME NEW k \in Tap, k # t PROVE OwedTap(k)' <=> OwedTap(k)
  <2>1. Pledged(k)' <=> Pledged(k)
    BY <1>6, <1>7 DEF Pledged
  <2>2. Confirmed(k)' <=> Confirmed(k)
    <3>1. \A q \in Post : post[q].pc = "committed" => post'[q] = post[q]
      BY <1>6
    <3>2. \A q \in Post : post'[q].pc = "committed" => post'[q] = post[q]
      BY <1>6
    <3> QED
      BY <3>1, <3>2 DEF Confirmed
  <2> QED
    BY <1>5, <1>8, <1>10, <2>1, <2>2 DEF OwedTap, Kept
<1>11. ~OwedTap(t) /\ OwedTap(t)'
  <2>1. ~OwedTap(t)
    BY <1>4, <1>7 DEF OwedTap, Pledged, Kept
  <2>2. ~Confirmed(t)'
    BY <1>6, <1>7 DEF Confirmed
  <2> QED
    BY <1>5, <1>8, <1>9, <2>1, <2>2 DEF OwedTap, Kept
<1>12. ASSUME NEW j \in Item \ accident'
       PROVE  (stored'[j] = checked'[j]) <=> Even(Owed(j))'
  <2>1. (stored[j] = checked[j]) <=> Even(Owed(j))
    BY <1>1, <1>3, <1>12 DEF Parity
  <2>2. CASE j # i
    <3>1. Owed(j)' = Owed(j)
      BY <1>5, <1>10, <1>11, <2>2 DEF Owed
    <3>2. checked'[j] = checked[j] /\ stored'[j] = stored[j]
      BY <1>3, <1>4, <2>2
    <3> QED
      BY <2>1, <3>1, <3>2 DEF Even
  <2>3. CASE j = i
    <3>1. Owed(j)' = Owed(j) \cup {t} /\ t \notin Owed(j)
      BY <1>5, <1>10, <1>11, <2>3 DEF Owed
    <3>2. Owed(j) \in SUBSET Tap
      BY DEF Owed
    <3>3. Even(Owed(j))' <=> ~Even(Owed(j))
      BY <3>1, <3>2, EvenFlips DEF Even
    <3>4. (stored'[j] = checked'[j]) <=> ~(stored[j] = checked[j])
      <4>1. screen = stored
        BY <1>1, <1>3, <1>12, <2>3 DEF Answers
      <4>2. stored'[j] = ~stored[j] /\ checked'[j] = checked[j]
        BY <1>3, <1>4, <2>3, <4>1
      <4>3. checked[j] \in BOOLEAN /\ stored[j] \in BOOLEAN
        BY <1>4
      <4> QED
        BY <4>2, <4>3
    <3> QED
      BY <2>1, <3>3, <3>4
  <2> QED
    BY <2>2, <2>3
<1>13. Answers'
  <2>1. \A q \in Post : post'[q].client = "answered" =>
          post[q].client = "answered" /\ post'[q] = post[q] /\ post[q].pc = "read"
    BY <1>1, <1>6 DEF Answers
  <2>2. \A k \in Tap : tap[k].stage # "unused" => tap'[k].item = tap[k].item
    BY <1>4, <1>5
  <2>3. \A k \in Tap : tap[k].stage = "settled" \/ Removing(k)
          => tap'[k].stage = "settled" \/ Removing(k)'
    BY <1>4, <1>5, <1>8
  <2>4. page' = "hydrated" => screen' = stored'
    BY <1>1, <1>3, <1>4 DEF Answers
  <2>5. accident \subseteq accident'
    BY <1>3
  <2> QED
    BY <2>1, <2>2, <2>3, <2>4, <2>5, AnswersKept
<1> QED
  BY <1>12, <1>13 DEF Parity

LEMMA AgreementInit ==
  ASSUME Init
  PROVE  Agreement
<1>1. /\ \A p \in Post : post[p] = FreePost
      /\ flush = NoFlush /\ page = "closed" /\ stored = Nothing /\ checked = Nothing
      /\ \A t \in Tap : tap[t].stage = "unused"
  BY DEF Init
<1>2. Answers
  BY <1>1, FreePostFields DEF Answers
<1>3. \A t \in Tap : ~OwedTap(t)
  BY <1>1, FreePostFields DEF OwedTap, Pledged, Kept
<1>4. \A i \in Item : Owed(i) = {}
  BY <1>3 DEF Owed
<1>5. Even({})
  BY FS_EmptySet DEF Even
<1>6. Parity
  BY <1>1, <1>4, <1>5 DEF Parity
<1> QED
  BY <1>2, <1>6, SoundInit DEF Agreement

LEMMA AgreementStep ==
  ASSUME Agreement, [Next]_vars
  PROVE  Agreement'
<1>1. Sound /\ Answers /\ Parity
  BY DEF Agreement
<1>2. Sound'
  BY <1>1, SoundStep
<1>3. CASE \E p \in Post : Serve(p)
  BY <1>2, <1>3, ReadAgrees, CommitAgrees, FailAgrees DEF Serve, Agreement
<1>4. CASE Toggle
  BY <1>2, <1>4, TouchAgrees, TapAwaitsAgrees, EnqueueAgrees DEF Toggle, Agreement
<1>5. CASE Flush
  BY <1>2, <1>5, PageAgrees, FlushPostAgrees, FlushRemoveAgrees, FlushAwaitsAgrees
     DEF Flush, Agreement
<1>6. CASE Device
  BY <1>2, <1>6, PageAgrees, CloseAgrees DEF Device, Agreement
<1>7. CASE UNCHANGED vars
  <2>1. page' = "hydrated" => screen' = stored'
    BY <1>1, <1>7 DEF vars, Answers
  <2> QED
    <3>1. UNCHANGED <<checked, stored, accident, tap, post, flush>>
      BY <1>7 DEF vars
    <3>2. \A q \in Post : SentOrSame(q)
      BY <3>1 DEF SentOrSame
    <3>3. \A t \in Tap : MovedOrSame(t)
      BY <3>1 DEF MovedOrSame, Removing
    <3> QED
      BY <1>2, <2>1, <3>1, <3>2, <3>3, QuietAgrees DEF Agreement
<1> QED
  BY <1>3, <1>4, <1>5, <1>6, <1>7 DEF Next

(* Whenever nothing is under way, the API and the device have the same     *)
(* tick for every item without an accident: the flips sent by toggle and   *)
(* by flush, failed and repeated in any order, are each applied once.      *)
THEOREM ChecklistConverges == Spec => []Converges
<1>1. Init => Agreement
  BY AgreementInit
<1>2. Agreement /\ [Next]_vars => Agreement'
  BY AgreementStep
<1>3. Agreement => Converges
  <2> SUFFICES ASSUME Agreement, Quiet, NEW i \in Item \ accident
               PROVE  stored[i] = checked[i]
    BY DEF Converges
  <2>1. \A t \in Tap : ~OwedTap(t)
    BY DEF Agreement, Answers, Quiet, OwedTap, Pledged, Kept
  <2>2. Owed(i) = {}
    BY <2>1 DEF Owed
  <2>3. Even(Owed(i))
    BY <2>2, FS_EmptySet DEF Even
  <2> QED
    BY <2>3 DEF Agreement, Parity
<1> QED
  BY <1>1, <1>2, <1>3, PTL DEF Spec

=============================================================================
