------------------------------- MODULE Proxy --------------------------------
(***************************************************************************)
(* The caching proxy mains/proxy.go in front of etcd.  net/http runs       *)
(* handleRequests in a goroutine per batch; all share the cache and the    *)
(* timestamps with their two heaps.  Each of these has a mutex of its own, *)
(* so a step is one call on one of them, or a handler's work in between.   *)
(***************************************************************************)
EXTENDS LruCache, MinHeap, FiniteSetsExt

CONSTANTS
    Handlers,    \* batches ever posted, one goroutine each
    Batches,     \* by handler, what it may be posted: the requests and the time
    RealKeys, Dummies,
    Rids,        \* names of clients that answers go to
    Versions,    \* contents of values, "old" for those etcd begins with
    InEtcd,      \* keys that etcd has a value for
    BatchSize,
    MaxTime,     \* bound: the last second of the clock
    MaxFailures, \* bound: calls of etcd that fail
    Blank        \* the empty key, a missing value

DummyCount == BatchSize \div 2
Keys == RealKeys \cup Dummies

\* A value knows the key it was written for.
Values == Keys \X Versions
Requests ==
    {r \in [rid : Rids, op : STRING, key : Keys \cup {Blank}, val : Values \cup {Blank}] :
        r.key # Blank /\ r.val # Blank => r.val[1] = r.key}

ASSUME ProxyAssumption ==
    /\ IsFiniteSet(Handlers) /\ IsFiniteSet(Dummies)
    /\ \A h \in Handlers : Batches[h] \subseteq [at : Nat, requests : Seq(Requests)]
    /\ InEtcd \subseteq Keys /\ BatchSize \in Nat /\ "old" \in Versions
    /\ MaxTime \in Nat /\ MaxFailures \in Nat
    /\ Blank \notin Keys \cup Values /\ Nil \notin Keys
    \* A hash of a key and a time is no key.
    /\ \A k \in Keys, t \in 0 .. MaxTime : <<k, t>> \notin Keys

VARIABLES
    cache,        \* the LRU cache
    timestamps, realObjects, dummyObjects,  \* bst: a map and its two heaps
    etcd,         \* the values etcd holds, by key or index
    clock,        \* time in seconds, never the 0 of a key not asked for yet
    me,           \* the local variables of every handler, see Idle
    recency,      \* history: cached keys by last use
    failures      \* history: calls of etcd that failed

bst  == <<timestamps, realObjects, dummyObjects>>
vars == <<cache, timestamps, realObjects, dummyObjects, etcd, clock, me, recency, failures>>

InitialValue(k) == <<k, "old">>

Idle ==
    [pc         |-> "idle",
     batch      |-> << >>,  \* the requests it was posted
     ts         |-> 0,      \* timestamp
     todo       |-> << >>,  \* requests not gone through yet
     cliResp    |-> << >>,  \* answers by rid
     dedupReqs  |-> << >>,  \* requests by key that the cache could not serve
     left       |-> {},     \* keys a loop over a map has not reached
     readBatch  |-> {},     \* keys to fetch
     slots      |-> 0,      \* iterations left of a loop that fills the batch
     held       |-> Blank,  \* a key popped from its heap and not put back yet
     responses  |-> << >>,  \* what etcd answered, by key
     writeBatch |-> << >>]  \* what to write to etcd, by index

Init ==
    /\ cache = EmptyCache /\ recency = << >>
    /\ timestamps = [k \in Dummies |-> 0]
    /\ realObjects = << >>
    /\ dummyObjects = FoldLeft(LAMBDA h, k : Insert(h, 0, k), << >>, SetToSeq(Dummies))
    /\ etcd = [k \in InEtcd |-> InitialValue(k)]
    /\ clock = 1 /\ failures = 0
    /\ me = [h \in Handlers |-> Idle]

(***************************************************************************)
(* BSTHeap.  A PopMin, which takes a heap's mutex only, may fall between   *)
(* the two assignments of SetTimestamp; it then counts as before both.     *)
(***************************************************************************)
AddTo(kind, t, k) ==
    IF kind = "real" THEN realObjects' = Insert(realObjects, t, k) /\ UNCHANGED dummyObjects
    ELSE dummyObjects' = Insert(dummyObjects, t, k) /\ UNCHANGED realObjects

SetTimestamp(k, t, kind) ==
    /\ timestamps' = With(timestamps, k, t)
    /\ AddTo(kind, t, k)

AddObject(k, kind) ==
    SetTimestamp(k, IF k \in DOMAIN timestamps THEN timestamps[k] ELSE 0, kind)

Heap(kind) == IF kind = "real" THEN realObjects ELSE dummyObjects

RemoveMin(kind) ==
    /\ UNCHANGED timestamps
    /\ IF kind = "real" THEN realObjects' = AfterPop(realObjects) /\ UNCHANGED dummyObjects
       ELSE dummyObjects' = AfterPop(dummyObjects) /\ UNCHANGED realObjects

(***************************************************************************)
(* The cache, with the order of use that its list must keep.               *)
(***************************************************************************)
CacheUse(k) ==
    /\ cache' = MoveToHead(cache, k)
    /\ recency' = Used(recency, k)

CachePut(k, v) ==
    /\ cache' = Put(cache, k, v)
    /\ LET order == Used(recency, k)
       IN  recency' = IF Len(order) > Capacity THEN Dropped(order) ELSE order

CacheEvict ==
    /\ cache' = Evict(cache)
    /\ recency' = IF recency = << >> THEN << >> ELSE Dropped(recency)

Extend(f, x, e) == With(f, x, IF x \in DOMAIN f THEN Append(f[x], e) ELSE <<e>>)

(***************************************************************************)
(* handleRequests, first loop: the requests in order.                      *)
(***************************************************************************)
Reads(r)  == r.key # Blank /\ r.op = "read"
Writes(r) == r.key # Blank /\ r.op = "write" /\ r.val # Blank

Filling == {"dummies", "real", "more"}
Missing(m) == Max({0, BatchSize - Cardinality(m.readBatch)})

\* From a loop that has ended to the next: the requests, stamping the missed
\* keys, filling the batch with dummies, real keys and more dummies.
NextLoop(m) ==
    LET filled == m.pc \in Filling /\ m.slots = 0 /\ m.held = Blank
    IN  CASE m.pc = "request" /\ m.todo = << >> ->
                 [m EXCEPT !.pc = "stamp", !.left = DOMAIN m.dedupReqs]
          [] m.pc = "stamp" /\ m.left = {} -> [m EXCEPT !.pc = "dummies", !.slots = DummyCount]
          [] m.pc = "dummies" /\ filled    -> [m EXCEPT !.pc = "real", !.slots = Missing(m)]
          [] m.pc = "real" /\ filled       -> [m EXCEPT !.pc = "more", !.slots = Missing(m)]
          [] m.pc = "more" /\ filled       -> [m EXCEPT !.pc = "fetch"]
          [] OTHER -> m

\* A handler's new locals; going through up to five ended loops is no step.
Go(h, local) == me' = [me EXCEPT ![h] = FoldLeft(LAMBDA m, i : NextLoop(m), local, <<1, 2, 3, 4, 5>>)]

Receive(h, b) ==
    /\ me[h].pc = "idle"
    /\ b.at \in clock .. MaxTime /\ clock' = b.at
    /\ Go(h, [me[h] EXCEPT !.pc = "request", !.ts = b.at, !.batch = b.requests, !.todo = b.requests])
    /\ UNCHANGED <<cache, recency, bst, etcd, failures>>

At(h, place) == me[h].pc = place
Request(h)   == Head(me[h].todo)

\* Requests without a key, or that write nothing.
Skip(h) ==
    /\ At(h, "request") /\ ~Reads(Request(h)) /\ ~Writes(Request(h))
    /\ Go(h, [me[h] EXCEPT !.todo = Tail(@)])
    /\ UNCHANGED <<cache, recency, bst, etcd, clock, failures>>

Missed(h, needResp) ==
    Extend(me[h].dedupReqs, Request(h).key, [rid |-> Request(h).rid, needResp |-> needResp])

ReadRequest(h) ==
    /\ At(h, "request") /\ Reads(Request(h))
    /\ LET r == Request(h)
       IN  IF r.key \in CachedKeys(cache)
           THEN /\ CacheUse(r.key)
                /\ Go(h, [me[h] EXCEPT !.pc = "object", !.cliResp = Extend(@, r.rid, Value(cache, r.key))])
           ELSE /\ Go(h, [me[h] EXCEPT !.pc = "object", !.dedupReqs = Missed(h, TRUE)])
                /\ UNCHANGED <<cache, recency>>
    /\ UNCHANGED <<bst, etcd, clock, failures>>

WriteRequest(h) ==
    /\ At(h, "request") /\ Writes(Request(h))
    /\ Go(h, [me[h] EXCEPT !.pc = "put",
                           !.dedupReqs = IF Request(h).key \in CachedKeys(cache) THEN @ ELSE Missed(h, FALSE)])
    /\ UNCHANGED <<cache, recency, bst, etcd, clock, failures>>

WritePut(h) ==
    /\ At(h, "put")
    /\ CachePut(Request(h).key, Request(h).val)
    /\ Go(h, [me[h] EXCEPT !.pc = "object"])
    /\ UNCHANGED <<bst, etcd, clock, failures>>

Register(h) ==
    /\ At(h, "object")
    /\ AddObject(Request(h).key, "real")
    /\ Go(h, [me[h] EXCEPT !.pc = "request", !.todo = Tail(@)])
    /\ UNCHANGED <<cache, recency, etcd, clock, failures>>

(***************************************************************************)
(* Filling the batch: the missed keys, dummies, real keys, more dummies.   *)
(***************************************************************************)
StampMissed(h, k) ==
    /\ At(h, "stamp") /\ k \in me[h].left
    /\ SetTimestamp(k, me[h].ts, "real")
    /\ Go(h, [me[h] EXCEPT !.left = @ \ {k}, !.readBatch = @ \cup {k}])
    /\ UNCHANGED <<cache, recency, etcd, clock, failures>>

Kind(h) == IF At(h, "real") THEN "real" ELSE "dummy"

Pop(h) ==
    /\ me[h].pc \in Filling /\ me[h].slots > 0 /\ me[h].held = Blank
    /\ IF Heap(Kind(h)) = << >>
       THEN Go(h, [me[h] EXCEPT !.slots = @ - 1]) /\ UNCHANGED bst
       ELSE /\ RemoveMin(Kind(h))
            /\ Go(h, [me[h] EXCEPT !.held = Heap(Kind(h))[1][2]])
    /\ UNCHANGED <<cache, recency, etcd, clock, failures>>

\* Mutant: a key the cache holds is not put back.
RestampUncached(h) ==
    /\ me[h].pc \in Filling /\ me[h].held # Blank
    /\ IF Kind(h) = "real" /\ me[h].held \in CachedKeys(cache) THEN UNCHANGED bst
       ELSE SetTimestamp(me[h].held, me[h].ts, Kind(h))
    /\ IF Kind(h) = "real"
       THEN Go(h, [me[h] EXCEPT !.pc = "check"])
       ELSE Go(h, [me[h] EXCEPT !.held = Blank, !.slots = @ - 1, !.readBatch = @ \cup {me[h].held}])
    /\ UNCHANGED <<cache, recency, etcd, clock, failures>>
Restamp(h) ==
    /\ me[h].pc \in Filling /\ me[h].held # Blank
    /\ SetTimestamp(me[h].held, me[h].ts, Kind(h))
    /\ IF Kind(h) = "real"
       THEN Go(h, [me[h] EXCEPT !.pc = "check"])
       ELSE Go(h, [me[h] EXCEPT !.held = Blank, !.slots = @ - 1, !.readBatch = @ \cup {me[h].held}])
    /\ UNCHANGED <<cache, recency, etcd, clock, failures>>

\* A real key is fetched unless the cache has it.
CheckCache(h) ==
    /\ At(h, "check")
    /\ Go(h, [me[h] EXCEPT !.pc = "real", !.held = Blank, !.slots = @ - 1,
                           !.readBatch = @ \cup ({me[h].held} \ CachedKeys(cache))])
    /\ UNCHANGED <<cache, recency, bst, etcd, clock, failures>>

(***************************************************************************)
(* etcd, and what becomes of its answers.                                  *)
(***************************************************************************)
Fail(failed, calls) ==
    /\ failed \subseteq calls
    /\ failures' = failures + Cardinality(failed) /\ failures' <= MaxFailures

\* One goroutine per key; wg.Wait ends the step.  A failed call only logs.
\* Only the answers for missed keys are looked at again.
Fetch(h, failed) ==
    /\ At(h, "fetch")
    /\ Fail(failed, me[h].readBatch)
    /\ LET asked == me[h].readBatch \cap DOMAIN me[h].dedupReqs
       IN  Go(h, [me[h] EXCEPT !.pc = "respond", !.readBatch = {},
                               !.responses = [k \in (asked \cap DOMAIN etcd) \ failed |-> etcd[k]]])
    /\ UNCHANGED <<cache, recency, bst, etcd, clock>>

Index(h, k) == <<k, me[h].ts>>
Unless(f, k) == [x \in DOMAIN f \ {k} |-> f[x]]

\* Mutant: the requests that want no answer get one, too.
AnswerEach(resp, asked) == Extend(resp, asked.rid, asked.val)
Answer(resp, asked) == IF asked.needResp THEN Extend(resp, asked.rid, asked.val) ELSE resp

AnswerAll(resp, reqs, v) ==
    FoldLeft(Answer, resp, [i \in DOMAIN reqs |-> [rid |-> reqs[i].rid, needResp |-> reqs[i].needResp, val |-> v]])

\* The answer for k goes to its requests.  A real key takes the place of the
\* last key of the cache, which leaves for etcd.
Respond(h, k) ==
    /\ At(h, "respond") /\ k \in DOMAIN me[h].responses
    /\ LET last  == cache.tail
           answered == AnswerAll(me[h].cliResp, me[h].dedupReqs[k], me[h].responses[k])
       IN  IF k \in RealKeys
           THEN /\ CacheEvict
                /\ Go(h, [me[h] EXCEPT !.pc = "refill", !.held = k, !.cliResp = answered,
                       !.writeBatch = IF last = Nil THEN @ ELSE With(@, Index(h, last), Value(cache, last))])
           ELSE /\ Go(h, [me[h] EXCEPT !.responses = Unless(@, k), !.cliResp = answered,
                                       !.writeBatch = With(@, Index(h, k), Blank)])
                /\ UNCHANGED <<cache, recency>>
    /\ UNCHANGED <<bst, etcd, clock, failures>>

Refill(h) ==
    /\ At(h, "refill")
    /\ CachePut(me[h].held, me[h].responses[me[h].held])
    /\ Go(h, [me[h] EXCEPT !.pc = "respond", !.held = Blank, !.responses = Unless(@, me[h].held)])
    /\ UNCHANGED <<bst, etcd, clock, failures>>

\* The calls share the deadline of the fetches.  The handler then returns.
Write(h, failed) ==
    /\ At(h, "respond") /\ me[h].responses = << >>
    /\ Fail(failed, DOMAIN me[h].writeBatch)
    /\ LET written == DOMAIN me[h].writeBatch \ failed
       IN  etcd' = [i \in DOMAIN etcd \cup written |-> IF i \in written THEN me[h].writeBatch[i] ELSE etcd[i]]
    /\ me' = [me EXCEPT ![h] = [Idle EXCEPT !.pc = "done", !.batch = me[h].batch,
                                            !.dedupReqs = me[h].dedupReqs,
                                            !.cliResp = me[h].cliResp]]
    /\ UNCHANGED <<cache, recency, bst, clock>>

Next ==
    \E h \in Handlers :
       \/ \E b \in Batches[h] : Receive(h, b)
       \/ Skip(h) \/ ReadRequest(h) \/ WriteRequest(h) \/ WritePut(h) \/ Register(h)
       \/ Pop(h) \/ Restamp(h) \/ CheckCache(h)
       \/ \E k \in me[h].left : StampMissed(h, k)
       \/ \E failed \in SUBSET me[h].readBatch : Fetch(h, failed)
       \/ \E k \in DOMAIN me[h].responses : Respond(h, k)
       \/ \E failed \in SUBSET DOMAIN me[h].writeBatch : Write(h, failed)
       \/ Refill(h)

Spec == Init /\ [][Next]_vars

-----------------------------------------------------------------------------
\* Whatever order the handlers' Gets, Puts and Evicts come in, the list links
\* exactly the cached keys, forwards and backwards, in order of last use, and
\* no more of them than the capacity.
CacheKeepsOrderOfUse ==
    /\ Follow(cache, cache.head, "next") = recency
    /\ Follow(cache, cache.tail, "prev") = Reverse(recency)
    /\ CachedKeys(cache) = ToSet(recency) /\ Len(recency) <= Capacity

\* Both heaps are in heap order, so PopMin takes the oldest entry.
HeapsOrdered == IsHeap(realObjects) /\ IsHeap(dummyObjects)

\* No key drops out of the rotation: each that has a timestamp has a heap
\* entry with that timestamp, or a handler has just popped it and puts it back.
EveryKeyScheduled ==
    \A k \in DOMAIN timestamps :
        \/ <<timestamps[k], k>> \in ToSet(realObjects) \cup ToSet(dummyObjects)
        \/ \E h \in Handlers : me[h].held = k /\ me[h].pc \in Filling

\* The entries that handler h has added to the heap of real keys: one for each
\* request gone through, and one for each missed key that it has stamped.
GoneThrough(h) ==
    {i \in 1 .. Len(me[h].batch) - Len(me[h].todo) : Reads(me[h].batch[i]) \/ Writes(me[h].batch[i])}
Stamped(h) ==
    IF me[h].pc \in {"idle", "request", "put", "object"} THEN {}
    ELSE DOMAIN me[h].dedupReqs \ me[h].left
EntriesAdded(h) == ({<<h, "request">>} \X GoneThrough(h)) \cup ({<<h, "missed">>} \X Stamped(h))

\* The handlers that have popped an entry of a kind and not put it back.
Holding(kind) ==
    {h \in Handlers : me[h].pc \in Filling /\ me[h].held # Blank /\ Kind(h) = kind}

\* No entry is lost or doubled, whichever handlers pop and insert in turn: there
\* is one for each dummy for ever, and the heap of real keys grows by what is
\* added and never shrinks.  (A second entry for a key makes it come up twice.)
EntriesAccounted ==
    /\ Len(dummyObjects) + Cardinality(Holding("dummy")) = Cardinality(Dummies)
    /\ Len(realObjects) + Cardinality(Holding("real")) =
           Cardinality(UNION {EntriesAdded(h) : h \in Handlers})

ReadsOf(h, rid) == {i \in DOMAIN me[h].batch : Reads(me[h].batch[i]) /\ me[h].batch[i].rid = rid}
AnswersTo(h, rid) == IF rid \in DOMAIN me[h].cliResp THEN me[h].cliResp[rid] ELSE << >>

\* A finished batch holds, under every rid, one answer for each of its reads
\* (fewer only if etcd has no value or could not be asked), each of them a
\* value of a key that rid reads.
ReadsAnsweredOnce ==
    \A h \in Handlers : me[h].pc = "done" =>
        \A rid \in {r.rid : r \in ToSet(me[h].batch)} :
            LET reads == ReadsOf(h, rid)
                sure  == {i \in reads : me[h].batch[i].key \in InEtcd}
            IN  /\ Len(AnswersTo(h, rid)) <= Cardinality(reads)
                /\ failures = 0 => Len(AnswersTo(h, rid)) >= Cardinality(sure)
                /\ \A v \in ToSet(AnswersTo(h, rid)) : \E i \in reads : v[1] = me[h].batch[i].key
=============================================================================
