----------------------------- MODULE GatewayProofs -----------------------------
(***************************************************************************)
(* What TLAPS proves of the two gateways for every set of batches, items   *)
(* and ids: whatever the store behind a gateway does, its handlers lose no *)
(* entry and answer no batch before it is complete, and the answers of     *)
(* plaintext.go are exactly what etcd acknowledged.  And secure.go, with   *)
(* the EMM server behind it, answers with the last writes.                 *)
(***************************************************************************)
EXTENDS Gateways, FiniteSetTheorems, TLAPS

\* What a gateway may do, with any end of any call.
GNext ==
    \/ \E b \in Batches : Receive(b) \/ Handler(b)
    \/ \E t \in Items : Goroutine(t) \/ \E o \in {"entry", "silent"} : Deliver(t, o)
    \/ GCrash

\* Exactly the supported items that the loop has passed have a goroutine.
Started ==
    \A b \in Batches :
        /\ pos[b] <= Len(batch[b])
        /\ phase[b] \in {"wait", "returned"} => pos[b] = Len(batch[b])
        /\ phase[b] # "broken" =>
              \A n \in 1 .. Len(batch[b]) :
                  task[batch[b][n]] # "none" <=> n <= pos[b] /\ batch[b][n] \notin skipped

\* The WaitGroup counts the goroutines that are at work.
Counted == \A b \in Batches : wg[b] = Cardinality(Running(b))

\* Nothing of a batch is at work once it is answered, and nothing is appended.
Settled ==
    \A b \in Batches :
        /\ phase[b] = "returned" => Running(b) = {} /\ answer[b] = resp[b]
        /\ phase[b] = "broken" => \A t \in InBatch(b) : task[t] = "quit"

\* Whoever is between Lock and Unlock holds the mutex of its batch.
Locked ==
    \A t \in Items : task[t] \in {"locked", "read", "written"} => mu[BatchOf(t)] = t

\* What a goroutine has read for its append is still what the map holds.
Fresh ==
    \A t \in Items : task[t] = "read" => read[t] = resp[BatchOf(t)][rid[t]]

\* The inductive invariant behind NoLostEntry and AnswerIsComplete.
GInv == GTypeOK /\ Started /\ Counted /\ Settled /\ Locked /\ Fresh /\ NoLostEntry
-----------------------------------------------------------------------------
\* Every item belongs to one place of one batch.
LEMMA Places ==
  ASSUME GTypeOK
  PROVE  /\ \A b \in Batches : batch[b] \in Seq(Items) /\ InBatch(b) \subseteq Items
         /\ \A b \in Batches : InBatch(b) = {batch[b][n] : n \in 1 .. Len(batch[b])}
         /\ \A t \in Items : BatchOf(t) \in Batches /\ t \in InBatch(BatchOf(t))
         /\ \A b \in Batches, t \in Items : t \in InBatch(b) => BatchOf(t) = b
         /\ \A b \in Batches : \A m, n \in 1 .. Len(batch[b]) :
               batch[b][m] = batch[b][n] => m = n
<1>1. batch \in [Batches -> Seq(Items)]
  <2>1. Cardinality(Items) \in Nat
    BY GatewayAssumption, FS_CardinalityType
  <2>2. \A n \in 0 .. Cardinality(Items) : [1 .. n -> Items] \subseteq Seq(Items)
    BY <2>1
  <2>3. UNION {[1 .. n -> Items] : n \in 0 .. Cardinality(Items)} \subseteq Seq(Items)
    BY <2>2
  <2>4. batch \in [Batches -> UNION {[1 .. n -> Items] : n \in 0 .. Cardinality(Items)}]
    BY DEF GTypeOK, Bodies
  <2>. QED
    BY <2>3, <2>4
<1>2. \A b \in Batches : DOMAIN batch[b] = 1 .. Len(batch[b])
  BY <1>1
<1>3. \A t \in Items : \E b \in Batches : \E n \in DOMAIN batch[b] :
         /\ batch[b][n] = t
         /\ \A c \in Batches : \A m \in DOMAIN batch[c] :
               batch[c][m] = t => c = b /\ m = n
  BY DEF GTypeOK, Bodies
<1>4. \A b \in Batches : InBatch(b) = {batch[b][n] : n \in 1 .. Len(batch[b])}
  BY <1>2 DEF InBatch
<1>5. \A b \in Batches : InBatch(b) \subseteq Items
  BY <1>1, <1>4
<1>6. \A t \in Items : BatchOf(t) \in Batches /\ t \in InBatch(BatchOf(t))
  BY <1>3 DEF InBatch, BatchOf
<1>7. \A b \in Batches, t \in Items : t \in InBatch(b) => BatchOf(t) = b
  <2> SUFFICES ASSUME NEW b \in Batches, NEW t \in Items, t \in InBatch(b)
               PROVE  BatchOf(t) = b
    OBVIOUS
  <2>1. \A c \in Batches : t \in InBatch(c) => c = b
    BY <1>3 DEF InBatch
  <2>. QED
    BY <1>6, <2>1
<1>8. \A b \in Batches : \A m, n \in 1 .. Len(batch[b]) :
         batch[b][m] = batch[b][n] => m = n
  <2> SUFFICES ASSUME NEW b \in Batches, NEW m \in 1 .. Len(batch[b]),
                      NEW n \in 1 .. Len(batch[b]), batch[b][m] = batch[b][n]
               PROVE  m = n
    OBVIOUS
  <2>1. batch[b][m] \in Items /\ m \in DOMAIN batch[b] /\ n \in DOMAIN batch[b]
    BY <1>1, <1>2
  <2>. QED
    BY <1>3, <2>1
<1>. QED
  BY <1>1, <1>4, <1>5, <1>6, <1>7, <1>8

\* A step leaves the request as it is, and with it the place of every item.
LEMMA Fixed ==
  ASSUME UNCHANGED request
  PROVE  /\ \A b : InBatch(b)' = InBatch(b)
         /\ \A t : BatchOf(t)' = BatchOf(t)
BY DEF request, InBatch, BatchOf

\* The goroutines at work are finitely many.
LEMMA RunningFinite ==
  ASSUME GTypeOK, NEW b \in Batches
  PROVE  /\ Running(b) \subseteq Items
         /\ IsFiniteSet(Running(b)) /\ Cardinality(Running(b)) \in Nat
         /\ Cardinality(Running(b)) = 0 <=> Running(b) = {}
<1>1. Running(b) \subseteq Items
  BY Places DEF Running
<1>. QED
  BY <1>1, GatewayAssumption, FS_Subset, FS_CardinalityType, FS_EmptySet
-----------------------------------------------------------------------------
\* Every step of either program is a step of the gateway, or leaves it alone.
LEMMA SecureSteps ==
  ASSUME \/ \E b \in Batches : SecureSend(b) \/ SecureHandler(b)
         \/ \E t \in Items :
               SecureItem(t) \/ SecureCall(t) \/ SecureServe(t) \/ SecureResult(t)
         \/ SecureHirb \/ SecureCrash
  PROVE  GNext \/ UNCHANGED gvars
<1>1. ASSUME NEW b \in Batches, SecureSend(b) PROVE GNext
  <2>1. Receive(b)
    BY <1>1 DEF SecureSend, L!Send, L!Receive, L!request, Receive, request
  <2>. QED
    BY <2>1 DEF GNext
<1>2. ASSUME NEW b \in Batches, SecureHandler(b) PROVE GNext
  <2>1. Handler(b)
    BY <1>2 DEF SecureHandler, L!GatewayHandler, L!Handler, L!Loop, L!LoopEnds, L!Reply,
                L!request, Handler, Loop, LoopEnds, Reply, request
  <2>. QED
    BY <2>1 DEF GNext
<1>3. ASSUME NEW t \in Items, SecureItem(t) PROVE GNext
  <2>1. Goroutine(t)
    BY <1>3 DEF SecureItem, L!GatewayItem, L!Goroutine, L!Acquire, L!AppendRead,
                L!AppendWrite, L!Release, L!Leave, L!request, L!BatchOf, L!InBatch,
                Goroutine, Acquire, AppendRead, AppendWrite, Release, Leave, request,
                BatchOf, InBatch
  <2>. QED
    BY <2>1, SMTT(30) DEF GNext
<1>4. ASSUME NEW t \in Items, SecureResult(t) PROVE GNext
  <2>1. PICK o \in {"entry", "silent"} : L!Deliver(t, o)
    BY <1>4 DEF SecureResult, L!Result
  <2>2. Deliver(t, o)
    BY <2>1 DEF L!Deliver, L!request, Deliver, request
  <2>. QED
    BY <2>2 DEF GNext
<1>5. ASSUME NEW t \in Items, SecureCall(t) \/ SecureServe(t) PROVE UNCHANGED gvars
  BY <1>5 DEF SecureCall, SecureServe, L!Call, L!Serve, L!gvars, gvars
<1>6. CASE SecureCrash
  <2>1. GCrash
    BY <1>6 DEF SecureCrash, L!Crash, L!GCrash, L!request, L!InBatch, L!NoEntries,
                GCrash, request, InBatch, NoEntries
  <2>. QED
    BY <2>1 DEF GNext
<1>7. SecureHirb => UNCHANGED gvars
  BY DEF SecureHirb, L!HirbRestarts, L!gvars, gvars
<1>. QED
  BY <1>1, <1>2, <1>3, <1>4, <1>5, <1>6, <1>7

\* The actions that Plaintext takes from Gateway are those of Gateway.
LEMMA PlainIsGateway ==
  /\ \A b : P!Receive(b) => Receive(b)
  /\ \A b : P!Handler(b) => Handler(b)
  /\ \A t : P!Goroutine(t) => Goroutine(t)
  /\ \A t, o : P!Deliver(t, o) => Deliver(t, o)
<1>1. \A b : P!Receive(b) => Receive(b)
  BY DEF P!Receive, P!request, Receive, request
<1>2. \A b : P!Handler(b) => Handler(b)
  BY DEF P!Handler, P!Loop, P!LoopEnds, P!Reply, P!request,
         Handler, Loop, LoopEnds, Reply, request
<1>3. \A t : P!Goroutine(t) => Goroutine(t)
  BY DEF P!Goroutine, P!Acquire, P!AppendRead, P!AppendWrite, P!Release, P!Leave,
         P!request, P!BatchOf, P!InBatch, Goroutine, Acquire, AppendRead, AppendWrite,
         Release, Leave, request, BatchOf, InBatch
<1>4. \A t, o : P!Deliver(t, o) => Deliver(t, o)
  BY DEF P!Deliver, P!request, Deliver, request
<1>. QED
  BY <1>1, <1>2, <1>3, <1>4

LEMMA PlainSteps ==
  ASSUME \/ \E b \in Batches : PlainSend(b) \/ PlainHandler(b) \/ PlainExpire(b)
         \/ \E t \in Items :
               \/ PlainItem(t) \/ PlainAsk(t) \/ PlainApply(t) \/ PlainReturn(t)
               \/ PlainFail(t) \/ PlainTimeOut(t)
  PROVE  GNext \/ UNCHANGED gvars
<1>1. ASSUME NEW b \in Batches, PlainSend(b) \/ PlainHandler(b) PROVE GNext
  BY <1>1, PlainIsGateway DEF PlainSend, PlainHandler, P!Start, P!PHandler, GNext
<1>2. ASSUME NEW t \in Items, PlainItem(t) PROVE GNext
  BY <1>2, PlainIsGateway DEF PlainItem, P!PGoroutine, GNext
<1>3. ASSUME NEW t \in Items, PlainReturn(t) \/ PlainFail(t) \/ PlainTimeOut(t)
      PROVE  GNext
  BY <1>3, PlainIsGateway
  DEF PlainReturn, PlainFail, PlainTimeOut, P!Return, P!Fail, P!TimeOut, P!Fails, GNext
<1>4. ASSUME NEW t \in Items, PlainAsk(t) \/ PlainApply(t) PROVE UNCHANGED gvars
  BY <1>4 DEF PlainAsk, PlainApply, P!Ask, P!Apply, P!gvars, gvars
<1>5. ASSUME NEW b \in Batches, PlainExpire(b) PROVE UNCHANGED gvars
  BY <1>5 DEF PlainExpire, P!Expire, P!gvars, gvars
<1>. QED
  BY <1>1, <1>2, <1>3, <1>4, <1>5

LEMMA StepsOfTheGateway == [Next]_vars => [GNext]_gvars
<1>1. ASSUME Next PROVE GNext \/ UNCHANGED gvars
  BY <1>1, SecureSteps, PlainSteps DEF Next
<1>2. UNCHANGED vars => UNCHANGED gvars
  BY DEF vars
<1>. QED
  BY <1>1, <1>2
-----------------------------------------------------------------------------
\* A list holds what is due as long as neither changes.
LEMMA DueKept ==
  ASSUME NEW b \in Batches, NEW i \in Rids, HoldsDue(b, i),
         resp'[b] = resp[b], Due(b, i)' = Due(b, i)
  PROVE  HoldsDue(b, i)'
BY DEF HoldsDue

LEMMA InitInv == Init => GInv
<1> SUFFICES ASSUME Init PROVE GInv
  OBVIOUS
<1>1. GInit
  <2>1. L!Bodies = Bodies
    BY DEF L!Bodies, Bodies, L!Cardinality, Cardinality
  <2>3. L!NoEntries = NoEntries
    BY DEF L!NoEntries, NoEntries
  <2>2. L!GInit
    BY DEF Init, L!Init
  <2>. QED
    BY <2>1, <2>2, <2>3 DEF L!GInit, GInit
<1>2. GTypeOK
  BY <1>1, GatewayAssumption DEF GInit, GTypeOK, TaskStates, Phases, NoEntries
<1>3. \A b \in Batches : Running(b) = {}
  BY <1>1, <1>2, Places DEF GInit, Running
<1>4. Started
  BY <1>1, <1>2, Places DEF GInit, Started
<1>5. Counted
  BY <1>1, <1>3, FS_EmptySet DEF GInit, Counted
<1>6. Settled /\ Locked /\ Fresh
  BY <1>1 DEF GInit, Settled, Locked, Fresh
<1>7. NoLostEntry
  <2>1. \A b \in Batches, i \in Rids : Due(b, i) = {}
    BY <1>1, <1>2, Places DEF GInit, Due, HasWritten
  <2>2. \A b \in Batches, i \in Rids : resp[b][i] = <<>>
    BY <1>1 DEF GInit, NoEntries
  <2>3. \A b \in Batches, i \in Rids : HoldsDue(b, i)
    <3> SUFFICES ASSUME NEW b \in Batches, NEW i \in Rids PROVE HoldsDue(b, i)
      OBVIOUS
    <3>1. Len(resp[b][i]) = 0 /\ DOMAIN resp[b][i] = {}
      BY <2>2
    <3>2. Cardinality(Due(b, i)) = 0
      BY <2>1, FS_EmptySet
    <3>. QED
      BY <2>1, <3>1, <3>2 DEF HoldsDue
  <2>. QED
    BY <2>3 DEF NoLostEntry
<1>. QED
  BY <1>2, <1>4, <1>5, <1>6, <1>7 DEF GInv

LEMMA ReceiveKeeps ==
  ASSUME GInv, NEW b \in Batches, Receive(b)
  PROVE  GInv'
<1>1. UNCHANGED <<request, pos, wg, task, mu, resp, read, answer>>
      /\ phase[b] = "new" /\ phase' = [phase EXCEPT ![b] = "loop"]
  BY DEF Receive
<1>2. GTypeOK'
  BY <1>1 DEF GInv, GTypeOK, Phases, request
<1>3. /\ \A c : Running(c)' = Running(c) /\ InBatch(c)' = InBatch(c)
      /\ \A c, i : Due(c, i)' = Due(c, i)
      /\ \A t : BatchOf(t)' = BatchOf(t)
  BY <1>1, Fixed DEF Running, Due, request
<1>4. Started'
  BY <1>1 DEF GInv, GTypeOK, Started, request
<1>5. Counted' /\ Settled' /\ Locked' /\ Fresh'
  BY <1>1, <1>3 DEF GInv, GTypeOK, Counted, Settled, Locked, Fresh, request
<1>6. NoLostEntry'
  BY <1>1, <1>3, DueKept DEF GInv, NoLostEntry
<1>. QED
  BY <1>2, <1>4, <1>5, <1>6 DEF GInv

LEMMA LoopEndsKeeps ==
  ASSUME GInv, NEW b \in Batches, LoopEnds(b)
  PROVE  GInv'
<1>1. UNCHANGED <<request, pos, wg, task, mu, resp, read, answer>>
      /\ phase[b] = "loop" /\ phase' = [phase EXCEPT ![b] = "wait"]
      /\ pos[b] = Len(batch[b])
  BY DEF LoopEnds
<1>2. GTypeOK'
  BY <1>1 DEF GInv, GTypeOK, Phases, request
<1>3. /\ \A c : Running(c)' = Running(c) /\ InBatch(c)' = InBatch(c)
      /\ \A c, i : Due(c, i)' = Due(c, i)
      /\ \A t : BatchOf(t)' = BatchOf(t)
  BY <1>1, Fixed DEF Running, Due, request
<1>4. Started'
  BY <1>1 DEF GInv, GTypeOK, Started, request
<1>5. Counted' /\ Settled' /\ Locked' /\ Fresh'
  BY <1>1, <1>3 DEF GInv, GTypeOK, Counted, Settled, Locked, Fresh, request
<1>6. NoLostEntry'
  BY <1>1, <1>3, DueKept DEF GInv, NoLostEntry
<1>. QED
  BY <1>2, <1>4, <1>5, <1>6 DEF GInv

LEMMA ReplyKeeps ==
  ASSUME GInv, NEW b \in Batches, Reply(b)
  PROVE  GInv'
<1>1. UNCHANGED <<request, pos, wg, task, mu, resp, read>>
      /\ phase[b] = "wait" /\ phase' = [phase EXCEPT ![b] = "returned"]
      /\ wg[b] = 0 /\ answer' = [answer EXCEPT ![b] = resp[b]]
  BY DEF Reply
<1>2. GTypeOK'
  BY <1>1 DEF GInv, GTypeOK, Phases, request
<1>3. /\ \A c : Running(c)' = Running(c) /\ InBatch(c)' = InBatch(c)
      /\ \A c, i : Due(c, i)' = Due(c, i)
      /\ \A t : BatchOf(t)' = BatchOf(t)
  BY <1>1, Fixed DEF Running, Due, request
<1>4. Running(b) = {}
  BY <1>1, RunningFinite DEF GInv, Counted
<1>5. Started'
  BY <1>1 DEF GInv, GTypeOK, Started, request
<1>6. Settled'
  BY <1>1, <1>3, <1>4 DEF GInv, GTypeOK, Settled
<1>7. Counted' /\ Locked' /\ Fresh'
  BY <1>1, <1>3 DEF GInv, Counted, Locked, Fresh, request
<1>8. NoLostEntry'
  BY <1>1, <1>3, DueKept DEF GInv, NoLostEntry
<1>. QED
  BY <1>2, <1>5, <1>6, <1>7, <1>8 DEF GInv

\* Starting a goroutine: the item is the next of its batch and has none yet.
LEMMA LoopKeeps ==
  ASSUME GInv, NEW b \in Batches, Loop(b)
  PROVE  GInv'
<1> DEFINE t == batch[b][pos[b] + 1]
<1>1. /\ UNCHANGED <<request, phase, mu, resp, read, answer>>
      /\ phase[b] = "loop" /\ pos[b] < Len(batch[b])
      /\ pos' = [pos EXCEPT ![b] = @ + 1]
  BY DEF Loop
<1>2. /\ batch[b] \in Seq(Items) /\ pos[b] + 1 \in 1 .. Len(batch[b])
      /\ t \in Items /\ t \in InBatch(b) /\ task[t] = "none"
      /\ \A c \in Batches : c # b => t \notin InBatch(c)
  <2>1. batch[b] \in Seq(Items) /\ pos[b] \in Nat
    BY Places DEF GInv, GTypeOK
  <2>2. pos[b] + 1 \in 1 .. Len(batch[b]) /\ t \in Items /\ t \in InBatch(b)
    BY <1>1, <2>1, Places DEF GInv
  <2>3. task[t] = "none"
    BY <1>1, <2>1, <2>2 DEF GInv, Started
  <2>. QED
    BY <2>1, <2>2, <2>3, Places DEF GInv
<1>3. /\ \A c : InBatch(c)' = InBatch(c)
      /\ \A s : BatchOf(s)' = BatchOf(s)
  BY <1>1, Fixed
<1>4. \/ t \in skipped /\ task' = task /\ wg' = wg
      \/ /\ t \notin skipped
         /\ wg' = [wg EXCEPT ![b] = @ + 1] /\ task' = [task EXCEPT ![t] = "calling"]
  BY DEF Loop
<1>5. GTypeOK'
  <2>. DEFINE next == t
  <2>1. next \in Items
    BY <1>2
  <2>2. \/ UNCHANGED <<task, wg>>
        \/ wg' = [wg EXCEPT ![b] = @ + 1] /\ task' = [task EXCEPT ![next] = "calling"]
    BY <1>4
  <2>3. task' \in [Items -> TaskStates] /\ wg' \in [Batches -> Nat]
    <3>1. task \in [Items -> TaskStates] /\ wg \in [Batches -> Nat]
      BY DEF GInv, GTypeOK
    <3>2. "calling" \in TaskStates
      BY DEF TaskStates
    <3>. HIDE DEF next
    <3>. QED
      BY <2>1, <2>2, <3>1, <3>2
  <2>4. pos' \in [Batches -> Nat]
    BY <1>1 DEF GInv, GTypeOK
  <2>. QED
    BY <1>1, <2>3, <2>4 DEF GInv, GTypeOK, request
<1>6. \A s \in Items : task'[s] = IF s = t /\ t \notin skipped THEN "calling" ELSE task[s]
  BY <1>2, <1>4 DEF GInv, GTypeOK
<1>7. Started'
  <2> SUFFICES ASSUME NEW c \in Batches
               PROVE  /\ pos'[c] <= Len(batch[c])
                      /\ phase[c] \in {"wait", "returned"} => pos'[c] = Len(batch[c])
                      /\ phase[c] # "broken" =>
                            \A n \in 1 .. Len(batch[c]) :
                               task'[batch[c][n]] # "none" <=>
                                  n <= pos'[c] /\ batch[c][n] \notin skipped
    BY <1>1 DEF Started, request
  <2>1. /\ batch[c] \in Seq(Items) /\ pos[c] \in Nat
        /\ \A n \in 1 .. Len(batch[c]) : batch[c][n] \in Items /\ batch[c][n] \in InBatch(c)
    <3>1. batch[c] \in Seq(Items) /\ InBatch(c) = {batch[c][n] : n \in 1 .. Len(batch[c])}
      BY Places DEF GInv
    <3>2. \A n \in 1 .. Len(batch[c]) : batch[c][n] \in InBatch(c)
      BY <3>1
    <3>3. \A n \in 1 .. Len(batch[c]) : batch[c][n] \in Items
      BY <3>1
    <3>4. pos[c] \in Nat
      BY DEF GInv, GTypeOK
    <3>. QED
      BY <3>1, <3>2, <3>3, <3>4
  <2>2. CASE c = b
    <3>1. pos'[b] = pos[b] + 1
      BY <1>1 DEF GInv, GTypeOK
    <3>2. \A n \in 1 .. Len(batch[b]) : batch[b][n] = t <=> n = pos[b] + 1
      BY <1>2, Places DEF GInv
    <3>. QED
      BY <1>1, <1>2, <1>6, <2>1, <2>2, <3>1, <3>2, SMTT(30) DEF GInv, Started
  <2>3. CASE c # b
    <3>1. pos'[c] = pos[c]
      BY <1>1, <2>3 DEF GInv, GTypeOK
    <3>2. \A n \in 1 .. Len(batch[c]) : task'[batch[c][n]] = task[batch[c][n]]
      BY <1>2, <1>6, <2>1, <2>3
    <3>. QED
      BY <3>1, <3>2 DEF GInv, Started
  <2>. QED
    BY <2>2, <2>3
<1>8. Counted'
  <2> SUFFICES ASSUME NEW c \in Batches PROVE wg'[c] = Cardinality(Running(c))'
    BY DEF Counted
  <2>1. CASE c = b /\ t \notin skipped
    <3>1. Running(b)' = Running(b) \cup {t} /\ t \notin Running(b)
      BY <1>2, <1>3, <1>6, <2>1, Places DEF Running, GInv, Ended
    <3>2. Cardinality(Running(b) \cup {t}) = Cardinality(Running(b)) + 1
      BY <3>1, RunningFinite, FS_AddElement DEF GInv
    <3>. QED
      BY <1>4, <2>1, <3>1, <3>2 DEF GInv, Counted, GTypeOK
  <2>2. CASE c # b \/ t \in skipped
    <3>1. \A s \in InBatch(c) : task'[s] = task[s]
      BY <1>2, <1>6, <2>2, Places DEF GInv
    <3>2. Running(c)' = Running(c)
      BY <1>3, <3>1 DEF Running
    <3>3. wg'[c] = wg[c]
      BY <1>4, <2>2 DEF GInv, GTypeOK
    <3>. QED
      BY <3>2, <3>3 DEF GInv, Counted
  <2>. QED
    BY <2>1, <2>2
<1>9. Settled'
  <2>1. \A c \in Batches : c # b => Running(c)' = Running(c)
    BY <1>2, <1>3, <1>6, Places DEF Running, GInv
  <2>. QED
    BY <1>1, <1>2, <1>3, <1>6, <2>1, Places DEF GInv, Settled
<1>10. Locked' /\ Fresh'
  BY <1>1, <1>3, <1>6 DEF GInv, Locked, Fresh, request
<1>11. NoLostEntry'
  <2>1. \A c \in Batches, i \in Rids : Due(c, i)' = Due(c, i)
    BY <1>1, <1>2, <1>3, <1>6, Places DEF Due, GInv, HasWritten, request
  <2>. QED
    BY <1>1, <2>1, DueKept DEF GInv, NoLostEntry
<1>. QED
  BY <1>5, <1>7, <1>8, <1>9, <1>10, <1>11 DEF GInv
-----------------------------------------------------------------------------
\* A goroutine at work keeps its batch from being answered.
LEMMA AtWork ==
  ASSUME GInv, NEW t \in Items, task[t] \notin {"none"} \cup Ended
  PROVE  /\ BatchOf(t) \in Batches /\ t \in InBatch(BatchOf(t))
         /\ t \in Running(BatchOf(t)) /\ phase[BatchOf(t)] \notin {"returned", "broken"}
<1>1. BatchOf(t) \in Batches /\ t \in InBatch(BatchOf(t))
  BY Places DEF GInv
<1>2. t \in Running(BatchOf(t))
  BY <1>1 DEF Running
<1>. QED
  BY <1>1, <1>2 DEF GInv, Settled, Ended

\* The step of one goroutine from state to state, seen from the loop and the
\* answer: what they rely on is that it had started.
LEMMA OneTask ==
  ASSUME GInv, NEW t \in Items, NEW s \in TaskStates \ {"none"},
         task[t] \notin {"none"} \cup Ended, task' = [task EXCEPT ![t] = s],
         UNCHANGED <<request, pos, phase, answer>>,
         \A b \in Batches : b # BatchOf(t) => resp'[b] = resp[b]
  PROVE  /\ Started' /\ Settled'
         /\ \A b \in Batches :
               Running(b)' = IF b = BatchOf(t) /\ s \in Ended THEN Running(b) \ {t}
                             ELSE Running(b)
<1>1. \A u \in Items : task'[u] = IF u = t THEN s ELSE task[u]
  BY DEF GInv, GTypeOK
<1>2. /\ BatchOf(t) \in Batches /\ t \in InBatch(BatchOf(t)) /\ t \in Running(BatchOf(t))
      /\ phase[BatchOf(t)] \notin {"returned", "broken"}
      /\ \A b \in Batches : b # BatchOf(t) => t \notin InBatch(b)
  BY AtWork, Places DEF GInv
<1>3. \A b : InBatch(b)' = InBatch(b)
  BY Fixed
<1>4. \A b \in Batches : InBatch(b) \subseteq Items
  BY Places DEF GInv
<1>5. \A b \in Batches : b # BatchOf(t) => Running(b)' = Running(b)
  BY <1>1, <1>2, <1>3, <1>4 DEF Running
<1>6. \A b \in Batches : b = BatchOf(t) =>
         Running(b)' = IF s \in Ended THEN Running(b) \ {t} ELSE Running(b)
  BY <1>1, <1>2, <1>3, <1>4 DEF Running
<1>7. Started'
  <2> SUFFICES ASSUME NEW b \in Batches, phase[b] # "broken", NEW n \in 1 .. Len(batch[b])
               PROVE  task'[batch[b][n]] # "none" <=> n <= pos[b] /\ batch[b][n] \notin skipped
    BY DEF GInv, Started, request
  <2>1. batch[b][n] \in Items
    BY Places DEF GInv
  <2>2. task'[batch[b][n]] # "none" <=> task[batch[b][n]] # "none"
    BY <1>1, <2>1
  <2>. QED
    BY <2>2 DEF GInv, Started
<1>8. Settled'
  BY <1>1, <1>2, <1>3, <1>4, <1>5 DEF GInv, Settled
<1>. QED
  BY <1>5, <1>6, <1>7, <1>8

\* A step that appends nothing leaves every list as it should be.
LEMMA NothingDue ==
  ASSUME GInv, NEW t \in Items, NEW s \in TaskStates, task' = [task EXCEPT ![t] = s],
         task[t] \in HasWritten <=> s \in HasWritten, UNCHANGED <<request, resp>>
  PROVE  NoLostEntry'
<1>1. \A u \in Items : task'[u] \in HasWritten <=> task[u] \in HasWritten
  BY DEF GInv, GTypeOK
<1>2. \A b \in Batches : InBatch(b)' = InBatch(b) /\ InBatch(b) \subseteq Items
  BY Fixed, Places DEF GInv
<1>3. \A b \in Batches, i \in Rids : Due(b, i)' = Due(b, i)
  BY <1>1, <1>2 DEF Due, request, HasWritten
<1>. QED
  BY <1>3, DueKept DEF GInv, NoLostEntry

LEMMA DeliverKeeps ==
  ASSUME GInv, NEW t \in Items, NEW o, Deliver(t, o)
  PROVE  GInv'
<1>1. PICK s \in {"entry", "quitting"} : task' = [task EXCEPT ![t] = s]
  BY DEF Deliver
<1>2. task[t] = "calling" /\ UNCHANGED <<request, pos, phase, wg, mu, resp, read, answer>>
  BY DEF Deliver
<1>3. s \in TaskStates \ {"none"} /\ s \notin Ended \cup HasWritten
  BY <1>1 DEF TaskStates, Ended, HasWritten
<1>4. GTypeOK'
  BY <1>1, <1>2, <1>3 DEF GInv, GTypeOK, request
<1>5. /\ Started' /\ Settled'
      /\ \A b \in Batches : Running(b)' = Running(b)
  BY <1>1, <1>2, <1>3, OneTask DEF Ended
<1>6. Counted'
  BY <1>2, <1>5 DEF GInv, Counted
<1>7. Locked' /\ Fresh'
  <2>1. \A u \in Items : task'[u] = IF u = t THEN s ELSE task[u]
    BY <1>1 DEF GInv, GTypeOK
  <2>2. \A u : BatchOf(u)' = BatchOf(u)
    BY <1>2, Fixed
  <2>. QED
    BY <1>1, <1>2, <2>1, <2>2 DEF GInv, Locked, Fresh, request
<1>8. NoLostEntry'
  BY <1>1, <1>2, <1>3, NothingDue DEF HasWritten
<1>. QED
  BY <1>4, <1>5, <1>6, <1>7, <1>8 DEF GInv

LEMMA AcquireKeeps ==
  ASSUME GInv, NEW t \in Items, Acquire(t)
  PROVE  GInv'
<1>1. /\ task[t] = "entry" /\ mu[BatchOf(t)] = NoItem
      /\ mu' = [mu EXCEPT ![BatchOf(t)] = t] /\ task' = [task EXCEPT ![t] = "locked"]
      /\ UNCHANGED <<request, pos, phase, wg, resp, read, answer>>
  BY DEF Acquire
<1>2. "locked" \in TaskStates \ {"none"} /\ "locked" \notin Ended \cup HasWritten
  BY DEF TaskStates, Ended, HasWritten
<1>3. BatchOf(t) \in Batches
  BY Places DEF GInv
<1>4. GTypeOK'
  BY <1>1, <1>2, <1>3 DEF GInv, GTypeOK, request
<1>5. /\ Started' /\ Settled'
      /\ \A b \in Batches : Running(b)' = Running(b)
  BY <1>1, <1>2, OneTask DEF Ended
<1>6. Counted'
  BY <1>1, <1>5 DEF GInv, Counted
<1>7. \A u \in Items : task'[u] = IF u = t THEN "locked" ELSE task[u]
  BY <1>1 DEF GInv, GTypeOK
<1>8. \A u : BatchOf(u)' = BatchOf(u)
  BY <1>1, Fixed
<1>9. Locked'
  <2> SUFFICES ASSUME NEW u \in Items, task'[u] \in {"locked", "read", "written"}
               PROVE  mu'[BatchOf(u)] = u
    BY <1>8 DEF Locked
  <2>1. CASE u = t
    BY <1>1, <1>3, <2>1 DEF GInv, GTypeOK
  <2>2. CASE u # t
    <3>1. mu[BatchOf(u)] = u /\ BatchOf(u) # BatchOf(t)
      BY <1>1, <1>7, <2>2, GatewayAssumption DEF GInv, Locked
    <3>. QED
      BY <1>1, <3>1
  <2>. QED
    BY <2>1, <2>2
<1>10. Fresh'
  BY <1>1, <1>7, <1>8 DEF GInv, Fresh, request
<1>11. NoLostEntry'
  BY <1>1, <1>2, NothingDue DEF HasWritten
<1>. QED
  BY <1>4, <1>5, <1>6, <1>9, <1>10, <1>11 DEF GInv

LEMMA AppendReadKeeps ==
  ASSUME GInv, NEW t \in Items, AppendRead(t)
  PROVE  GInv'
<1>1. /\ task[t] = "locked" /\ task' = [task EXCEPT ![t] = "read"]
      /\ read' = [read EXCEPT ![t] = resp[BatchOf(t)][rid[t]]]
      /\ UNCHANGED <<request, pos, phase, wg, mu, resp, answer>>
  BY DEF AppendRead
<1>2. "read" \in TaskStates \ {"none"} /\ "read" \notin Ended \cup HasWritten
  BY DEF TaskStates, Ended, HasWritten
<1>3. BatchOf(t) \in Batches
  BY Places DEF GInv
<1>4. GTypeOK'
  BY <1>1, <1>2, <1>3 DEF GInv, GTypeOK, request
<1>5. /\ Started' /\ Settled'
      /\ \A b \in Batches : Running(b)' = Running(b)
  BY <1>1, <1>2, OneTask DEF Ended
<1>6. Counted'
  BY <1>1, <1>5 DEF GInv, Counted
<1>7. \A u \in Items : task'[u] = IF u = t THEN "read" ELSE task[u]
  BY <1>1 DEF GInv, GTypeOK
<1>8. \A u : BatchOf(u)' = BatchOf(u)
  BY <1>1, Fixed
<1>9. Locked'
  BY <1>1, <1>7, <1>8 DEF GInv, Locked
<1>10. Fresh'
  BY <1>1, <1>7, <1>8 DEF GInv, GTypeOK, Fresh, request
<1>11. NoLostEntry'
  BY <1>1, <1>2, NothingDue DEF HasWritten
<1>. QED
  BY <1>4, <1>5, <1>6, <1>9, <1>10, <1>11 DEF GInv

\* Appending to a list adds one element to what it holds.
LEMMA AppendAdds ==
  ASSUME NEW seq \in Seq(Items), NEW t \in Items
  PROVE  /\ Len(Append(seq, t)) = Len(seq) + 1
         /\ {Append(seq, t)[n] : n \in DOMAIN Append(seq, t)} =
               {seq[n] : n \in DOMAIN seq} \cup {t}
<1>1. /\ Len(Append(seq, t)) = Len(seq) + 1 /\ Len(seq) \in Nat
      /\ DOMAIN Append(seq, t) = 1 .. Len(seq) + 1 /\ DOMAIN seq = 1 .. Len(seq)
      /\ \A n \in 1 .. Len(seq) : Append(seq, t)[n] = seq[n]
      /\ Append(seq, t)[Len(seq) + 1] = t
  OBVIOUS
<1>2. 1 .. Len(seq) + 1 = (1 .. Len(seq)) \cup {Len(seq) + 1}
  BY <1>1
<1>. QED
  BY <1>1, <1>2

\* The holder of the mutex is the only one whose slice the step changes, so
\* the list it writes back is the one it read, with its own entry at the end.
LEMMA AppendWriteKeeps ==
  ASSUME GInv, NEW t \in Items, AppendWrite(t)
  PROVE  GInv'
<1> DEFINE b == BatchOf(t)
           i == rid[t]
<1>1. /\ task[t] = "read" /\ task' = [task EXCEPT ![t] = "written"]
      /\ resp' = [resp EXCEPT ![b][i] = Append(read[t], t)]
      /\ UNCHANGED <<request, pos, phase, wg, mu, read, answer>>
  BY DEF AppendWrite
<1>2. "written" \in TaskStates \ {"none"} /\ "written" \in HasWritten \ Ended
  BY DEF TaskStates, Ended, HasWritten
<1>3. /\ b \in Batches /\ i \in Rids /\ t \in InBatch(b)
      /\ \A c \in Batches : c # b => t \notin InBatch(c)
  BY Places DEF GInv, GTypeOK
<1>4. /\ resp \in [Batches -> [Rids -> Seq(Items)]] /\ resp[b][i] \in Seq(Items)
      /\ read[t] = resp[b][i] /\ Append(read[t], t) \in Seq(Items)
  BY <1>1, <1>3 DEF GInv, GTypeOK, Fresh
<1>5. /\ resp' \in [Batches -> [Rids -> Seq(Items)]]
      /\ resp'[b][i] = Append(resp[b][i], t)
      /\ \A c \in Batches, j \in Rids : ~(c = b /\ j = i) => resp'[c][j] = resp[c][j]
      /\ \A c \in Batches : c # b => resp'[c] = resp[c]
  BY <1>1, <1>3, <1>4
<1>6. GTypeOK'
  BY <1>1, <1>2, <1>5 DEF GInv, GTypeOK, request
<1>7. /\ Started' /\ Settled'
      /\ \A c \in Batches : Running(c)' = Running(c)
  BY <1>1, <1>2, <1>5, OneTask DEF Ended
<1>8. Counted'
  BY <1>1, <1>7 DEF GInv, Counted
<1>9. \A u \in Items : task'[u] = IF u = t THEN "written" ELSE task[u]
  BY <1>1 DEF GInv, GTypeOK
<1>10. \A u : BatchOf(u)' = BatchOf(u)
  BY <1>1, Fixed
<1>11. Locked'
  BY <1>1, <1>9, <1>10 DEF GInv, Locked
<1>12. Fresh'
  <2> SUFFICES ASSUME NEW u \in Items, task'[u] = "read"
               PROVE  read[u] = resp'[BatchOf(u)][rid[u]]
    BY <1>1, <1>10 DEF Fresh, request
  <2>1. u # t /\ task[u] = "read"
    BY <1>9
  <2>2. BatchOf(u) # b
    BY <1>1, <2>1 DEF GInv, Locked
  <2>. QED
    BY <1>5, <2>1, <2>2, Places DEF GInv, Fresh
<1>13. NoLostEntry'
  <2> SUFFICES ASSUME NEW c \in Batches, NEW j \in Rids PROVE HoldsDue(c, j)'
    BY DEF NoLostEntry
  <2>1. InBatch(c)' = InBatch(c) /\ InBatch(c) \subseteq Items
    BY <1>1, Fixed, Places DEF GInv
  <2>2. HoldsDue(c, j)
    BY DEF GInv, NoLostEntry
  <2>3. CASE c = b /\ j = i
    <3>1. Due(c, j)' = Due(c, j) \cup {t} /\ t \notin Due(c, j)
      BY <1>1, <1>2, <1>3, <1>9, <2>1, <2>3 DEF Due, HasWritten, request
    <3>2. Cardinality(Due(c, j) \cup {t}) = Cardinality(Due(c, j)) + 1
      <4>1. IsFiniteSet(Due(c, j))
        BY <2>1, GatewayAssumption, FS_Subset DEF Due
      <4>. QED
        BY <3>1, <4>1, FS_AddElement
    <3>3. resp'[c][j] = Append(resp[c][j], t) /\ resp[c][j] \in Seq(Items)
      BY <1>4, <1>5, <2>3
    <3>4. /\ Len(resp'[c][j]) = Len(resp[c][j]) + 1
          /\ {resp'[c][j][n] : n \in DOMAIN resp'[c][j]} =
                {resp[c][j][n] : n \in DOMAIN resp[c][j]} \cup {t}
      <4>. DEFINE old == resp[c][j]
                  new == resp'[c][j]
      <4>1. new = Append(old, t) /\ old \in Seq(Items)
        BY <3>3
      <4>. HIDE DEF old, new
      <4>2. /\ Len(new) = Len(old) + 1
            /\ {new[n] : n \in DOMAIN new} = {old[n] : n \in DOMAIN old} \cup {t}
        BY <4>1, AppendAdds
      <4>. QED
        BY <4>2 DEF old, new
    <3>5. /\ {resp'[c][j][n] : n \in DOMAIN resp'[c][j]} = Due(c, j)'
          /\ Len(resp'[c][j]) = Cardinality(Due(c, j)')
      BY <2>2, <3>1, <3>2, <3>4 DEF HoldsDue
    <3>. QED
      BY <3>5 DEF HoldsDue
  <2>4. CASE ~(c = b /\ j = i)
    <3>1. resp'[c][j] = resp[c][j]
      BY <1>5, <2>4
    <3>2. Due(c, j)' = Due(c, j)
      BY <1>1, <1>3, <1>9, <2>1, <2>4 DEF Due, request
    <3>. QED
      BY <2>2, <3>1, <3>2 DEF HoldsDue
  <2>. QED
    BY <2>3, <2>4
<1>. QED
  BY <1>6, <1>7, <1>8, <1>11, <1>12, <1>13 DEF GInv

LEMMA ReleaseKeeps ==
  ASSUME GInv, NEW t \in Items, Release(t)
  PROVE  GInv'
<1>1. /\ task[t] = "written" /\ task' = [task EXCEPT ![t] = "leaving"]
      /\ mu' = [mu EXCEPT ![BatchOf(t)] = NoItem]
      /\ UNCHANGED <<request, pos, phase, wg, resp, read, answer>>
  BY DEF Release
<1>2. "leaving" \in TaskStates \ {"none"} /\ "leaving" \in HasWritten \ Ended
  BY DEF TaskStates, Ended, HasWritten
<1>3. BatchOf(t) \in Batches
  BY Places DEF GInv
<1>4. GTypeOK'
  BY <1>1, <1>2, <1>3 DEF GInv, GTypeOK, request
<1>5. /\ Started' /\ Settled'
      /\ \A b \in Batches : Running(b)' = Running(b)
  BY <1>1, <1>2, OneTask DEF Ended
<1>6. Counted'
  BY <1>1, <1>5 DEF GInv, Counted
<1>7. \A u \in Items : task'[u] = IF u = t THEN "leaving" ELSE task[u]
  BY <1>1 DEF GInv, GTypeOK
<1>8. \A u : BatchOf(u)' = BatchOf(u)
  BY <1>1, Fixed
<1>9. Locked'
  <2> SUFFICES ASSUME NEW u \in Items, task'[u] \in {"locked", "read", "written"}
               PROVE  mu'[BatchOf(u)] = u
    BY <1>8 DEF Locked
  <2>1. u # t /\ mu[BatchOf(u)] = u /\ mu[BatchOf(t)] = t
    BY <1>1, <1>7 DEF GInv, Locked
  <2>. QED
    BY <1>1, <2>1
<1>10. Fresh'
  BY <1>1, <1>7, <1>8 DEF GInv, Fresh, request
<1>11. NoLostEntry'
  BY <1>1, <1>2, NothingDue DEF HasWritten
<1>. QED
  BY <1>4, <1>5, <1>6, <1>9, <1>10, <1>11 DEF GInv

\* wg.Done() takes off the count exactly the goroutine that leaves.
LEMMA LeaveKeeps ==
  ASSUME GInv, NEW t \in Items, Leave(t)
  PROVE  GInv'
<1>1. /\ task[t] \in {"leaving", "quitting"}
      /\ wg' = [wg EXCEPT ![BatchOf(t)] = @ - 1]
      /\ UNCHANGED <<request, pos, phase, mu, resp, read, answer>>
  BY DEF Leave
<1>2. PICK s \in Ended : task' = [task EXCEPT ![t] = s]
                         /\ (s = "done" <=> task[t] = "leaving")
  BY DEF Leave, Ended, GInv, GTypeOK
<1>3. s \in TaskStates \ {"none"} /\ (s \in HasWritten <=> task[t] \in HasWritten)
  BY <1>1, <1>2 DEF TaskStates, Ended, HasWritten
<1>4. /\ Started' /\ Settled'
      /\ \A b \in Batches :
            Running(b)' = IF b = BatchOf(t) THEN Running(b) \ {t} ELSE Running(b)
  BY <1>1, <1>2, <1>3, OneTask DEF Ended
<1>5. BatchOf(t) \in Batches /\ t \in Running(BatchOf(t))
  BY <1>1, AtWork DEF Ended
<1>6. \A b \in Batches : wg'[b] = Cardinality(Running(b)') /\ wg'[b] \in Nat
  <2> SUFFICES ASSUME NEW b \in Batches
               PROVE  wg'[b] = Cardinality(Running(b)') /\ wg'[b] \in Nat
    OBVIOUS
  <2>1. /\ IsFiniteSet(Running(b)) /\ wg[b] = Cardinality(Running(b)) /\ wg[b] \in Nat
    BY RunningFinite DEF GInv, Counted
  <2>2. CASE b = BatchOf(t)
    <3>1. Cardinality(Running(b) \ {t}) = Cardinality(Running(b)) - 1
      BY <1>5, <2>1, <2>2, FS_RemoveElement
    <3>2. Cardinality(Running(b) \ {t}) \in Nat
      BY <2>1, FS_RemoveElement, FS_CardinalityType
    <3>3. wg'[b] = wg[b] - 1
      BY <1>1, <2>2 DEF GInv, GTypeOK
    <3>. QED
      BY <1>4, <2>1, <2>2, <3>1, <3>2, <3>3
  <2>3. CASE b # BatchOf(t)
    <3>1. wg'[b] = wg[b]
      BY <1>1, <2>3 DEF GInv, GTypeOK
    <3>. QED
      BY <1>4, <2>1, <2>3, <3>1
  <2>. QED
    BY <2>2, <2>3
<1>7. Counted'
  BY <1>6 DEF Counted
<1>8. GTypeOK'
  <2>1. wg' \in [Batches -> Nat]
    <3>1. wg' = [b \in Batches |-> wg'[b]]
      BY <1>1 DEF GInv, GTypeOK
    <3>. QED
      BY <1>6, <3>1
  <2>2. task' \in [Items -> TaskStates]
    BY <1>2, <1>3 DEF GInv, GTypeOK
  <2>. QED
    BY <1>1, <2>1, <2>2 DEF GInv, GTypeOK, request
<1>9. Locked' /\ Fresh'
  <2>1. \A u \in Items : task'[u] = IF u = t THEN s ELSE task[u]
    BY <1>2 DEF GInv, GTypeOK
  <2>2. \A u : BatchOf(u)' = BatchOf(u)
    BY <1>1, Fixed
  <2>. QED
    BY <1>1, <1>2, <2>1, <2>2 DEF GInv, Locked, Fresh, request, Ended
<1>10. NoLostEntry'
  BY <1>1, <1>2, <1>3, NothingDue
<1>. QED
  BY <1>4, <1>7, <1>8, <1>9, <1>10 DEF GInv

\* A crash ends every batch in progress at once, and touches no other.
LEMMA CrashKeeps ==
  ASSUME GInv, GCrash
  PROVE  GInv'
<1> DEFINE hit  == {b \in Batches : phase[b] \in {"loop", "wait"}}
           gone == UNION {InBatch(b) : b \in hit}
<1>1. /\ phase' = [b \in Batches |-> IF b \in hit THEN "broken" ELSE phase[b]]
      /\ task'  = [t \in Items |-> IF t \in gone THEN "quit" ELSE task[t]]
      /\ wg'    = [b \in Batches |-> IF b \in hit THEN 0 ELSE wg[b]]
      /\ mu'    = [b \in Batches |-> IF b \in hit THEN NoItem ELSE mu[b]]
      /\ resp'  = [b \in Batches |-> IF b \in hit THEN NoEntries ELSE resp[b]]
      /\ UNCHANGED <<request, pos, read, answer>>
  BY DEF GCrash
<1>2. \A b \in Batches, t \in Items : t \in InBatch(b) => (t \in gone <=> b \in hit)
  BY Places DEF GInv
<1>3. /\ \A b \in Batches : InBatch(b)' = InBatch(b) /\ InBatch(b) \subseteq Items
      /\ \A t : BatchOf(t)' = BatchOf(t)
  BY <1>1, Fixed, Places DEF GInv
<1>4. GTypeOK'
  BY <1>1 DEF GInv, GTypeOK, Phases, TaskStates, Ended, NoEntries, request
<1>5. /\ \A b \in hit : \A t \in InBatch(b) : task'[t] = "quit"
      /\ \A b \in Batches \ hit : \A t \in InBatch(b) : task'[t] = task[t]
  BY <1>1, <1>2, <1>3
<1>6. \A b \in Batches : Running(b)' = IF b \in hit THEN {} ELSE Running(b)
  BY <1>3, <1>5 DEF Running, Ended
<1>7. Started'
  <2> SUFFICES ASSUME NEW b \in Batches
               PROVE  /\ pos[b] <= Len(batch[b])
                      /\ phase'[b] \in {"wait", "returned"} => pos[b] = Len(batch[b])
                      /\ phase'[b] # "broken" =>
                            \A n \in 1 .. Len(batch[b]) :
                               task'[batch[b][n]] # "none" <=>
                                  n <= pos[b] /\ batch[b][n] \notin skipped
    BY <1>1 DEF Started, request
  <2>1. CASE b \in hit
    BY <1>1, <2>1 DEF GInv, Started
  <2>2. CASE b \notin hit
    <3>1. \A n \in 1 .. Len(batch[b]) : batch[b][n] \in InBatch(b)
      BY Places DEF GInv
    <3>2. \A n \in 1 .. Len(batch[b]) : task'[batch[b][n]] = task[batch[b][n]]
      BY <1>5, <2>2, <3>1
    <3>. QED
      BY <1>1, <2>2, <3>2 DEF GInv, Started
  <2>. QED
    BY <2>1, <2>2
<1>8. Counted'
  BY <1>1, <1>6, FS_EmptySet DEF GInv, Counted
<1>9. Settled'
  <2> SUFFICES ASSUME NEW b \in Batches
               PROVE  /\ phase'[b] = "returned" => Running(b)' = {} /\ answer[b] = resp'[b]
                      /\ phase'[b] = "broken" => \A t \in InBatch(b) : task'[t] = "quit"
    BY <1>1, <1>3 DEF Settled
  <2>. QED
    BY <1>1, <1>5, <1>6 DEF GInv, Settled
<1>10. \A t \in Items : task'[t] # "quit" =>
          task'[t] = task[t] /\ BatchOf(t) \in Batches \ hit
  BY <1>1, <1>2, Places DEF GInv
<1>11. Locked' /\ Fresh'
  BY <1>1, <1>3, <1>10 DEF GInv, Locked, Fresh, request
<1>12. NoLostEntry'
  <2> SUFFICES ASSUME NEW b \in Batches, NEW i \in Rids PROVE HoldsDue(b, i)'
    BY DEF NoLostEntry
  <2>1. CASE b \in hit
    <3>1. Due(b, i)' = {}
      BY <1>3, <1>5, <2>1 DEF Due, HasWritten
    <3>2. resp'[b][i] = <<>>
      BY <1>1, <2>1 DEF NoEntries
    <3>3. Len(resp'[b][i]) = 0 /\ DOMAIN resp'[b][i] = {}
      BY <3>2
    <3>. QED
      BY <3>1, <3>3, FS_EmptySet DEF HoldsDue
  <2>2. CASE b \notin hit
    <3>1. \A t \in InBatch(b) : task'[t] = task[t]
      BY <1>5, <2>2
    <3>2. rid' = rid /\ InBatch(b)' = InBatch(b) /\ resp'[b] = resp[b]
      BY <1>1, <1>3, <2>2 DEF request
    <3>3. Due(b, i)' = Due(b, i)
      BY <3>1, <3>2 DEF Due, HasWritten
    <3>. QED
      BY <3>2, <3>3, DueKept DEF GInv, NoLostEntry
  <2>. QED
    BY <2>1, <2>2
<1>. QED
  BY <1>4, <1>7, <1>8, <1>9, <1>11, <1>12 DEF GInv
-----------------------------------------------------------------------------
LEMMA GInvInductive == GInv /\ [GNext]_gvars => GInv'
<1>1. ASSUME GInv, GNext PROVE GInv'
  <2>1. ASSUME NEW b \in Batches, Receive(b) \/ Handler(b) PROVE GInv'
    BY <1>1, <2>1, ReceiveKeeps, LoopKeeps, LoopEndsKeeps, ReplyKeeps DEF Handler
  <2>2. ASSUME NEW t \in Items, Goroutine(t) PROVE GInv'
    BY <1>1, <2>2, AcquireKeeps, AppendReadKeeps, AppendWriteKeeps, ReleaseKeeps,
       LeaveKeeps DEF Goroutine
  <2>3. ASSUME NEW t \in Items, NEW o, Deliver(t, o) PROVE GInv'
    BY <1>1, <2>3, DeliverKeeps
  <2>. QED
    BY <1>1, <2>1, <2>2, <2>3, CrashKeeps DEF GNext
<1>2. ASSUME GInv, UNCHANGED gvars PROVE GInv'
  <2>1. /\ \A b : InBatch(b)' = InBatch(b) /\ Running(b)' = Running(b)
        /\ \A t : BatchOf(t)' = BatchOf(t)
        /\ \A b, i : Due(b, i)' = Due(b, i)
    BY <1>2, Fixed DEF gvars, request, Running, Due
  <2>2. NoLostEntry'
    BY <1>2, <2>1, DueKept DEF GInv, NoLostEntry, gvars
  <2>. QED
    BY <1>2, <2>1, <2>2
    DEF GInv, gvars, GTypeOK, Started, Counted, Settled, Locked, Fresh
<1>. QED
  BY <1>1, <1>2

LEMMA Invariant == Spec => []GInv
<1>1. GInv /\ [Next]_vars => GInv'
  BY StepsOfTheGateway, GInvInductive
<1>. QED
  BY InitInv, <1>1, PTL DEF Spec

LEMMA Complete == GInv => AnswerIsComplete
<1> SUFFICES ASSUME GInv, NEW b \in Batches, phase[b] = "returned"
             PROVE  /\ Running(b) = {} /\ answer[b] = resp[b]
                    /\ \A t \in InBatch(b) : t \notin skipped => task[t] \in Ended
  BY DEF AnswerIsComplete
<1>1. Running(b) = {} /\ answer[b] = resp[b]
  BY DEF GInv, Settled
<1>2. ASSUME NEW t \in InBatch(b), t \notin skipped PROVE task[t] \in Ended
  <2>1. PICK n \in 1 .. Len(batch[b]) : batch[b][n] = t
    BY Places DEF GInv
  <2>2. task[t] # "none"
    <3>1. pos[b] = Len(batch[b]) /\ batch[b] \in Seq(Items)
      BY Places DEF GInv, Started
    <3>. QED
      BY <1>2, <2>1, <3>1 DEF GInv, Started
  <2>. QED
    BY <1>1, <2>2 DEF Running
<1>. QED
  BY <1>1, <1>2

\* The variables of plaintext.go beside those of the gateway.
PlainTyped ==
    /\ program \in {"secure", "plaintext"}
    /\ program = "plaintext" => P!PTypeOK

LEMMA PlainStaysTyped == PlainTyped /\ [Next]_vars => PlainTyped'
<1> SUFFICES ASSUME PlainTyped, [Next]_vars PROVE PlainTyped'
  OBVIOUS
<1>1. program' = program
  BY DEF Next, vars, Secure, Plaintext, SecureSend, SecureHandler, SecureItem, SecureCall,
         SecureServe, SecureResult, SecureHirb, SecureCrash, PlainSend, PlainHandler,
         PlainItem, PlainExpire, PlainAsk, PlainApply, PlainReturn, PlainFail, PlainTimeOut
<1>2. CASE program = "secure"
  BY <1>1, <1>2 DEF PlainTyped
<1>3. CASE program = "plaintext"
  <2>1. P!PTypeOK
    BY <1>3 DEF PlainTyped
  <2>2. ASSUME NEW b \in Batches, PlainSend(b) \/ PlainHandler(b) \/ PlainExpire(b)
        PROVE  P!PTypeOK'
    BY <2>1, <2>2 DEF PlainSend, PlainHandler, PlainExpire, P!Start, P!PHandler, P!Expire,
                      P!PTypeOK, P!etcd
  <2>3. ASSUME NEW t \in Items, PlainItem(t) PROVE P!PTypeOK'
    BY <2>1, <2>3 DEF PlainItem, P!PGoroutine, P!PTypeOK, P!etcd
  <2>4. ASSUME NEW t \in Items, PlainAsk(t) PROVE P!PTypeOK'
    BY <2>1, <2>4 DEF PlainAsk, P!Ask, P!PTypeOK, P!CallStates
  <2>5. ASSUME NEW t \in Items, PlainApply(t) PROVE P!PTypeOK'
    BY <2>1, <2>5 DEF PlainApply, P!Apply, P!PTypeOK, P!CallStates
  <2>6. ASSUME NEW t \in Items, PlainReturn(t) \/ PlainFail(t) \/ PlainTimeOut(t)
        PROVE  P!PTypeOK'
    BY <2>1, <2>6 DEF PlainReturn, PlainFail, PlainTimeOut, P!Return, P!Fail, P!TimeOut,
                      P!Fails, P!PTypeOK, P!CallStates
  <2>7. UNCHANGED vars => P!PTypeOK'
    BY <2>1 DEF vars, L!emm, P!PTypeOK
  <2>8. Next => P!PTypeOK'
    BY <1>3, <2>2, <2>3, <2>4, <2>5, <2>6
    DEF Next, Secure, SecureSend, SecureHandler, SecureItem, SecureCall, SecureServe,
        SecureResult, SecureHirb, SecureCrash
  <2>. QED
    BY <1>1, <1>3, <2>7, <2>8 DEF PlainTyped
<1>. QED
  BY <1>2, <1>3 DEF PlainTyped

\* Every variable of the gateway and of etcd keeps its type, whichever program
\* runs; above all the WaitGroup never falls below zero, which would panic.
THEOREM Typed == Spec => []TypeOK
<1>1. Init => PlainTyped
  BY DEF Init, PlainTyped, P!PInit, P!EtcdInit, P!PTypeOK, P!CallStates
<1>2. GInv /\ PlainTyped => TypeOK
  BY DEF GInv, PlainTyped, TypeOK
<1>. QED
  BY Invariant, <1>1, <1>2, PlainStaysTyped, PTL DEF Spec

\* Whatever becomes of their calls, goroutines of one batch that append to one
\* list lose no entry and double none, in either program.
THEOREM EntriesKept == Spec => []NoLostEntry
<1>1. GInv => NoLostEntry
  BY DEF GInv
<1>. QED
  BY Invariant, <1>1, PTL

\* In either program a batch is only answered when no goroutine of it is at
\* work any more and each of its supported items has been dealt with.
THEOREM CompleteAnswers == Spec => []AnswerIsComplete
BY Invariant, Complete, PTL

(***************************************************************************)
(* The plaintext gateway: for any calls that fail and any deadlines, its   *)
(* answers tell exactly what etcd acknowledged, and no read is stale.      *)
(***************************************************************************)
\* A call that etcd has served and whose caller has heard of it, or will.
Served(t) == call[t] \in {"applied", "acked"}

\* A goroutine is past its call exactly if the call is; with an entry to append
\* exactly if it was acknowledged.
CallsMatch ==
    \A t \in Items :
        /\ call[t] = "acked" <=> task[t] \in {"entry", "locked", "read"} \cup HasWritten
        /\ call[t] \in {"sent", "applied"} => task[t] = "calling"

\* Only acknowledged calls precede another.
Known == \A t \in Items : \A s \in before[t] : call[s] = "acked"

\* What etcd has under a key was written to it, and no write of the key that
\* etcd has served began after that one had been acknowledged.
Latest ==
    \A k \in Keys :
        /\ kv[k] # Blank => op[kv[k]] = "set" /\ key[kv[k]] = k
        /\ \A v \in Items :
              op[v] = "set" /\ key[v] = k /\ Served(v) => kv[k] # Blank /\ kv[k] \notin before[v]

\* The value that etcd has read for g is no stale one.
RightValue(g) ==
    IF got[g] = Blank THEN \A v \in before[g] : op[v] = "set" => key[v] # key[g]
    ELSE P!MayRead(g, got[g])

ReadsRight == \A g \in Items : op[g] = "get" /\ Served(g) => RightValue(g)

\* The inductive invariant behind PlaintextAnswers.
PInv == P!PTypeOK /\ CallsMatch /\ Known /\ Latest /\ ReadsRight
-----------------------------------------------------------------------------
LEMMA PInitInv == Init /\ program = "plaintext" => PInv
<1> SUFFICES ASSUME Init, program = "plaintext" PROVE PInv
  OBVIOUS
<1>1. P!PInit /\ GInv
  BY InitInv DEF Init
<1>2. P!PTypeOK
  BY <1>1 DEF P!PInit, P!EtcdInit, P!PTypeOK, P!CallStates
<1>3. /\ \A t \in Items : call[t] = "none" /\ before[t] = {}
      /\ \A k \in Keys : kv[k] = Blank
  BY <1>1 DEF P!PInit, P!EtcdInit
<1>4. \A t \in Items : task[t] = "none"
  <2>1. L!GInit
    BY DEF Init, L!Init
  <2>. QED
    BY <2>1 DEF L!GInit
<1>. QED
  BY <1>2, <1>3, <1>4 DEF PInv, CallsMatch, Known, Latest, ReadsRight, Served, HasWritten

\* The steps that do not concern etcd keep the goroutines on their side of the
\* call.
LEMMA HandlerOnlyStarts ==
  ASSUME GInv, NEW b \in Batches, Receive(b) \/ Handler(b), NEW t \in Items
  PROVE  task'[t] = task[t] \/ (task[t] = "none" /\ task'[t] = "calling")
<1>1. CASE Receive(b) \/ LoopEnds(b) \/ Reply(b)
  BY <1>1 DEF Receive, LoopEnds, Reply
<1>2. CASE Loop(b)
  <2> DEFINE next == batch[b][pos[b] + 1]
  <2>1. task' = task \/ task' = [task EXCEPT ![next] = "calling"]
    BY <1>2 DEF Loop
  <2>2. task[next] = "none" /\ next \in Items
    <3>1. /\ pos[b] \in Nat /\ pos[b] < Len(batch[b]) /\ phase[b] = "loop"
          /\ batch[b] \in Seq(Items)
      BY <1>2, Places DEF Loop, GInv, GTypeOK
    <3>2. pos[b] + 1 \in 1 .. Len(batch[b])
      BY <3>1
    <3>. QED
      BY <3>1, <3>2 DEF GInv, Started
  <2>. HIDE DEF next
  <2>. QED
    BY <2>1, <2>2 DEF GInv, GTypeOK
<1>. QED
  BY <1>1, <1>2 DEF Handler

LEMMA GoroutineGoesOn ==
  ASSUME GInv, NEW s \in Items, Goroutine(s), NEW t \in Items
  PROVE  \/ task'[t] = task[t]
         \/ /\ task[t] \in {"entry", "locked", "read"} \cup HasWritten
            /\ task'[t] \in {"entry", "locked", "read"} \cup HasWritten
         \/ task[t] = "quitting" /\ task'[t] = "quit"
<1>1. task \in [Items -> TaskStates]
  BY DEF GInv, GTypeOK
<1>. QED
  BY <1>1 DEF Goroutine, Acquire, AppendRead, AppendWrite, Release, Leave, HasWritten

LEMMA GatewayStepKeeps ==
  ASSUME GInv, PInv, UNCHANGED <<op, key, kv, call, got, before>>,
         expired' \subseteq Batches,
         \A t \in Items :
            \/ task'[t] = task[t]
            \/ task[t] = "none" /\ task'[t] = "calling"
            \/ /\ task[t] \in {"entry", "locked", "read"} \cup HasWritten
               /\ task'[t] \in {"entry", "locked", "read"} \cup HasWritten
            \/ task[t] = "quitting" /\ task'[t] = "quit"
  PROVE  PInv'
<1>1. P!PTypeOK'
  BY DEF PInv, P!PTypeOK
<1>2. CallsMatch'
  BY DEF PInv, CallsMatch, HasWritten
<1>3. Known' /\ Latest'
  BY DEF PInv, Known, Latest, Served
<1>4. ReadsRight'
  BY DEF PInv, ReadsRight, Served, RightValue, P!MayRead
<1>. QED
  BY <1>1, <1>2, <1>3, <1>4 DEF PInv

LEMMA GatewayStepsKeep ==
  ASSUME GInv, PInv,
         \/ \E b \in Batches : PlainSend(b) \/ PlainHandler(b) \/ PlainExpire(b)
         \/ \E t \in Items : PlainItem(t)
         \/ UNCHANGED vars
  PROVE  PInv'
<1>1. ASSUME NEW b \in Batches, PlainSend(b) \/ PlainHandler(b) PROVE PInv'
  <2>1. Receive(b) \/ Handler(b)
    BY <1>1, PlainIsGateway DEF PlainSend, PlainHandler, P!Start, P!PHandler
  <2>2. UNCHANGED <<op, key, kv, call, got, before, expired>>
    BY <1>1 DEF PlainSend, PlainHandler, P!Start, P!PHandler, P!etcd
  <2>3. expired' \subseteq Batches
    BY <2>2 DEF PInv, P!PTypeOK
  <2>. QED
    BY <2>1, <2>2, <2>3, HandlerOnlyStarts, GatewayStepKeeps
<1>2. ASSUME NEW t \in Items, PlainItem(t) PROVE PInv'
  <2>1. Goroutine(t)
    BY <1>2, PlainIsGateway DEF PlainItem, P!PGoroutine
  <2>2. UNCHANGED <<op, key, kv, call, got, before, expired>>
    BY <1>2 DEF PlainItem, P!PGoroutine, P!etcd
  <2>3. expired' \subseteq Batches
    BY <2>2 DEF PInv, P!PTypeOK
  <2>. QED
    BY <2>1, <2>2, <2>3, GoroutineGoesOn, GatewayStepKeeps
<1>3. ASSUME NEW b \in Batches, PlainExpire(b) PROVE PInv'
  <2>1. UNCHANGED <<task, op, key, kv, call, got, before>> /\ expired' \subseteq Batches
    BY <1>3 DEF PlainExpire, P!Expire, P!gvars, PInv, P!PTypeOK
  <2>. QED
    BY <2>1, GatewayStepKeeps
<1>4. CASE UNCHANGED vars
  <2>1. UNCHANGED <<task, op, key, kv, call, got, before>> /\ expired' \subseteq Batches
    BY <1>4 DEF vars, gvars, L!emm, PInv, P!PTypeOK
  <2>. QED
    BY <2>1, GatewayStepKeeps
<1>. QED
  BY <1>1, <1>2, <1>3, <1>4

\* A call remembers which calls were over when it was sent.
LEMMA AskKeeps ==
  ASSUME PInv, NEW t \in Items, P!Ask(t)
  PROVE  PInv'
<1>1. /\ task[t] = "calling" /\ call[t] = "none"
      /\ call' = [call EXCEPT ![t] = "sent"]
      /\ before' = [before EXCEPT ![t] = {s \in Items : call[s] = "acked"}]
      /\ UNCHANGED <<task, op, key, kv, expired, got>>
  BY DEF P!Ask, P!gvars
<1>2. P!PTypeOK /\ P!PTypeOK'
  BY <1>1 DEF PInv, P!PTypeOK, P!CallStates
<1>3. CallsMatch'
  BY <1>1, <1>2 DEF PInv, P!PTypeOK, CallsMatch, HasWritten
<1>4. Known'
  BY <1>1, <1>2 DEF PInv, P!PTypeOK, Known
<1>5. \A v \in Items : Served(v)' => Served(v) /\ v # t
  BY <1>1, <1>2 DEF P!PTypeOK, Served
<1>6. \A v \in Items : v # t => before'[v] = before[v]
  BY <1>1, <1>2 DEF P!PTypeOK
<1>7. Latest'
  BY <1>1, <1>5, <1>6 DEF PInv, Latest
<1>8. ASSUME NEW g \in Items, op'[g] = "get", Served(g)' PROVE RightValue(g)'
  <2>1. g # t /\ RightValue(g)
    BY <1>1, <1>5, <1>8 DEF PInv, ReadsRight
  <2>2. \A v \in before[g] : v # t /\ v \in Items
    BY <1>1, <1>2 DEF PInv, Known, P!PTypeOK
  <2>. QED
    BY <1>1, <1>6, <2>1, <2>2 DEF RightValue, P!MayRead
<1>. QED
  BY <1>2, <1>3, <1>4, <1>7, <1>8 DEF PInv, ReadsRight

\* What etcd takes is no write that any call had seen acknowledged before, and
\* what it reads is the latest value of the key.
LEMMA ApplyKeeps ==
  ASSUME PInv, NEW t \in Items, P!Apply(t)
  PROVE  PInv'
<1>1. /\ call[t] \in {"sent", "lost"}
      /\ call' = [call EXCEPT ![t] = IF @ = "sent" THEN "applied" ELSE "failed"]
      /\ UNCHANGED <<task, op, key, expired, before>>
  BY DEF P!Apply, P!gvars
<1>2. P!PTypeOK /\ P!PTypeOK'
  BY DEF PInv, P!PTypeOK, P!CallStates, P!Apply
<1>3. CallsMatch'
  BY <1>1, <1>2 DEF PInv, P!PTypeOK, CallsMatch, HasWritten
<1>4. Known'
  BY <1>1, <1>2 DEF PInv, P!PTypeOK, Known
<1>5. \A v \in Items : v # t => (Served(v)' <=> Served(v))
  BY <1>1, <1>2 DEF P!PTypeOK, Served
<1>6. \A v \in Items : t \notin before[v]
  BY <1>1, <1>2 DEF PInv, Known, P!PTypeOK
<1>7. CASE op[t] = "set"
  <2>1. kv' = [kv EXCEPT ![key[t]] = t] /\ got' = got
    BY <1>7 DEF P!Apply
  <2>2. Latest'
    <3> SUFFICES ASSUME NEW k \in Keys
                 PROVE  /\ kv'[k] # Blank => op[kv'[k]] = "set" /\ key[kv'[k]] = k
                        /\ \A v \in Items : op[v] = "set" /\ key[v] = k /\ Served(v)' =>
                              kv'[k] # Blank /\ kv'[k] \notin before[v]
      BY <1>1 DEF Latest
    <3>1. CASE k = key[t]
      <4>1. kv'[k] = t
        BY <1>2, <2>1, <3>1 DEF P!PTypeOK
      <4>. QED
        BY <1>6, <1>7, <3>1, <4>1, GatewaysAssumption
    <3>2. CASE k # key[t]
      <4>1. kv'[k] = kv[k]
        BY <1>2, <2>1, <3>2 DEF P!PTypeOK
      <4>. QED
        BY <1>5, <3>2, <4>1 DEF PInv, Latest
    <3>. QED
      BY <3>1, <3>2
  <2>3. ReadsRight'
    BY <1>1, <1>5, <1>7, <2>1 DEF PInv, ReadsRight, RightValue, P!MayRead
  <2>. QED
    BY <1>2, <1>3, <1>4, <2>2, <2>3 DEF PInv
<1>8. CASE op[t] = "get"
  <2>1. got' = [got EXCEPT ![t] = kv[key[t]]] /\ kv' = kv
    BY <1>8 DEF P!Apply
  <2>2. Latest'
    BY <1>1, <1>5, <1>8, <2>1 DEF PInv, Latest
  <2>3. ASSUME NEW g \in Items, op'[g] = "get", Served(g)' PROVE RightValue(g)'
    <3>1. CASE g = t
      <4>1. /\ got'[t] = kv[key[t]] /\ key[t] \in Keys
            /\ before[t] \subseteq Items
        BY <1>2, <2>1 DEF P!PTypeOK
      <4>2. \A v \in before[t] : Served(v)
        BY <4>1 DEF PInv, Known, Served
      <4>. QED
        BY <1>1, <3>1, <4>1, <4>2 DEF PInv, Latest, RightValue, P!MayRead
    <3>2. CASE g # t
      <4>1. RightValue(g) /\ got'[g] = got[g]
        BY <1>1, <1>2, <1>5, <2>1, <2>3, <3>2 DEF PInv, ReadsRight, P!PTypeOK
      <4>. QED
        BY <1>1, <4>1 DEF RightValue, P!MayRead
    <3>. QED
      BY <3>1, <3>2
  <2>. QED
    BY <1>2, <1>3, <1>4, <2>2, <2>3 DEF PInv, ReadsRight
<1>9. op[t] \in {"set", "get"}
  BY <1>2 DEF P!PTypeOK
<1>. QED
  BY <1>7, <1>8, <1>9

\* The end of a call takes its goroutine with it, and etcd has served no call
\* more than before.
LEMMA EndKeeps ==
  ASSUME GInv, PInv, NEW t \in Items,
         \/ P!Return(t)
         \/ P!Fails(t)
  PROVE  PInv'
<1>1. /\ UNCHANGED <<op, key, kv, expired, got, before>>
      /\ task \in [Items -> TaskStates]
      /\ P!PTypeOK
  BY DEF P!Return, P!Fails, PInv, GInv, GTypeOK
<1>2. /\ call[t] # "acked"
      /\ task[t] = "calling"
      /\ \/ /\ call[t] = "applied"
            /\ call' = [call EXCEPT ![t] = "acked"] /\ task' = [task EXCEPT ![t] = "entry"]
         \/ /\ call' = [call EXCEPT ![t] = "lost"] \/ call' = [call EXCEPT ![t] = "failed"]
            /\ task' = [task EXCEPT ![t] = "quitting"]
  <2>1. CASE P!Return(t)
    BY <2>1 DEF P!Return, P!Deliver
  <2>2. CASE P!Fails(t)
    BY <2>2 DEF P!Fails, P!Deliver
  <2>. QED
    BY <2>1, <2>2
<1>3. P!PTypeOK'
  BY <1>1, <1>2 DEF P!PTypeOK, P!CallStates
<1>4. CallsMatch'
  BY <1>1, <1>2 DEF PInv, P!PTypeOK, CallsMatch, HasWritten
<1>5. Known'
  BY <1>1, <1>2 DEF PInv, P!PTypeOK, Known
<1>6. \A v \in Items : Served(v)' => Served(v)
  BY <1>1, <1>2 DEF P!PTypeOK, Served
<1>7. Latest'
  BY <1>1, <1>6 DEF PInv, Latest
<1>8. ReadsRight'
  BY <1>1, <1>6 DEF PInv, ReadsRight, RightValue, P!MayRead
<1>. QED
  BY <1>3, <1>4, <1>5, <1>7, <1>8 DEF PInv

\* With the gateway's own invariant, PInv is inductive.
PlainInv == program = "plaintext" => PInv

LEMMA PlainInvInductive == GInv /\ PlainInv /\ [Next]_vars => PlainInv'
<1> SUFFICES ASSUME GInv, PlainInv, [Next]_vars, program' = "plaintext" PROVE PInv'
  BY DEF PlainInv
<1>1. program = "plaintext"
  BY DEF Next, vars, Secure, Plaintext, SecureSend, SecureHandler, SecureItem, SecureCall,
         SecureServe, SecureResult, SecureHirb, SecureCrash, PlainSend, PlainHandler,
         PlainItem, PlainExpire, PlainAsk, PlainApply, PlainReturn, PlainFail, PlainTimeOut
<1>2. PInv
  BY <1>1 DEF PlainInv
<1>3. ASSUME NEW t \in Items, PlainAsk(t) \/ PlainApply(t) PROVE PInv'
  BY <1>2, <1>3, AskKeeps, ApplyKeeps DEF PlainAsk, PlainApply
<1>4. ASSUME NEW t \in Items, PlainReturn(t) \/ PlainFail(t) \/ PlainTimeOut(t)
      PROVE  PInv'
  BY <1>2, <1>4, EndKeeps DEF PlainReturn, PlainFail, PlainTimeOut, P!Fail, P!TimeOut
<1>. QED
  BY <1>1, <1>2, <1>3, <1>4, GatewayStepsKeep
  DEF Next, Secure, SecureSend, SecureHandler, SecureItem, SecureCall, SecureServe,
      SecureResult, SecureHirb, SecureCrash
-----------------------------------------------------------------------------
\* In an answered batch the entries are those of the goroutines that finished
\* with one.
LEMMA PlainEntriesAreDone ==
  ASSUME GInv, NEW b \in Batches, phase[b] = "returned", NEW t \in InBatch(b)
  PROVE  t \in P!Entries(b) <=> task[t] = "done"
<1>1. Running(b) = {} /\ answer[b] = resp[b]
  BY DEF GInv, Settled
<1>2. t \in Items /\ rid[t] \in Rids
  BY Places DEF GInv, GTypeOK
<1>3. \A i \in Rids : {resp[b][i][n] : n \in DOMAIN resp[b][i]} = Due(b, i)
  BY DEF GInv, NoLostEntry, HoldsDue
<1>4. t \in P!Entries(b) <=> \E i \in Rids : t \in Due(b, i)
  BY <1>1, <1>3 DEF P!Entries
<1>5. (\E i \in Rids : t \in Due(b, i)) <=> task[t] \in HasWritten
  BY <1>2 DEF Due
<1>6. task[t] \in {"none"} \cup Ended
  BY <1>1 DEF Running
<1>. QED
  BY <1>4, <1>5, <1>6 DEF HasWritten, Ended

\* plaintext.go answers a batch with an entry for every call that etcd has
\* acknowledged and for no other, and with no value that had been overwritten
\* before the read began, whichever calls fail and whenever deadlines pass.
THEOREM FreshAnswers == Spec => []PlaintextAnswers
<1>1. GInv /\ PlainInv => PlaintextAnswers
  <2> SUFFICES ASSUME GInv, PInv, NEW b \in Batches, phase[b] = "returned",
                      NEW t \in InBatch(b)
               PROVE  /\ t \in P!Entries(b) <=> call[t] = "acked"
                      /\ op[t] = "get" /\ call[t] = "acked" => RightValue(t)
    BY DEF PlainInv, PlaintextAnswers, P!PlaintextAnswers, P!InBatch, InBatch, RightValue
  <2>1. t \in Items /\ Running(b) = {}
    BY Places DEF GInv, Settled
  <2>2. task[t] \in {"none"} \cup Ended
    BY <2>1 DEF Running
  <2>3. call[t] = "acked" <=> task[t] = "done"
    BY <2>1, <2>2 DEF PInv, CallsMatch, HasWritten, Ended
  <2>. QED
    BY <2>1, <2>3, PlainEntriesAreDone DEF PInv, ReadsRight, Served
<1>2. Init => PlainInv
  BY PInitInv DEF PlainInv
<1>. QED
  BY Invariant, <1>1, <1>2, PlainInvInductive, PTL DEF Spec
-----------------------------------------------------------------------------
(***************************************************************************)
(* secure.go as a whole, gateway and EMM server: from how the EMM server   *)
(* orders the requests on a key (RefinementProofs) and how the gateway     *)
(* collects their answers, that a batch is answered with the last writes   *)
(* of the batches before it.                                               *)
(***************************************************************************)
\* The EMM server, of which RefinementProofs speaks.  That the requests on one
\* key do not overlap is now for the gateway to bring about.
RP == INSTANCE RefinementProofs WITH
    Requests <- Items, Ops <- {"set", "get", "del"}, ExclusiveKeys <- TRUE

\* Batches in progress have no key in common, nothing fails or restarts, and the
\* store has a block for every key.  Ciphertexts may be damaged in storage.
Conditions ==
    /\ DisjointKeys
    /\ MaxFaults = 0 /\ MaxHirbRestarts = 0 /\ MaxEmmRestarts = 0
    /\ NumBlocks \in Nat /\ Parts # {}
    /\ IsFiniteSet(Keys) /\ Cardinality(Keys) < NumBlocks

\* The handlers of the EMM server and the goroutines of the gateway keep step.
Matched ==
    \A t \in Items :
        /\ task[t] = "none" => pc[t] = "idle"
        /\ pc[t] \in RP!Active => task[t] = "calling"
        /\ task[t] \in {"entry", "locked", "read"} \cup HasWritten => pc[t] \in {"ok", "value"}
        /\ task[t] \in {"quitting", "quit"} => pc[t] \in {"nil", "error"}

\* Items of batches in progress have different keys.
InProgress(b) == phase[b] \in {"loop", "wait"}
Distinct ==
    \A b, c \in Batches : InProgress(b) /\ InProgress(c) =>
        \A t \in InBatch(b), u \in InBatch(c) : key[t] = key[u] => t = u

NoneYet == \A b \in Batches : phase[b] = "new" => pos[b] = 0

\* The inductive invariant behind AnswersLastWrite, beside GInv.
SInv == RP!OInv /\ Matched /\ Distinct /\ NoneYet
-----------------------------------------------------------------------------
LEMMA EmmConditions == Conditions => RP!EmmAssumption /\ RP!Conditions
<1> SUFFICES ASSUME Conditions PROVE RP!EmmAssumption /\ RP!Conditions
  OBVIOUS
<1>1. Cardinality(Keys) \in Nat
  BY FS_CardinalityType DEF Conditions
<1>2. NumBlocks \in Nat \ {0}
  BY <1>1 DEF Conditions
<1>. QED
  BY <1>2, GatewaysAssumption DEF Conditions, RP!EmmAssumption, RP!AllOps, RP!Conditions,
                               RP!Cardinality, Cardinality, RP!IsFiniteSet, IsFiniteSet

\* The actions of the EMM server, named in Locker, are those of RefinementProofs.
LEMMA SameNames ==
  /\ L!E!Init => RP!Init
  /\ \A t : L!E!Done(t) <=> RP!Done(t)
  /\ \A t : L!E!Mutator(t) <=> RP!Mutator(t)
  /\ \A b : L!InBatch(b) = InBatch(b)
<1>1. L!E!Init => RP!Init
  BY DEF L!E!Init, RP!Init, L!E!FirstId, RP!FirstId, L!E!Blocks, RP!Blocks, L!E!Empty,
         RP!Empty, L!E!NoId, RP!NoId
<1>. QED
  BY <1>1 DEF L!E!Done, RP!Done, L!E!Answered, RP!Answered, L!E!Mutator, RP!Mutator,
              L!InBatch, InBatch

LEMMA SameServe ==
  ASSUME NEW t \in Items, L!E!Handle(t)
  PROVE  RP!Handle(t)
<1> USE DEF L!E!emmVars, RP!emmVars, L!E!workload, RP!workload, L!E!budget, RP!budget
<1>1. L!E!HirbGet(t) => RP!HirbGet(t)
  BY DEF L!E!HirbGet, RP!HirbGet, L!E!NoId, RP!NoId
<1>2. L!E!HirbGetFails(t) => RP!HirbGetFails(t)
  BY DEF L!E!HirbGetFails, RP!HirbGetFails
<1>3. L!E!TakeId(t) => RP!TakeId(t)
  BY DEF L!E!TakeId, RP!TakeId
<1>4. L!E!HirbSet(t) => RP!HirbSet(t)
  BY DEF L!E!HirbSet, RP!HirbSet
<1>5. L!E!HirbSetFails(t) => RP!HirbSetFails(t)
  BY DEF L!E!HirbSetFails, RP!HirbSetFails
<1>6. L!E!AccessBeyond(t) => RP!AccessBeyond(t)
  BY DEF L!E!AccessBeyond, RP!AccessBeyond, L!E!InStore, RP!InStore, L!E!Mutator, RP!Mutator
<1>7. L!E!AccessBlock(t) => RP!AccessBlock(t)
  BY DEF L!E!AccessBlock, RP!AccessBlock, L!E!InStore, RP!InStore
<1>8. L!E!Unsupported(t) => RP!Unsupported(t)
  BY DEF L!E!Unsupported, RP!Unsupported
<1>9. \A p \in Parts : L!E!CopyPart(t, p) => RP!CopyPart(t, p)
  BY DEF L!E!CopyPart, RP!CopyPart
<1>10. L!E!Finish(t) => RP!Finish(t)
  BY DEF L!E!Finish, RP!Finish, L!E!Mutator, RP!Mutator, L!E!Decode, RP!Decode
<1>. QED
  BY <1>1, <1>2, <1>3, <1>4, <1>5, <1>6, <1>7, <1>8, <1>9, <1>10
  DEF L!E!Handle, RP!Handle

LEMMA StayPut ==
  ASSUME UNCHANGED L!emm
  PROVE  UNCHANGED RP!vars
BY DEF L!emm, RP!vars

\* A goroutine that is calling belongs to a batch in progress.
LEMMA CallingInProgress ==
  ASSUME GInv, NoneYet, NEW t \in Items, task[t] = "calling"
  PROVE  InProgress(BatchOf(t))
<1> DEFINE b == BatchOf(t)
<1>1. b \in Batches /\ t \in InBatch(b) /\ batch[b] \in Seq(Items)
  BY Places DEF GInv
<1>2. PICK n \in 1 .. Len(batch[b]) : batch[b][n] = t
  BY <1>1, Places DEF GInv
<1>3. phase[b] # "new"
  <2>1. phase[b] = "new" => n <= pos[b] /\ pos[b] = 0
    BY <1>1, <1>2 DEF GInv, Started, NoneYet
  <2>. QED
    BY <1>1, <2>1
<1>4. phase[b] # "returned"
  BY <1>1 DEF GInv, Settled, Running, Ended
<1>5. phase[b] # "broken"
  BY <1>1 DEF GInv, Settled
<1>. QED
  BY <1>1, <1>3, <1>4, <1>5 DEF GInv, GTypeOK, Phases, InProgress

LEMMA CallIsArrive ==
  ASSUME GInv, SInv, NEW t \in Items, L!Call(t)
  PROVE  RP!Arrive(t)
<1>1. task[t] = "calling" /\ L!E!Arrive(t)
  BY DEF L!Call
<1>2. pc[t] = "idle"
  BY <1>1 DEF L!E!Arrive
<1>3. ASSUME NEW s \in Items, RP!InFlight(s) PROVE key[s] # key[t]
  <2>1. task[s] = "calling" /\ s # t
    BY <1>2, <1>3 DEF SInv, Matched, RP!InFlight, RP!Active
  <2>2. InProgress(BatchOf(s)) /\ InProgress(BatchOf(t))
    BY <1>1, <2>1, CallingInProgress DEF SInv
  <2>3. /\ BatchOf(s) \in Batches /\ s \in InBatch(BatchOf(s))
        /\ BatchOf(t) \in Batches /\ t \in InBatch(BatchOf(t))
    BY Places DEF GInv
  <2>. QED
    BY <2>1, <2>2, <2>3 DEF SInv, Distinct
<1>. QED
  BY <1>1, <1>3 DEF L!E!Arrive, RP!Arrive, L!E!Done, RP!Done, L!E!Answered, RP!Answered,
                    L!E!emmVars, RP!emmVars, L!E!workload, RP!workload, L!E!budget, RP!budget

\* Nothing restarts.
LEMMA NoRestarts ==
  ASSUME Conditions, RP!OInv
  PROVE  ~L!HirbRestarts /\ ~L!Crash
<1>1. hirbRestarts \in Nat /\ emmRestarts \in Nat
  BY DEF RP!OInv, RP!RInv, RP!FInv, RP!IInv, RP!TInv, RP!TypeOK
<1>. QED
  BY <1>1 DEF Conditions, L!HirbRestarts, L!Crash, L!E!HirbRestart, L!E!EmmRestart

\* What secure.go can do then.
LEMMA SecureNext ==
  ASSUME Conditions, SInv, program = "secure", Next
  PROVE  /\ program' = program
         /\ \/ \E b \in Batches : L!Send(b) \/ L!GatewayHandler(b)
            \/ \E t \in Items : L!GatewayItem(t) \/ L!Call(t) \/ L!Serve(t) \/ L!Result(t)
<1>1. \/ \E b \in Batches : SecureSend(b) \/ SecureHandler(b)
      \/ \E t \in Items :
            SecureItem(t) \/ SecureCall(t) \/ SecureServe(t) \/ SecureResult(t)
      \/ SecureHirb \/ SecureCrash
  BY DEF Next, Plaintext, PlainSend, PlainHandler, PlainItem, PlainExpire, PlainAsk,
         PlainApply, PlainReturn, PlainFail, PlainTimeOut
<1>2. ~SecureHirb /\ ~SecureCrash
  BY NoRestarts DEF SecureHirb, SecureCrash, SInv
<1>. QED
  BY <1>1, <1>2 DEF SecureSend, SecureHandler, SecureItem, SecureCall, SecureServe,
                    SecureResult, Secure

LEMMA ServerKept ==
  ASSUME Conditions, GInv, SInv, program = "secure", Next
  PROVE  RP!OInv' /\ key' = key
<1>1. [RP!Next]_(RP!vars)
  <2>1. ASSUME NEW b \in Batches, L!Send(b) \/ L!GatewayHandler(b) PROVE UNCHANGED RP!vars
    BY <2>1, StayPut DEF L!Send, L!GatewayHandler
  <2>2. ASSUME NEW t \in Items, L!GatewayItem(t) \/ L!Result(t) PROVE UNCHANGED RP!vars
    BY <2>2, StayPut DEF L!GatewayItem, L!Result
  <2>3. ASSUME NEW t \in Items, L!Call(t) PROVE RP!Next
    BY <2>3, CallIsArrive DEF RP!Next
  <2>4. ASSUME NEW t \in Items, L!Serve(t) PROVE RP!Next
    BY <2>4, SameServe DEF L!Serve, RP!Next
  <2>. QED
    BY <2>1, <2>2, <2>3, <2>4, SecureNext
<1>2. RP!EmmAssumption /\ RP!Conditions
  BY EmmConditions
<1>3. RP!OInv'
  BY <1>1, <1>2, RP!OInvInductive DEF SInv
<1>. QED
  BY <1>1, <1>2, <1>3, RP!BodiesFixed DEF RP!workload, RP!vars
-----------------------------------------------------------------------------
\* What a step of the gateway does to a goroutine.
TaskMoves(old, new) ==
    \/ new = old
    \/ new = "calling"
    \/ old = "entry" /\ new = "locked"
    \/ old = "locked" /\ new = "read"
    \/ old = "read" /\ new = "written"
    \/ old = "written" /\ new = "leaving"
    \/ old = "leaving" /\ new = "done"
    \/ old = "quitting" /\ new = "quit"

LEMMA GatewayMoves ==
  ASSUME GInv, \/ \E b \in Batches : L!Send(b) \/ L!GatewayHandler(b)
               \/ \E t \in Items : L!GatewayItem(t)
  PROVE  pc' = pc /\ \A t \in Items : TaskMoves(task[t], task'[t])
<1> USE DEF GInv, GTypeOK
<1>1. pc' = pc
  BY DEF L!Send, L!GatewayHandler, L!GatewayItem, L!emm
<1>2. ASSUME NEW b \in Batches, L!Send(b) PROVE task' = task
  BY <1>2 DEF L!Send, L!Receive
<1>3. ASSUME NEW b \in Batches, L!GatewayHandler(b)
      PROVE  \A t \in Items : task'[t] \in {task[t], "calling"}
  <2>1. PICK u : task' \in {task, [task EXCEPT ![u] = "calling"]}
    BY <1>3 DEF L!GatewayHandler, L!Handler, L!Loop, L!LoopEnds, L!Reply
  <2>. QED
    BY <2>1
<1>4. ASSUME NEW t \in Items, L!GatewayItem(t)
      PROVE  \A u \in Items : TaskMoves(task[u], task'[u])
  BY <1>4 DEF L!GatewayItem, L!Goroutine, L!Acquire, L!AppendRead, L!AppendWrite,
              L!Release, L!Leave, TaskMoves
<1>. QED
  BY <1>1, <1>2, <1>3, <1>4 DEF TaskMoves

LEMMA MatchedKept ==
  ASSUME Conditions, GInv, SInv, program = "secure", Next
  PROVE  Matched'
<1> USE DEF GInv, GTypeOK
<1>1. RP!TypeOK /\ Matched
  BY DEF SInv, RP!OInv, RP!RInv, RP!FInv, RP!IInv, RP!TInv
<1>2. CASE \/ \E b \in Batches : L!Send(b) \/ L!GatewayHandler(b)
           \/ \E t \in Items : L!GatewayItem(t)
  <2>1. pc' = pc /\ \A t \in Items : TaskMoves(task[t], task'[t])
    BY <1>2, GatewayMoves
  <2>. QED
    BY <1>1, <2>1 DEF Matched, TaskMoves, HasWritten
<1>3. ASSUME NEW t \in Items, L!Call(t) PROVE Matched'
  <2>1. /\ task[t] = "calling" /\ task' = task
        /\ \A u \in Items : u # t => pc'[u] = pc[u]
    BY <1>1, <1>3 DEF L!Call, L!gvars, L!E!Arrive, RP!TypeOK
  <2>. QED
    BY <1>1, <2>1 DEF Matched, HasWritten
<1>4. ASSUME NEW t \in Items, L!Serve(t) PROVE Matched'
  <2>1. RP!Handle(t) /\ task' = task
    BY <1>4, SameServe DEF L!Serve, L!gvars
  <2>2. pc[t] \in RP!Active
    BY <2>1 DEF RP!Handle, RP!HirbGet, RP!HirbGetFails, RP!TakeId, RP!HirbSet,
                RP!HirbSetFails, RP!AccessBeyond, RP!AccessBlock, RP!Unsupported,
                RP!CopyPart, RP!Finish, RP!Active
  <2>3. task[t] = "calling"
    BY <1>1, <2>2 DEF Matched
  <2>4. \A u \in Items : u # t => pc'[u] = pc[u]
    BY <1>1, <2>1
    DEF RP!Handle, RP!HirbGet, RP!HirbGetFails, RP!TakeId, RP!HirbSet, RP!HirbSetFails,
        RP!AccessBeyond, RP!AccessBlock, RP!Unsupported, RP!CopyPart, RP!Finish, RP!TypeOK
  <2>. QED
    BY <1>1, <2>1, <2>3, <2>4 DEF Matched, HasWritten
<1>5. ASSUME NEW t \in Items, L!Result(t) PROVE Matched'
  <2>1. /\ pc' = pc /\ pc[t] \in {"ok", "nil", "value", "error"}
        /\ task' = [task EXCEPT ![t] = IF pc[t] \in {"ok", "value"} THEN "entry"
                                       ELSE "quitting"]
    <3>1. L!E!Done(t) /\ pc' = pc
      BY <1>5 DEF L!Result, L!emm
    <3>2. L!Deliver(t, IF pc[t] \in {"ok", "value"} THEN "entry" ELSE "silent")
      BY <1>5 DEF L!Result
    <3>. QED
      BY <3>1, <3>2 DEF L!Deliver, L!E!Done, L!E!Answered
  <2>2. \A u \in Items : u # t => task'[u] = task[u]
    BY <2>1
  <2>3. task'[t] = IF pc[t] \in {"ok", "value"} THEN "entry" ELSE "quitting"
    BY <2>1
  <2>. QED
    BY <1>1, <2>1, <2>2, <2>3 DEF Matched, HasWritten, RP!Active
<1>. QED
  BY <1>2, <1>3, <1>4, <1>5, SecureNext

\* A batch that the client may send has different keys for its items.
LEMMA SentDistinct ==
  ASSUME GInv, NEW b \in Batches, L!MaySend(b)
  PROVE  /\ \A t, u \in InBatch(b) : key[t] = key[u] => t = u
         /\ \A c \in Batches : InProgress(c) =>
               \A t \in InBatch(b), u \in InBatch(c) : key[t] # key[u]
<1> DEFINE n == Len(batch[b])
           T == {key[t] : t \in InBatch(b)}
           f == [i \in 1 .. n |-> key[batch[b][i]]]
<1>1. /\ batch[b] \in Seq(Items) /\ n \in Nat
      /\ InBatch(b) = {batch[b][i] : i \in 1 .. n}
  BY Places DEF GInv
<1>2. Cardinality(T) = n
  BY SameNames DEF L!MaySend, L!KeysOf, L!Cardinality, Cardinality
<1>3. IsFiniteSet(1 .. n) /\ Cardinality(1 .. n) = n
  BY <1>1, FS_Interval, SMTT(30)
<1>4. f \in Surjection(1 .. n, T)
  BY <1>1 DEF Surjection
<1>5. f \in Injection(1 .. n, T)
  <2>1. Cardinality(T) = Cardinality(1 .. n)
    BY <1>2, <1>3
  <2>. HIDE DEF f, T, n
  <2>. QED
    BY <1>3, <1>4, <2>1, FS_Surjection
<1>6. \A t, u \in InBatch(b) : key[t] = key[u] => t = u
  <2>1. \A i, j \in 1 .. n : f[i] = f[j] => i = j
    <3>. HIDE DEF f, T, n
    <3>. QED
      BY <1>5 DEF Injection, IsInjective
  <2>2. \A i, j \in 1 .. n : key[batch[b][i]] = key[batch[b][j]] => i = j
    BY <2>1
  <2>. HIDE DEF n
  <2>. QED
    BY <1>1, <2>2
<1>7. \A c \in Batches : InProgress(c) =>
         \A t \in InBatch(b), u \in InBatch(c) : key[t] # key[u]
  BY SameNames DEF L!MaySend, L!KeysOf, InProgress
<1>. QED
  BY <1>6, <1>7

LEMMA DistinctKept ==
  ASSUME Conditions, GInv, SInv, program = "secure", Next
  PROVE  Distinct' /\ NoneYet'
<1> USE DEF GInv, GTypeOK, SInv
<1>1. key' = key
  BY ServerKept
<1>2. ASSUME NEW b \in Batches, L!Send(b) PROVE Distinct' /\ NoneYet'
  <2>1. /\ L!MaySend(b) /\ phase' = [phase EXCEPT ![b] = "loop"]
        /\ UNCHANGED <<request, pos>>
    BY <1>2 DEF L!Send, L!Receive, L!request, request, Conditions
  <2>2. \A c : InBatch(c)' = InBatch(c)
    BY <2>1, Fixed
  <2>3. \A c \in Batches : InProgress(c)' => c = b \/ InProgress(c)
    BY <2>1 DEF InProgress
  <2>4. Distinct'
    <3> SUFFICES ASSUME NEW c \in Batches, NEW d \in Batches,
                        InProgress(c)', InProgress(d)',
                        NEW t \in InBatch(c), NEW u \in InBatch(d), key[t] = key[u]
                 PROVE  t = u
      BY <1>1, <2>2 DEF Distinct
    <3>. QED
      BY <2>1, <2>3, SentDistinct DEF Distinct
  <2>. QED
    BY <2>1, <2>4 DEF NoneYet
<1>3. ASSUME NEW b \in Batches, L!GatewayHandler(b) PROVE Distinct' /\ NoneYet'
  <2>1. /\ phase[b] # "new" /\ UNCHANGED request
        /\ \A c \in Batches : phase'[c] = "new" => phase[c] = "new" /\ pos'[c] = pos[c]
        /\ \A c \in Batches : InProgress(c)' => InProgress(c)
    BY <1>3 DEF L!GatewayHandler, L!Handler, L!Loop, L!LoopEnds, L!Reply, L!request,
                request, InProgress
  <2>2. \A c : InBatch(c)' = InBatch(c)
    BY <2>1, Fixed
  <2>. QED
    BY <1>1, <2>1, <2>2 DEF Distinct, NoneYet
<1>4. ASSUME NEW t \in Items, L!GatewayItem(t) \/ L!Call(t) \/ L!Serve(t) \/ L!Result(t)
      PROVE  Distinct' /\ NoneYet'
  <2>1. UNCHANGED <<request, phase, pos>>
    BY <1>4 DEF L!GatewayItem, L!Goroutine, L!Acquire, L!AppendRead, L!AppendWrite,
                L!Release, L!Leave, L!Call, L!Serve, L!Result, L!Deliver, L!request,
                L!gvars, request
  <2>2. \A c : InBatch(c)' = InBatch(c)
    BY <2>1, Fixed
  <2>. QED
    BY <1>1, <2>1, <2>2 DEF Distinct, NoneYet, InProgress
<1>. QED
  BY <1>2, <1>3, <1>4, SecureNext

LEMMA SInvKept ==
  ASSUME Conditions, GInv, SInv, program = "secure", [Next]_vars
  PROVE  SInv'
<1>1. CASE Next
  BY <1>1, ServerKept, MatchedKept, DistinctKept DEF SInv
<1>2. CASE UNCHANGED vars
  <2>1. RP!OInv'
    <3>1. RP!EmmAssumption /\ RP!Conditions
      BY EmmConditions
    <3>2. UNCHANGED RP!vars
      BY <1>2, StayPut DEF vars
    <3>. QED
      BY <3>1, <3>2, RP!OInvInductive DEF SInv
  <2>2. UNCHANGED <<request, phase, pos, task, pc, key>>
    BY <1>2 DEF vars, gvars, request, L!emm
  <2>3. \A c : InBatch(c)' = InBatch(c)
    BY <2>2, Fixed
  <2>. QED
    BY <2>1, <2>2, <2>3 DEF SInv, Matched, Distinct, NoneYet, InProgress
<1>. QED
  BY <1>1, <1>2

LEMMA InitSecure == Conditions /\ Init => SInv
<1> SUFFICES ASSUME Conditions, Init PROVE SInv
  OBVIOUS
<1>1. L!GInit /\ L!E!Init
  BY DEF Init, L!Init
<1>2. RP!OInv
  <2>1. RP!EmmAssumption /\ RP!Conditions
    BY EmmConditions
  <2>2. RP!Init
    BY <1>1, SameNames
  <2>. QED
    BY <2>1, <2>2, RP!InitOrdered
<1>3. /\ \A t \in Items : task[t] = "none" /\ pc[t] = "idle"
      /\ \A b \in Batches : phase[b] = "new" /\ pos[b] = 0
  BY <1>1 DEF L!GInit, L!E!Init
<1>4. Matched
  BY <1>3 DEF Matched, HasWritten, RP!Active
<1>5. Distinct /\ NoneYet
  BY <1>3 DEF Distinct, NoneYet, InProgress
<1>. QED
  BY <1>2, <1>4, <1>5 DEF SInv
-----------------------------------------------------------------------------
\* The body of an answer holds the items whose goroutine was done.
LEMMA EntriesAreDone ==
  ASSUME GInv, NEW b \in Batches, phase[b] = "returned", NEW t \in InBatch(b), t \notin skipped
  PROVE  /\ task[t] \in {"done", "quit"}
         /\ t \in L!Entries(b) <=> task[t] = "done"
<1>1. task[t] \in {"done", "quit"} /\ answer[b] = resp[b]
  BY Complete DEF AnswerIsComplete, Ended
<1>2. t \in Items /\ rid[t] \in Rids
  BY Places DEF GInv, GTypeOK
<1>3. \A i \in Rids : {answer[b][i][n] : n \in DOMAIN answer[b][i]} = Due(b, i)
  BY <1>1 DEF GInv, NoLostEntry, HoldsDue
<1>4. L!Entries(b) = UNION {Due(b, i) : i \in Rids}
  BY <1>3 DEF L!Entries
<1>5. t \in L!Entries(b) <=> task[t] \in HasWritten
  BY <1>2, <1>4 DEF Due
<1>. QED
  BY <1>1, <1>5 DEF HasWritten

\* What a get was answered is what its last mutator, which is one, left.
LEMMA GotTheLast ==
  ASSUME Conditions, SInv, NEW t \in Items, op[t] = "get", pc[t] \in {"nil", "value"}
  PROVE  \/ got[t] = Blank /\ \A w \in Items : L!IsLast(w, t) => ~(op[w] = "set" /\ intact[w])
         \/ \E w \in Items : got[t] = w /\ op[w] = "set" /\ intact[w] /\ L!IsLast(w, t)
<1> DEFINE S == L!Earlier(t)
<1>1. S = RP!Prior(t)
  BY SameNames DEF L!Earlier, RP!Prior
<1>2. RP!Left(got[t], S)
  BY <1>1 DEF SInv, RP!OInv, RP!OutIsLast, RP!AbsOut
<1>3. S \subseteq Items /\ \A u, w \in S : u \in before[w] => w \notin before[u]
  <2>1. before[t] \subseteq Items
    BY DEF SInv, RP!OInv, RP!RInv, RP!FInv, RP!IInv, RP!TInv, RP!TypeOK
  <2>2. S \subseteq Items
    BY <2>1 DEF L!Earlier
  <2>. QED
    BY <2>2 DEF SInv, RP!OInv, RP!Order
<1>4. CASE S = {}
  BY <1>2, <1>4 DEF RP!Left, L!IsLast
<1>5. CASE S # {}
  <2>1. PICK w \in S : /\ \A u \in S \ {w} : u \in before[w]
                       /\ got[t] = IF op[w] = "set" /\ intact[w] THEN w ELSE Blank
    BY <1>2, <1>5 DEF RP!Left, RP!Effect
  <2>2. L!IsLast(w, t)
    BY <1>3, <2>1 DEF L!IsLast
  <2>3. \A x : L!IsLast(x, t) => x = w
    BY <2>1 DEF L!IsLast
  <2>. QED
    BY <1>3, <2>1, <2>2, <2>3
<1>. QED
  BY <1>4, <1>5

LEMMA LastWrites == Conditions /\ GInv /\ SInv => L!AnswersLastWrite
<1> SUFFICES ASSUME Conditions, GInv, SInv,
                    NEW b \in Batches, phase[b] = "returned",
                    NEW t \in InBatch(b), t \notin skipped
             PROVE  LET hits == {w \in Items : op[w] = "set" /\ intact[w] /\ L!IsLast(w, t)}
                    IN  /\ op[t] = "get" /\ hits # {} => got[t] \in hits
                        /\ t \in L!Entries(b) <=> (op[t] = "get" => hits # {})
  BY SameNames DEF L!AnswersLastWrite
<1> DEFINE hits == {w \in Items : op[w] = "set" /\ intact[w] /\ L!IsLast(w, t)}
<1>1. t \in Items /\ op[t] \in {"set", "get", "del"} /\ Blank \notin Items
  BY Places, GatewaysAssumption
  DEF GInv, SInv, RP!OInv, RP!RInv, RP!FInv, RP!IInv, RP!TInv, RP!TypeOK
<1>2. /\ task[t] \in {"done", "quit"}
      /\ t \in L!Entries(b) <=> task[t] = "done"
  BY EntriesAreDone
<1>3. /\ task[t] = "done" => pc[t] \in {"ok", "value"}
      /\ task[t] = "quit" => pc[t] \in {"nil", "error"}
  BY <1>1 DEF SInv, Matched, HasWritten
<1>4. pc[t] = IF op[t] = "get" THEN IF got[t] = Blank THEN "nil" ELSE "value" ELSE "ok"
  BY <1>1, <1>2, <1>3
  DEF SInv, RP!OInv, RP!Outcome, RP!Done, RP!Answered, RP!Mutator
<1>5. t \in L!Entries(b) <=> pc[t] \in {"ok", "value"}
  BY <1>2, <1>3
<1>6. CASE op[t] # "get"
  BY <1>4, <1>5, <1>6
<1>7. CASE op[t] = "get"
  <2>1. \/ got[t] = Blank /\ hits = {}
        \/ got[t] \in hits
    BY <1>1, <1>4, <1>7, GotTheLast
  <2>. QED
    BY <1>1, <1>4, <1>5, <1>7, <2>1
<1>. QED
  BY <1>6, <1>7

\* When batches in progress have no key in common, nothing fails or restarts and
\* the store has a block for every key, secure.go answers each read of a batch
\* with the value of the last write before it, or not at all if there is none, a
\* delete followed or storage damaged that write's ciphertext, never with an
\* older value, and reports every write: for any batches, items and keys,
\* whichever ciphertexts come back damaged, and however its goroutines and the
\* handlers of the EMM server interleave.
THEOREM EndToEnd ==
  ASSUME Conditions
  PROVE  Spec => []AnswersLastWrite
<1> DEFINE Inv == GInv /\ (program = "secure" => SInv)
<1>1. Init => Inv
  BY InitInv, InitSecure
<1>2. Inv /\ [Next]_vars => Inv'
  <2> SUFFICES ASSUME Inv, [Next]_vars PROVE Inv'
    OBVIOUS
  <2>1. GInv'
    BY StepsOfTheGateway, GInvInductive
  <2>2. program' = program
    BY DEF Next, vars, Secure, Plaintext, SecureSend, SecureHandler, SecureItem, SecureCall,
           SecureServe, SecureResult, SecureHirb, SecureCrash, PlainSend, PlainHandler,
           PlainItem, PlainExpire, PlainAsk, PlainApply, PlainReturn, PlainFail, PlainTimeOut
  <2>. QED
    BY <2>1, <2>2, SInvKept
<1>3. Inv => AnswersLastWrite
  BY LastWrites DEF AnswersLastWrite
<1>. QED
  BY <1>1, <1>2, <1>3, PTL DEF Spec
=============================================================================
