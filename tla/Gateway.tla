------------------------------- MODULE Gateway -------------------------------
(***************************************************************************)
(* The client facing server: the /etcd handler and handleRequests of       *)
(* secure.go.  Every HTTP request carries a batch; its handler walks the   *)
(* batch, starts one goroutine per supported item, waits for them on a     *)
(* WaitGroup and answers with what they collected per request id (rid).    *)
(*                                                                         *)
(* The EMM client call of an item ends with Deliver; when and how it ends  *)
(* is given by Emm in module Locker, which composes the two.               *)
(***************************************************************************)
EXTENDS Naturals, FiniteSets, Sequences

CONSTANTS
    Batches,     \* HTTP requests to the gateway
    Items,       \* items of all the batches
    Rids,        \* request ids that items carry
    Skippable,   \* items that may have a blank key or an unsupported op
    NoItem       \* "nobody": the mutex is free

ASSUME GatewayAssumption ==
    /\ IsFiniteSet(Items)
    /\ Skippable \subseteq Items
    /\ NoItem \notin Items

VARIABLES
    batch,    \* [Batches -> Seq(Items)]: the decoded body
    rid,      \* [Items -> Rids]
    skipped,  \* items with a blank key or an unsupported op
    pos,      \* [Batches -> Nat]: items the loop has passed
    phase,    \* [Batches -> Phases]
    wg,       \* [Batches -> Nat]: the WaitGroup counter
    task,     \* the goroutine of each item
    mu,       \* [Batches -> Items \cup {NoItem}]: holder of the mutex
    resp,     \* cliResp: [Batches -> [Rids -> Seq(Items)]]
    read,     \* the slice append works on, one per goroutine
    answer    \* [Batches -> [Rids -> Seq(Items)]]: the body sent back

request == <<batch, rid, skipped>>
gvars   == <<batch, rid, skipped, pos, phase, wg, task, mu, resp, read, answer>>

\* A goroutine with an entry to append ends in "done", any other in "quit".
Ended      == {"done", "quit"}
HasWritten == {"written", "leaving", "done"}
TaskStates == {"none", "calling", "entry", "locked", "read", "quitting"}
              \cup HasWritten \cup Ended
Phases     == {"new", "loop", "wait", "returned", "broken"}
NoEntries  == [i \in Rids |-> <<>>]

InBatch(b) == {batch[b][n] : n \in DOMAIN batch[b]}
BatchOf(t) == CHOOSE b \in Batches : t \in InBatch(b)
Running(b) == {t \in InBatch(b) : task[t] \notin {"none"} \cup Ended}

\* The bodies a client can send: every item belongs to one batch.
Bodies ==
    {f \in [Batches -> UNION {[1 .. n -> Items] : n \in 0 .. Cardinality(Items)}] :
        \A t \in Items : \E b \in Batches : \E n \in DOMAIN f[b] :
            /\ f[b][n] = t
            /\ \A c \in Batches : \A m \in DOMAIN f[c] :
                  f[c][m] = t => c = b /\ m = n}
-----------------------------------------------------------------------------
GInit ==
    /\ batch \in Bodies
    /\ rid \in [Items -> Rids]
    /\ skipped \in SUBSET Skippable
    /\ pos = [b \in Batches |-> 0]
    /\ phase = [b \in Batches |-> "new"]
    /\ wg = [b \in Batches |-> 0]
    /\ task = [t \in Items |-> "none"]
    /\ mu = [b \in Batches |-> NoItem]
    /\ resp = [b \in Batches |-> NoEntries]
    /\ read = [t \in Items |-> <<>>]
    /\ answer = [b \in Batches |-> NoEntries]

\* The body decodes and handleRequests begins.
Receive(b) ==
    /\ phase[b] = "new"
    /\ phase' = [phase EXCEPT ![b] = "loop"]
    /\ UNCHANGED <<request, pos, wg, task, mu, resp, read, answer>>

\* One turn of the loop: a blank key or an unknown op is passed over,
\* anything else is counted and started.
\* Mutant: the goroutine counts itself when it runs, not before it starts.
LoopCountsLate(b) ==
    /\ phase[b] = "loop" /\ pos[b] < Len(batch[b])
    /\ pos' = [pos EXCEPT ![b] = @ + 1]
    /\ LET t == batch[b][pos[b] + 1] IN
       IF t \in skipped THEN UNCHANGED <<task, wg>>
       ELSE /\ task' = [task EXCEPT ![t] = "calling"]
            /\ wg' \in {wg, [wg EXCEPT ![b] = @ + 1]}
    /\ UNCHANGED <<request, phase, mu, resp, read, answer>>
Loop(b) ==
    /\ phase[b] = "loop" /\ pos[b] < Len(batch[b])
    /\ pos' = [pos EXCEPT ![b] = @ + 1]
    /\ LET t == batch[b][pos[b] + 1] IN
       \/ t \in skipped /\ UNCHANGED <<task, wg>>
       \/ /\ t \notin skipped
          /\ wg' = [wg EXCEPT ![b] = @ + 1]
          /\ task' = [task EXCEPT ![t] = "calling"]
    /\ UNCHANGED <<request, phase, mu, resp, read, answer>>

LoopEnds(b) ==
    /\ phase[b] = "loop" /\ pos[b] = Len(batch[b])
    /\ phase' = [phase EXCEPT ![b] = "wait"]
    /\ UNCHANGED <<request, pos, wg, task, mu, resp, read, answer>>

\* The EMM client returns, with an "entry" (an acknowledged write or a string
\* read) or "silent": an error, a null or a value that is not a string, all of
\* which are only logged.
Deliver(t, outcome) ==
    /\ task[t] = "calling"
    /\ task' = [task EXCEPT ![t] = IF outcome = "entry" THEN "entry" ELSE "quitting"]
    /\ UNCHANGED <<request, pos, phase, wg, mu, resp, read, answer>>

\* Mutant: mu.Lock() is missing.
AcquireNothing(t) ==
    /\ task[t] = "entry"
    /\ task' = [task EXCEPT ![t] = "locked"]
    /\ UNCHANGED <<request, pos, phase, wg, mu, resp, read, answer>>
Acquire(t) ==
    /\ task[t] = "entry" /\ mu[BatchOf(t)] = NoItem
    /\ mu' = [mu EXCEPT ![BatchOf(t)] = t]
    /\ task' = [task EXCEPT ![t] = "locked"]
    /\ UNCHANGED <<request, pos, phase, wg, resp, read, answer>>

\* cliResp[rid] = append(cliResp[rid], ...) reads the map, then writes it.
AppendRead(t) ==
    /\ task[t] = "locked"
    /\ read' = [read EXCEPT ![t] = resp[BatchOf(t)][rid[t]]]
    /\ task' = [task EXCEPT ![t] = "read"]
    /\ UNCHANGED <<request, pos, phase, wg, mu, resp, answer>>

AppendWrite(t) ==
    /\ task[t] = "read"
    /\ resp' = [resp EXCEPT ![BatchOf(t)][rid[t]] = Append(read[t], t)]
    /\ task' = [task EXCEPT ![t] = "written"]
    /\ UNCHANGED <<request, pos, phase, wg, mu, read, answer>>

\* Mutant: mu.Unlock() is missing.
ReleaseNothing(t) ==
    /\ task[t] = "written"
    /\ task' = [task EXCEPT ![t] = "leaving"]
    /\ UNCHANGED <<request, pos, phase, wg, mu, resp, read, answer>>
Release(t) ==
    /\ task[t] = "written"
    /\ mu' = [mu EXCEPT ![BatchOf(t)] = NoItem]
    /\ task' = [task EXCEPT ![t] = "leaving"]
    /\ UNCHANGED <<request, pos, phase, wg, resp, read, answer>>

\* The deferred wg.Done().
Leave(t) ==
    /\ task[t] \in {"leaving", "quitting"}
    /\ wg' = [wg EXCEPT ![BatchOf(t)] = @ - 1]
    /\ task' = [task EXCEPT ![t] = IF @ = "leaving" THEN "done" ELSE "quit"]
    /\ UNCHANGED <<request, pos, phase, mu, resp, read, answer>>

\* wg.Wait() lets the handler through, which copies cliResp and encodes it.
Reply(b) ==
    /\ phase[b] = "wait" /\ wg[b] = 0
    /\ phase' = [phase EXCEPT ![b] = "returned"]
    /\ answer' = [answer EXCEPT ![b] = resp[b]]
    /\ UNCHANGED <<request, pos, wg, task, mu, resp, read>>

\* The process dies: the connections of the batches in progress break.
GCrash ==
    LET hit  == {b \in Batches : phase[b] \in {"loop", "wait"}}
        gone == UNION {InBatch(b) : b \in hit}
    IN  /\ phase' = [b \in Batches |-> IF b \in hit THEN "broken" ELSE phase[b]]
        /\ task'  = [t \in Items |-> IF t \in gone THEN "quit" ELSE task[t]]
        /\ wg'    = [b \in Batches |-> IF b \in hit THEN 0 ELSE wg[b]]
        /\ mu'    = [b \in Batches |-> IF b \in hit THEN NoItem ELSE mu[b]]
        /\ resp'  = [b \in Batches |-> IF b \in hit THEN NoEntries ELSE resp[b]]
        /\ UNCHANGED <<request, pos, read, answer>>

\* Everything but the calls.
Handler(b) == Loop(b) \/ LoopEnds(b) \/ Reply(b)
Goroutine(t) ==
    Acquire(t) \/ AppendRead(t) \/ AppendWrite(t) \/ Release(t) \/ Leave(t)

-----------------------------------------------------------------------------
GTypeOK ==
    /\ batch \in Bodies /\ rid \in [Items -> Rids] /\ skipped \subseteq Items
    /\ pos \in [Batches -> Nat]
    /\ phase \in [Batches -> Phases]
    /\ wg \in [Batches -> Nat]
    /\ task \in [Items -> TaskStates]
    /\ mu \in [Batches -> Items \cup {NoItem}]
    /\ resp \in [Batches -> [Rids -> Seq(Items)]]
    /\ read \in [Items -> Seq(Items)]
    /\ answer \in [Batches -> [Rids -> Seq(Items)]]

\* The entries due under an id: those of the items that got past their append.
Due(b, i) == {t \in InBatch(b) : rid[t] = i /\ task[t] \in HasWritten}

HoldsDue(b, i) ==
    /\ {resp[b][i][n] : n \in DOMAIN resp[b][i]} = Due(b, i)
    /\ Len(resp[b][i]) = Cardinality(Due(b, i))

\* No entry is lost or doubled, though goroutines append to one list: cliResp
\* holds each item that got past its append, and no other, exactly once.
NoLostEntry == \A b \in Batches, i \in Rids : HoldsDue(b, i)

\* No handler answers while a goroutine of its batch is still at work, so that
\* nothing is appended to the map it is reading, and the answer is complete.
AnswerIsComplete ==
    \A b \in Batches : phase[b] = "returned" =>
        /\ Running(b) = {}
        /\ answer[b] = resp[b]
        /\ \A t \in InBatch(b) : t \notin skipped => task[t] \in Ended

\* Every batch that is received is answered, unless the process dies first.
EveryBatchAnswered ==
    \A b \in Batches : phase[b] = "loop" ~> phase[b] \in {"returned", "broken"}
=============================================================================
