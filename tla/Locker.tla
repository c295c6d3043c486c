------------------------------- MODULE Locker -------------------------------
(***************************************************************************)
(* The whole of secure.go: the gateway and the EMM server of one process,  *)
(* joined by libs/emm/EMM_client.go.  The call a goroutine of the gateway  *)
(* makes is the EMM request of the same name: it arrives at the EMM while  *)
(* the goroutine is calling, and is delivered once the EMM has answered.   *)
(* Module Gateways puts the steps together.                                *)
(***************************************************************************)
EXTENDS Gateway

CONSTANTS
    Keys, NumBlocks, Parts, Blank,   \* as in Emm
    IntactChoices,   \* as in Emm: may a stored ciphertext come back readable /
                     \* unreadable
    MaxFaults, MaxHirbRestarts, MaxEmmRestarts,   \* bounds, as in Emm
    DisjointKeys   \* TRUE: batches in progress have no key in common, and
                   \* the items of a batch have different keys

VARIABLES
    idCounter, block, intact, index, op, key, pc, idx, todo, view, got, before,
    faults, hirbRestarts, emmRestarts

E == INSTANCE Emm WITH
    Requests <- Items, Ops <- {"set", "get", "del"}, ExclusiveKeys <- FALSE

emm  == <<idCounter, block, intact, index, op, key, pc, idx, todo, view, got,
          before, faults, hirbRestarts, emmRestarts>>

KeysOf(b) == {key[t] : t \in InBatch(b)}

\* How the client behaves when DisjointKeys is TRUE.
MaySend(b) ==
    /\ Cardinality(KeysOf(b)) = Len(batch[b])
    /\ \A c \in Batches : phase[c] \in {"loop", "wait"} => KeysOf(b) \cap KeysOf(c) = {}
-----------------------------------------------------------------------------
Init == GInit /\ E!Init

Send(b) ==
    /\ DisjointKeys => MaySend(b)
    /\ Receive(b) /\ UNCHANGED emm

GatewayHandler(b) == Handler(b) /\ UNCHANGED emm
GatewayItem(t)    == Goroutine(t) /\ UNCHANGED emm

\* sendEMMRequest: the request reaches the EMM handler ...
Call(t) == task[t] = "calling" /\ E!Arrive(t) /\ UNCHANGED gvars

\* ... is served there ...
Serve(t) == E!Handle(t) /\ UNCHANGED gvars

\* ... and its answer comes back: null and errors make no entry.
\* Mutant: an answer of null makes an entry as well.
ResultNilToo(t) ==
    /\ E!Done(t)
    /\ Deliver(t, IF pc[t] \in {"ok", "value", "nil"} THEN "entry" ELSE "silent")
    /\ UNCHANGED emm
Result(t) ==
    /\ E!Done(t)
    /\ Deliver(t, IF pc[t] \in {"ok", "value"} THEN "entry" ELSE "silent")
    /\ UNCHANGED emm

HirbRestarts == E!HirbRestart /\ UNCHANGED gvars

\* Gateway and EMM server are one process, which restarts.
Crash == E!EmmRestart /\ GCrash

-----------------------------------------------------------------------------
\* Every request that reaches the EMM server is answered, whatever fails or
\* restarts meanwhile.
EveryRequestAnswered == E!EveryRequestAnswered

\* The entries of the answer to batch b.
Entries(b) == UNION {{answer[b][i][n] : n \in DOMAIN answer[b][i]} : i \in Rids}

\* The writes and deletes of g's key that were answered before g was sent, and
\* among them the last.
Earlier(g) == {w \in before[g] : E!Mutator(w) /\ key[w] = key[g]}
IsLast(w, g) == w \in Earlier(g) /\ \A v \in Earlier(g) : w \notin before[v]

\* End to end: with disjoint keys, the answer to a batch has for each read the
\* value of the last write of an earlier batch, or no entry if there is none,
\* if a delete followed, or if storage damaged that write's ciphertext, and
\* never an older value; and every write and delete is reported, also the
\* write of a value that is lost this way.
AnswersLastWrite ==
    \A b \in Batches : phase[b] = "returned" =>
        \A t \in InBatch(b) \ skipped :
            LET hits == {w \in Items : op[w] = "set" /\ intact[w] /\ IsLast(w, t)} IN
            /\ op[t] = "get" /\ hits # {} => got[t] \in hits
            /\ t \in Entries(b) <=> (op[t] = "get" => hits # {})
=============================================================================
