------------------------------ MODULE Plaintext ------------------------------
(***************************************************************************)
(* The plaintext gateway, mains/plaintext.go: the batches of module        *)
(* Gateway over etcd.  An item's goroutine makes one call of etcd under    *)
(* the deadline that handleRequests sets for the whole batch; etcd is      *)
(* external, a map on which every call takes effect at once, if at all.    *)
(*                                                                         *)
(* Only "read" and "write" are supported; a "delete" is a skipped item.    *)
(***************************************************************************)
EXTENDS Gateway

CONSTANTS
    Keys,
    Blank,          \* "no value"
    MaxFaults,      \* bound: calls of etcd that fail before the deadline
    MaxDeadlines    \* bound: batches whose deadline passes

VARIABLES
    op, key,  \* the items: [Items -> {"set", "get"}], [Items -> Keys]
    kv,       \* etcd: the item whose value a key has
    call,     \* the call of each item
    expired,  \* batches whose deadline has passed
    got,      \* what etcd read for an item
    before,   \* history: the items whose calls had returned without an error
              \* when this one was sent
    faults    \* calls that failed before the deadline

etcd == <<kv, call, expired, got, before, faults>>

CallStates == {"none", "sent", "applied", "acked", "failed", "lost"}

EtcdInit ==
    /\ kv = [k \in Keys |-> Blank]
    /\ call = [t \in Items |-> "none"]
    /\ expired = {}

PInit ==
    /\ op \in [Items -> {"set", "get"}]
    /\ key \in [Items -> Keys]
    /\ EtcdInit
    /\ got = [t \in Items |-> Blank]
    /\ before = [t \in Items |-> {}]
    /\ faults = 0

\* The handler has a client of etcd and starts; its goroutines go their way.
Start(b) ==
    /\ Receive(b)
    /\ UNCHANGED <<op, key, etcd>>
PHandler(b)   == Handler(b) /\ UNCHANGED <<op, key, etcd>>
PGoroutine(t) == Goroutine(t) /\ UNCHANGED <<op, key, etcd>>

\* etcdClient.Get or Put sends its request.
Ask(t) ==
    /\ task[t] = "calling" /\ call[t] = "none" /\ BatchOf(t) \notin expired
    /\ call' = [call EXCEPT ![t] = "sent"]
    /\ before' = [before EXCEPT ![t] = {s \in Items : call[s] = "acked"}]
    /\ UNCHANGED <<gvars, op, key, kv, expired, got, faults>>

\* etcd takes the request; "lost" ones have nobody waiting for them.
Apply(t) ==
    /\ call[t] \in {"sent", "lost"}
    /\ call' = [call EXCEPT ![t] = IF @ = "sent" THEN "applied" ELSE "failed"]
    /\ \/ /\ op[t] = "set"
          /\ kv' = [kv EXCEPT ![key[t]] = t]
          /\ UNCHANGED got
       \/ /\ op[t] = "get"
          /\ got' = [got EXCEPT ![t] = kv[key[t]]]
          /\ UNCHANGED kv
    /\ UNCHANGED <<gvars, op, key, expired, before, faults>>

\* The call returns without an error.  Every read makes an entry, a read of a
\* key without a value the entry null.
Return(t) ==
    /\ call[t] = "applied"
    /\ Deliver(t, "entry")
    /\ call' = [call EXCEPT ![t] = "acked"]
    /\ UNCHANGED <<op, key, kv, expired, got, before, faults>>

\* Mutant: the return statement after the error message is missing.
FailsWithEntry(t) ==
    /\ call[t] \in {"none", "sent", "applied"}
    /\ Deliver(t, "entry")
    /\ call' = [call EXCEPT ![t] = IF @ = "sent" /\ op[t] = "set" THEN "lost" ELSE "failed"]
    /\ UNCHANGED <<op, key, kv, expired, got, before>>

\* It returns with an error, which is only logged.  A write that etcd has not
\* taken may still be on its way.
Fails(t) ==
    /\ call[t] \in {"none", "sent", "applied"}
    /\ Deliver(t, "silent")
    /\ call' = [call EXCEPT ![t] = IF @ = "sent" /\ op[t] = "set" THEN "lost" ELSE "failed"]
    /\ UNCHANGED <<op, key, kv, expired, got, before>>

Fail(t) ==
    /\ faults < MaxFaults /\ faults' = faults + 1
    /\ Fails(t)

\* context.WithTimeout: five seconds after handleRequests began ...
Expire(b) ==
    /\ phase[b] \in {"loop", "wait"} /\ b \notin expired
    /\ Cardinality(expired) < MaxDeadlines
    /\ expired' = expired \cup {b}
    /\ UNCHANGED <<gvars, op, key, kv, call, got, before, faults>>

\* ... its calls end with an error.
TimeOut(t) == BatchOf(t) \in expired /\ Fails(t) /\ UNCHANGED faults
-----------------------------------------------------------------------------
PTypeOK ==
    /\ op \in [Items -> {"set", "get"}] /\ key \in [Items -> Keys]
    /\ kv \in [Keys -> Items \cup {Blank}]
    /\ call \in [Items -> CallStates] /\ expired \subseteq Batches
    /\ got \in [Items -> Items \cup {Blank}]
    /\ before \in [Items -> SUBSET Items]

Entries(b) == UNION {{answer[b][i][n] : n \in DOMAIN answer[b][i]} : i \in Rids}

\* The value w is the one a read g may have: a write that was acknowledged
\* before g was sent, and before no other such write of the key was sent, or
\* one whose call overlapped these or failed.
MayRead(g, w) ==
    /\ op[w] = "set" /\ key[w] = key[g]
    /\ \A v \in before[g] : op[v] = "set" /\ key[v] = key[g] => w \notin before[v]

\* In a batch that was answered an item has an entry exactly if its call
\* succeeded, though the deadline may have ended some of the calls; and what a
\* read brought is no value that was overwritten before the read began.  A
\* write without an entry may still take effect, even after the answer.
PlaintextAnswers ==
    \A b \in Batches : phase[b] = "returned" =>
        \A t \in InBatch(b) :
            /\ t \in Entries(b) <=> call[t] = "acked"
            /\ op[t] = "get" /\ call[t] = "acked" =>
                IF got[t] = Blank
                THEN \A v \in before[t] : op[v] = "set" => key[v] # key[t]
                ELSE MayRead(t, got[t])
=============================================================================
