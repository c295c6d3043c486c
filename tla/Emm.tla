--------------------------------- MODULE Emm ---------------------------------
(***************************************************************************)
(* The encrypted multi-map (EMM) server: libs/emm/EMM_server.go on top of  *)
(* libs/hirb/HIRB.go and libs/oram.                                        *)
(*                                                                         *)
(* net/http runs HandleEMMRequest in one goroutine per request.  A handler *)
(* asks the HIRB server (a separate, single threaded Python process) for   *)
(* the block index of its key, allocates one if the answer is unusable,    *)
(* and then touches that block of the ORAM store, which no lock protects.  *)
(*                                                                         *)
(* A request runs once.  Its identity doubles as the value a "set" stores  *)
(* and as the nonce of the ciphertext it produces, so a ciphertext is just *)
(* the request that sealed it.                                             *)
(***************************************************************************)
EXTENDS Naturals, FiniteSets

CONSTANTS
    Requests,         \* HTTP requests ever sent to the server
    Keys,             \* logical keys
    Ops,              \* operations in use, a subset of AllOps
    NumBlocks,        \* blocks of the ORAM store, 2^logCapacity
    Parts,            \* regions of a block that memcpy moves one at a time
    IntactChoices,    \* may a stored ciphertext come back readable / unreadable
    ExclusiveKeys,    \* TRUE: clients never overlap requests on one key
    MaxFaults,        \* bound: failed HIRB calls
    MaxHirbRestarts,  \* bound: restarts of the HIRB process
    MaxEmmRestarts,   \* bound: restarts of the EMM process
    Blank             \* contents of a zeroed part; "no request"

AllOps == {"set", "get", "del", "other"}

ASSUME EmmAssumption ==
    /\ Ops \subseteq AllOps
    /\ NumBlocks \in Nat \ {0}
    /\ Parts # {}
    /\ IntactChoices \subseteq BOOLEAN /\ IntactChoices # {}
    /\ ExclusiveKeys \in BOOLEAN
    /\ MaxFaults \in Nat /\ MaxHirbRestarts \in Nat /\ MaxEmmRestarts \in Nat
    /\ Blank \notin Requests

VARIABLES
    \* EMM process
    idCounter,  \* next block index to hand out
    block,      \* [0..NumBlocks-1 -> [Parts -> Requests \cup {Blank}]]
    intact,     \* [Requests -> BOOLEAN]: its ciphertext survives storage
    \* HIRB process, as the map it implements
    index,      \* [Keys -> Nat], NoId where the HIRB has no entry
    \* handlers, one per request
    op, key,    \* the decoded body
    pc,         \* where the handler is
    idx,        \* the handler's block index
    todo,       \* parts its memcpy has still to move
    view,       \* parts a "get" has copied out
    got,        \* the request whose value a "get" returned
    \* bookkeeping
    before,     \* history: requests answered when this one arrived
    faults, hirbRestarts, emmRestarts

emmVars  == <<idCounter, block, intact>>
workload == <<op, key>>
local    == <<pc, idx, todo, view, got>>
budget   == <<faults, hirbRestarts, emmRestarts>>
vars     == <<idCounter, block, intact, index, op, key, pc, idx, todo, view,
              got, before, faults, hirbRestarts, emmRestarts>>

\* idCounter starts at 1, so 0 is never an index; it stands for JSON null.
NoId     == 0
\* Mutant: the counter starts at the value that means "no index".
FirstIdIsNull == 0
FirstId  == 1
Blocks   == 0 .. NumBlocks - 1
Cells    == Requests \cup {Blank}
Empty    == [p \in Parts |-> Blank]

Answered == {"ok", "nil", "value", "error"}
Active   == {"lookup", "alloc", "register", "access", "copy"}
PCs      == {"idle"} \cup Active \cup Answered

Done(r)     == pc[r] \in Answered
InFlight(r) == pc[r] \in Active
Mutator(r)  == op[r] \in {"set", "del"}

\* ORAMClass::access answers nullptr beyond num_blocks.
InStore(i) == i < NumBlocks

\* Mutant: a cipher that does not authenticate accepts any mixture.
DecodeUnauthenticated(b) ==
    IF \E p \in Parts : b[p] # Blank
    THEN CHOOSE w \in Requests : \E p \in Parts : b[p] = w
    ELSE Blank

\* What decrypt and Unmarshal make of a block: the value of one request if
\* every part is from the same, undamaged ciphertext, otherwise nothing.
Decode(b) ==
    IF \E w \in Requests : intact[w] /\ \A p \in Parts : b[p] = w
    THEN CHOOSE w \in Requests : intact[w] /\ \A p \in Parts : b[p] = w
    ELSE Blank
-----------------------------------------------------------------------------
\* InitServer; the workload is arbitrary and fixed from the start.
Init ==
    /\ idCounter = FirstId
    /\ block = [i \in Blocks |-> Empty]
    /\ intact = [r \in Requests |-> FALSE]
    /\ index = [k \in Keys |-> NoId]
    /\ op \in [Requests -> Ops]
    /\ key \in [Requests -> Keys]
    /\ pc = [r \in Requests |-> "idle"]
    /\ idx = [r \in Requests |-> NoId]
    /\ todo = [r \in Requests |-> {}]
    /\ view = [r \in Requests |-> Empty]
    /\ got = [r \in Requests |-> Blank]
    /\ before = [r \in Requests |-> {}]
    /\ faults = 0 /\ hirbRestarts = 0 /\ emmRestarts = 0

\* A request reaches its handler and the body decodes.
Arrive(r) ==
    /\ pc[r] = "idle"
    /\ ExclusiveKeys => \A s \in Requests : InFlight(s) => key[s] # key[r]
    /\ pc' = [pc EXCEPT ![r] = "lookup"]
    /\ before' = [before EXCEPT ![r] = {s \in Requests : Done(s)}]
    /\ UNCHANGED <<emmVars, index, workload, idx, todo, view, got, budget>>

\* Mutant: the number in the answer is asserted to be a uint64, which JSON
\* numbers never are, so that every operation allocates.
HirbGetWrongType(r) ==
    /\ pc[r] = "lookup"
    /\ pc' = [pc EXCEPT ![r] = "alloc"]
    /\ UNCHANGED <<emmVars, index, workload, idx, todo, view, got, before, budget>>

\* hirb.Get answers with a number or with null.
HirbGet(r) ==
    /\ pc[r] = "lookup"
    /\ \/ /\ index[key[r]] # NoId
          /\ idx' = [idx EXCEPT ![r] = index[key[r]]]
          /\ pc' = [pc EXCEPT ![r] = "access"]
       \/ /\ index[key[r]] = NoId
          /\ pc' = [pc EXCEPT ![r] = "alloc"]
          /\ UNCHANGED idx
    /\ UNCHANGED <<emmVars, index, workload, todo, view, got, before, budget>>

\* hirb.Get fails (no connection, or a 500 whose body is not JSON).  The error
\* is not reported: the handler goes on as if the key had no index.
HirbGetFails(r) ==
    /\ pc[r] = "lookup"
    /\ faults < MaxFaults
    /\ faults' = faults + 1
    /\ pc' = [pc EXCEPT ![r] = "alloc"]
    /\ UNCHANGED <<emmVars, index, workload, idx, todo, view, got, before,
                   hirbRestarts, emmRestarts>>

\* Mutant: without idLock an increment can be lost.
TakeIdUnlocked(r) ==
    /\ pc[r] = "alloc"
    /\ idx' = [idx EXCEPT ![r] = idCounter]
    /\ idCounter' \in {idCounter, idCounter + 1}
    /\ pc' = [pc EXCEPT ![r] = "register"]
    /\ UNCHANGED <<block, intact, index, workload, todo, view, got, before,
                   budget>>

\* The critical section of idLock.
TakeId(r) ==
    /\ pc[r] = "alloc"
    /\ idx' = [idx EXCEPT ![r] = idCounter]
    /\ idCounter' = idCounter + 1
    /\ pc' = [pc EXCEPT ![r] = "register"]
    /\ UNCHANGED <<block, intact, index, workload, todo, view, got, before,
                   budget>>

HirbSet(r) ==
    /\ pc[r] = "register"
    /\ index' = [index EXCEPT ![key[r]] = idx[r]]
    /\ pc' = [pc EXCEPT ![r] = "access"]
    /\ UNCHANGED <<emmVars, workload, idx, todo, view, got, before, budget>>

\* hirb.Set fails, before or after the HIRB server applied it.
HirbSetFails(r) ==
    /\ pc[r] = "register"
    /\ faults < MaxFaults
    /\ faults' = faults + 1
    /\ \/ UNCHANGED index
       \/ index' = [index EXCEPT ![key[r]] = idx[r]]
    /\ pc' = [pc EXCEPT ![r] = "error"]
    /\ UNCHANGED <<emmVars, workload, idx, todo, view, got, before,
                   hirbRestarts, emmRestarts>>

\* The switch over req.Op, for an index the ORAM does not have: a write does
\* nothing and is acknowledged, a read copies nothing out and answers null.
AccessBeyond(r) ==
    /\ pc[r] = "access" /\ op[r] # "other"
    /\ ~InStore(idx[r])
    /\ pc' = [pc EXCEPT ![r] = IF Mutator(r) THEN "ok" ELSE "nil"]
    /\ UNCHANGED <<emmVars, index, workload, idx, todo, view, got, before,
                   budget>>

\* The same switch for an index in range: encrypt, then enter the C++ access.
\* A stored ciphertext may be unreadable from the start: ORAM_Set copies 256
\* bytes from a shorter buffer, a get cuts the block at its first zero byte,
\* and a longer ciphertext is cut off.
AccessBlock(r) ==
    /\ pc[r] = "access" /\ op[r] # "other"
    /\ InStore(idx[r])
    /\ \/ op[r] = "set" /\ \E c \in IntactChoices : intact' = [intact EXCEPT ![r] = c]
       \/ op[r] # "set" /\ UNCHANGED intact
    /\ todo' = [todo EXCEPT ![r] = Parts]
    /\ pc' = [pc EXCEPT ![r] = "copy"]
    /\ UNCHANGED <<idCounter, block, index, workload, idx, view, got, before,
                   budget>>

\* An operation the switch does not know; its key has an index by now.
Unsupported(r) ==
    /\ pc[r] = "access" /\ op[r] = "other"
    /\ pc' = [pc EXCEPT ![r] = "error"]
    /\ UNCHANGED <<emmVars, index, workload, idx, todo, view, got, before,
                   budget>>

\* Mutant: a delete passes a null buffer, which access() ignores.
CopyPartDeleteNull(r, p) ==
    /\ pc[r] = "copy" /\ p \in todo[r]
    /\ todo' = [todo EXCEPT ![r] = @ \ {p}]
    /\ \/ op[r] = "set" /\ block' = [block EXCEPT ![idx[r]][p] = r] /\ UNCHANGED view
       \/ op[r] = "del" /\ UNCHANGED <<block, view>>
       \/ op[r] = "get" /\ view' = [view EXCEPT ![r][p] = block[idx[r]][p]]
                        /\ UNCHANGED block
    /\ UNCHANGED <<idCounter, intact, index, workload, pc, idx, got, before,
                   budget>>

\* One step of the memcpy between the block and the handler's buffer.
CopyPart(r, p) ==
    /\ pc[r] = "copy" /\ p \in todo[r]
    /\ todo' = [todo EXCEPT ![r] = @ \ {p}]
    /\ \/ /\ op[r] = "set"
          /\ block' = [block EXCEPT ![idx[r]][p] = r]
          /\ UNCHANGED view
       \/ /\ op[r] = "del"
          /\ block' = [block EXCEPT ![idx[r]][p] = Blank]
          /\ UNCHANGED view
       \/ /\ op[r] = "get"
          /\ view' = [view EXCEPT ![r][p] = block[idx[r]][p]]
          /\ UNCHANGED block
    /\ UNCHANGED <<idCounter, intact, index, workload, pc, idx, got, before,
                   budget>>

\* Mutant: a write is acknowledged before it is complete.
FinishEarly(r) ==
    /\ pc[r] = "copy" /\ (op[r] = "get" => todo[r] = {})
    /\ \/ Mutator(r) /\ pc' = [pc EXCEPT ![r] = "ok"] /\ UNCHANGED got
       \/ /\ op[r] = "get"
          /\ got' = [got EXCEPT ![r] = Decode(view[r])]
          /\ pc' = [pc EXCEPT ![r] = IF Decode(view[r]) = Blank THEN "nil" ELSE "value"]
    /\ UNCHANGED <<emmVars, index, workload, idx, todo, view, before, budget>>

\* Mutant: a read that does not decrypt is read again.
FinishRetries(r) ==
    /\ pc[r] = "copy" /\ todo[r] = {}
    /\ \/ Mutator(r) /\ pc' = [pc EXCEPT ![r] = "ok"] /\ UNCHANGED <<got, todo>>
       \/ /\ op[r] = "get" /\ Decode(view[r]) # Blank
          /\ got' = [got EXCEPT ![r] = Decode(view[r])]
          /\ pc' = [pc EXCEPT ![r] = "value"]
          /\ UNCHANGED todo
       \/ /\ op[r] = "get" /\ Decode(view[r]) = Blank
          /\ todo' = [todo EXCEPT ![r] = Parts]
          /\ UNCHANGED <<got, pc>>
    /\ UNCHANGED <<emmVars, index, workload, idx, view, before, budget>>

\* The copy is complete: acknowledge, or decrypt and answer.
Finish(r) ==
    /\ pc[r] = "copy" /\ todo[r] = {}
    /\ \/ /\ Mutator(r)
          /\ pc' = [pc EXCEPT ![r] = "ok"]
          /\ UNCHANGED got
       \/ /\ op[r] = "get"
          /\ got' = [got EXCEPT ![r] = Decode(view[r])]
          /\ pc' = [pc EXCEPT ![r] = IF Decode(view[r]) = Blank THEN "nil" ELSE "value"]
    /\ UNCHANGED <<emmVars, index, workload, idx, todo, view, before, budget>>

\* The HIRB process restarts: its tree lives in memory only.
HirbRestart ==
    /\ hirbRestarts < MaxHirbRestarts
    /\ hirbRestarts' = hirbRestarts + 1
    /\ index' = [k \in Keys |-> NoId]
    /\ UNCHANGED <<emmVars, workload, local, before, faults, emmRestarts>>

\* The EMM process restarts: counter and store start over, the AES key is
\* read back from emm_key.bin, open connections break.
EmmRestart ==
    /\ emmRestarts < MaxEmmRestarts
    /\ emmRestarts' = emmRestarts + 1
    /\ idCounter' = FirstId
    /\ block' = [i \in Blocks |-> Empty]
    /\ pc' = [r \in Requests |-> IF InFlight(r) THEN "error" ELSE pc[r]]
    /\ UNCHANGED <<intact, index, workload, idx, todo, view, got, before,
                   faults, hirbRestarts>>

Handle(r) ==
    \/ HirbGet(r) \/ HirbGetFails(r) \/ TakeId(r) \/ HirbSet(r) \/ HirbSetFails(r)
    \/ AccessBeyond(r) \/ AccessBlock(r) \/ Unsupported(r)
    \/ \E p \in Parts : CopyPart(r, p)
    \/ Finish(r)

Next ==
    \/ \E r \in Requests : Arrive(r) \/ Handle(r)
    \/ HirbRestart \/ EmmRestart

Spec == Init /\ [][Next]_vars

\* Handlers are goroutines: the runtime keeps scheduling them, and an HTTP
\* call to the HIRB server returns, with an answer or with an error.
Fairness == \A r \in Requests : WF_vars(Handle(r))
FairSpec == Spec /\ Fairness
-----------------------------------------------------------------------------
TypeOK ==
    /\ idCounter \in Nat \ {0}
    /\ block \in [Blocks -> [Parts -> Cells]]
    /\ intact \in [Requests -> BOOLEAN]
    /\ index \in [Keys -> Nat]
    /\ op \in [Requests -> Ops] /\ key \in [Requests -> Keys]
    /\ pc \in [Requests -> PCs]
    /\ idx \in [Requests -> Nat]
    /\ todo \in [Requests -> SUBSET Parts]
    /\ view \in [Requests -> [Parts -> Cells]]
    /\ got \in [Requests -> Cells]
    /\ before \in [Requests -> SUBSET Requests]
    /\ faults \in Nat /\ hirbRestarts \in Nat /\ emmRestarts \in Nat

\* The block indices in use for key k: the one the HIRB maps it to, and those
\* that a handler of k is about to register or to touch.
Held(k) ==
    ({index[k]} \cup
     {idx[r] : r \in {s \in Requests :
                  key[s] = k /\ pc[s] \in {"register", "access", "copy"}}})
    \ {NoId}

\* No block index is ever in use for two keys: the check-then-act of
\* getOrCreateIndex may give one key several indices, never two keys one.  That
\* ends when the EMM server restarts: the counter starts over, the HIRB process
\* keeps its indices.
IndexIsolation ==
    emmRestarts = 0 => \A k1, k2 \in Keys : k1 # k2 => Held(k1) \cap Held(k2) = {}

\* A get answers null or a value that some set stored under its own key, and
\* that set's ciphertext was undamaged: torn or foreign blocks never decode.
\* Until the first restart of the EMM server, as above.
ReadsOwnKey ==
    emmRestarts = 0 => \A r \in Requests : pc[r] = "value" =>
        /\ got[r] \in Requests
        /\ op[got[r]] = "set" /\ key[got[r]] = key[r] /\ intact[got[r]]

\* A get never answers with a value that was already overwritten or deleted
\* when it arrived: if w completed before w2 arrived, and w2 was acknowledged
\* before g arrived, g does not return w.  Lost is possible, stale is not.
\* Until the first restart of the EMM server, after which an index that is
\* handed out again can bring an old block back.
NoStaleRead ==
    emmRestarts = 0 => \A g, w2 \in Requests :
        /\ pc[g] = "value" /\ w2 \in before[g]
        /\ Mutator(w2) /\ pc[w2] = "ok" /\ key[w2] = key[g]
        => got[g] \notin before[w2]

\* What is stored for key k, once nobody is working on it.
Stored(k) ==
    IF index[k] # NoId /\ InStore(index[k]) THEN Decode(block[index[k]]) ELSE Blank

\* With the server at rest, a key with an acknowledged set and no delete reads
\* back as something, if storage has damaged none of the key's ciphertexts.
AckedWriteReadable ==
    (\A r \in Requests : ~InFlight(r)) =>
        \A w \in Requests :
            /\ op[w] = "set" /\ pc[w] = "ok"
            /\ \A s \in Requests :
                  op[s] = "set" /\ key[s] = key[w] /\ pc[s] = "ok" => intact[s]
            /\ \A d \in Requests : op[d] = "del" /\ key[d] = key[w] => pc[d] = "idle"
            => Stored(key[w]) # Blank

\* A key that has an index keeps it: a later operation on the key finds the
\* index it needs.  This is what the comment in HandleEMMRequest relies on.
KeyKeepsItsIndex ==
    [][\A k \in Keys : index[k] # NoId => index'[k] = index[k]]_vars

\* Every request that reaches a handler is answered.
EveryRequestAnswered == \A r \in Requests : InFlight(r) ~> Done(r)
=============================================================================
