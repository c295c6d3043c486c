------------------------------ MODULE Baseline ------------------------------
(***************************************************************************)
(* The baseline EMM of libs/emm/EMM_insecure_client.go, a client that      *)
(* calls the HIRB process and the block store itself, and the benchmark of *)
(* mains/testing_emm.go that drives it.  The benchmark is one thread, so a *)
(* call on the map is one step; what can go wrong in it are its two calls  *)
(* of the HIRB process and the bytes of the ciphertext (module OramBlock). *)
(*                                                                         *)
(* The benchmark runs once on a PlaintextMultiMap and once on the EMM.     *)
(* Here every call is made on both, and plain is what the former holds.    *)
(***************************************************************************)
EXTENDS OramBlock, FiniteSets

CONSTANTS
    Keys,         \* lines of medium_keys.txt
    Vals, NoVal,  \* values written; "none"
    WarmUp,       \* numWarmupBatches * batchSize
    TotalRuns,    \* totalRuns
    MaxFaults     \* bound: HIRB calls that fail

ASSUME BaselineAssumption ==
    /\ NoVal \notin Vals
    /\ WarmUp \in Nat /\ TotalRuns \in Nat \ {0} /\ MaxFaults \in Nat

VARIABLES
    idCounter,    \* the package's counter (the field of Client is not used)
    index,        \* the map the HIRB process keeps: [Keys -> Nat]
    content,      \* the value that the ciphertext last[id] encrypts
    put,          \* history: the value of the last Put or Delete of a key
                  \* that returned without an error
    plain,        \* PlaintextMultiMap.store: [Keys -> Seq(Vals)]
    run, phase,   \* the run of the benchmark and its phase
    pos,          \* turns of the phase's loop so far
    writtenKeys,  \* [1 .. n -> Keys], with repetitions
    cipherLen,    \* length of a ciphertext, which valSize determines
    faults        \* HIRB calls that failed

emm   == <<store, idCounter, index, content, put, faults>>
bench == <<run, phase, pos, writtenKeys, cipherLen>>
vars  == <<emm, plain, bench>>

NoId   == 0
Phases == {"warmup", "delete", "verify", "over"}

-----------------------------------------------------------------------------
(* EMM_insecure_client.go *)

\* hirb.Get answers with a number.
Found(k, id) ==
    /\ index[k] # NoId
    /\ id = index[k]
    /\ UNCHANGED <<index, idCounter, faults>>

\* hirb.Get finds nothing or fails, which is treated alike.
NotFound(k, failed) ==
    \/ index[k] = NoId /\ failed = 0
    \/ failed = 1

\* Mutant: an increment is lost, and the next key gets the same number.
CreatedUncounted(k, id, failed) ==
    /\ id = idCounter
    /\ idCounter' \in {idCounter, idCounter + 1}
    /\ index' = [index EXCEPT ![k] = id]
    /\ faults' = faults + failed

\* A new number is taken and hirb.Set registers it.
Created(k, id, failed) ==
    /\ id = idCounter
    /\ idCounter' = idCounter + 1
    /\ index' = [index EXCEPT ![k] = id]
    /\ faults' = faults + failed

\* hirb.Set fails, before or after the HIRB process has applied it: an error.
NotCreated(k, id, failed) ==
    /\ id = NoId
    /\ idCounter' = idCounter + 1
    /\ index' \in {index, [index EXCEPT ![k] = idCounter]}
    /\ faults' = faults + failed + 1

\* Mutant: the number in the answer is asserted to be a uint64.
NewGetAlwaysCreates(k, id) ==
    \E failed \in {0, 1} :
        /\ Created(k, id, failed) \/ NotCreated(k, id, failed)
        /\ faults' <= MaxFaults

newGetOrCreateIndex(k, id) ==
    \/ Found(k, id)
    \/ \E failed \in {0, 1} :
        /\ NotFound(k, failed)
        /\ Created(k, id, failed) \/ NotCreated(k, id, failed)
        /\ faults' <= MaxFaults

\* What newGetOrCreateIndex can return.
Ids(k) == {NoId, index[k], idCounter}

\* content and put after v, or nothing, was stored under index id.
Holds(k, id, v) ==
    /\ content' = [i \in Blocks |-> IF i = id THEN v ELSE content[i]]
    /\ put' = [put EXCEPT ![k] = v]

Put(k, v) ==
    \E id \in Ids(k) :
        /\ newGetOrCreateIndex(k, id)
        /\ \/ id = NoId /\ UNCHANGED <<store, content, put>>
           \/ /\ id # NoId
              /\ \E ciphertext \in [1 .. cipherLen -> Bytes] : OramSet(id, ciphertext)
              /\ Holds(k, id, v)

\* The benchmark throws the answer away (Answer below); what a Get leaves
\* behind is the index it may have created.
Get(k) ==
    /\ \E id \in Ids(k) : newGetOrCreateIndex(k, id)
    /\ UNCHANGED <<store, content, put>>

\* Mutant: only the HIRB is told.
DeleteIndexOnly(k) ==
    \E id \in Ids(k) :
        /\ newGetOrCreateIndex(k, id)
        /\ UNCHANGED <<store, content>>
        /\ put' = [put EXCEPT ![k] = IF id = NoId THEN @ ELSE NoVal]

Delete(k) ==
    \E id \in Ids(k) :
        /\ newGetOrCreateIndex(k, id)
        /\ \/ id = NoId /\ UNCHANGED <<store, content, put>>
           \/ id # NoId /\ OramDelete(id) /\ Holds(k, id, NoVal)

\* What a Get of k whose HIRB call succeeds answers: the block decrypts if the
\* bytes that are left are those that were put.
Answer(k) ==
    LET id == index[k] IN
    IF /\ id # NoId /\ id \in Blocks
       /\ last[id] # <<>> /\ Cut(OramGet(id)) = last[id]
    THEN content[id] ELSE NoVal
-----------------------------------------------------------------------------
(* testing_emm.go: both maps behind the MultiMap interface *)

MapWrite(k, v) == Put(k, v) /\ plain' = [plain EXCEPT ![k] = Append(@, v)]
MapRead(k)     == Get(k) /\ UNCHANGED plain
MapDelete(k)   == Delete(k) /\ plain' = [plain EXCEPT ![k] = <<>>]

Init ==
    /\ StoreInit
    /\ idCounter = 1
    /\ index = [k \in Keys |-> NoId]
    /\ content = [i \in Blocks |-> NoVal]
    /\ put = [k \in Keys |-> NoVal]
    /\ plain = [k \in Keys |-> <<>>]
    /\ run = 1 /\ phase = "warmup" /\ pos = 0
    /\ writtenKeys = <<>>
    /\ cipherLen \in 1 .. MaxLen
    /\ faults = 0

\* One turn of a phase's loop.
Turn(name, turns) ==
    /\ phase = name /\ pos < turns
    /\ pos' = pos + 1
    /\ UNCHANGED <<run, phase, cipherLen>>

\* Phase 1: a write of any key, or a read of one already written in this run.
WarmUpWrite ==
    /\ Turn("warmup", WarmUp)
    /\ \E k \in Keys, v \in Vals :
        MapWrite(k, v) /\ writtenKeys' = Append(writtenKeys, k)

WarmUpRead ==
    /\ Turn("warmup", WarmUp)
    /\ \E k \in Range(writtenKeys) : MapRead(k)
    /\ UNCHANGED writtenKeys

\* Phase 2: the keys of the first half of the writes.
DeletePhase ==
    /\ Turn("delete", Len(writtenKeys) \div 2)
    /\ MapDelete(writtenKeys[pos + 1])
    /\ UNCHANGED writtenKeys

\* Phase 3: every key written in this run once, the deleted ones as well.
VerifyPhase ==
    /\ Turn("verify", Len(writtenKeys))
    /\ LET k == writtenKeys[pos + 1] IN
       \/ k \in Range(SubSeq(writtenKeys, 1, pos)) /\ UNCHANGED <<emm, plain>>
       \/ k \notin Range(SubSeq(writtenKeys, 1, pos)) /\ MapRead(k)
    /\ UNCHANGED writtenKeys

NextPhase ==
    /\ pos' = 0
    /\ \/ /\ phase = "warmup" /\ pos = WarmUp
          /\ phase' = "delete" /\ UNCHANGED <<run, writtenKeys>>
       \/ /\ phase = "delete" /\ pos = Len(writtenKeys) \div 2
          /\ phase' = "verify" /\ UNCHANGED <<run, writtenKeys>>
       \/ /\ phase = "verify" /\ pos = Len(writtenKeys)
          /\ writtenKeys' = <<>>
          /\ \/ run < TotalRuns /\ run' = run + 1 /\ phase' = "warmup"
             \/ run = TotalRuns /\ phase' = "over" /\ UNCHANGED run
    /\ UNCHANGED <<emm, plain, cipherLen>>

Next == WarmUpWrite \/ WarmUpRead \/ DeletePhase \/ VerifyPhase \/ NextPhase

Spec == Init /\ [][Next]_vars

\* The average of the middle of at least five values, as <<sum, count>>; fewer
\* give 0.
averageFloat64(values) ==
    LET sorted == SortSeq(values, <)
        middle == SubSeq(sorted, 3, Len(sorted) - 2)
    IN  IF Len(values) < 5 THEN <<0, 1>>
        ELSE <<FoldSeq(+, 0, middle), Len(middle)>>
-----------------------------------------------------------------------------
TypeOK ==
    /\ StoreTypeOK
    /\ idCounter \in Nat \ {0}
    /\ index \in [Keys -> Nat]
    /\ content \in [Blocks -> Vals \cup {NoVal}]
    /\ put \in [Keys -> Vals \cup {NoVal}]
    /\ plain \in [Keys -> Seq(Vals)]
    /\ run \in 1 .. TotalRuns /\ phase \in Phases /\ pos \in 0 .. WarmUp
    /\ writtenKeys \in Seq(Keys)
    /\ cipherLen \in 1 .. MaxLen /\ faults \in 0 .. MaxFaults

\* Whatever HIRB calls fail and however ciphertexts are damaged, a key reads
\* back as nothing or as its last value that was put without an error: never
\* as an older one, never as a deleted one, never as another key's.
NothingStale == \A k \in Keys : Answer(k) \in {NoVal, put[k]}

\* As long as no HIRB call fails the EMM has the last of the values that a
\* PlaintextMultiMap has after the same calls, or nothing if that has none; a
\* ciphertext that the byte handling damages is all that can be missing.
AgreesWithPlaintext ==
    faults = 0 => \A k \in Keys :
        \/ Answer(k) = (IF plain[k] = <<>> THEN NoVal ELSE Last(plain[k]))
        \/ /\ index[k] \in Blocks /\ ~Safe(last[index[k]])
           /\ Answer(k) = NoVal

\* The writes of the runs so far, at most.
Writes == (IF phase = "over" THEN run ELSE run - 1) * WarmUp + Len(writtenKeys)

\* As long as no HIRB call fails a key takes one block, at its first write; no
\* read and no delete takes one, as they would of a key that was never written.
\* So 7 runs of 9 calls need no more than the blocks 1 to 63 of the store's 64.
BlocksSuffice ==
    faults = 0 =>
        /\ idCounter - 1 = Cardinality({k \in Keys : index[k] # NoId})
        /\ idCounter - 1 <= Writes
=============================================================================
