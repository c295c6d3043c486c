----------------------------- MODULE EmmRefinement -----------------------------
(* The EMM server implements KVStore when its clients never overlap requests *)
(* on one key, nothing fails and the ORAM has a block for every index: a     *)
(* request takes effect when it enters the C++ access.                       *)
EXTENDS Emm

\* pc seen as the state of an abstract call.
Stage(r) ==
    CASE pc[r] = "idle" -> "idle"
      [] pc[r] \in Active \ {"copy"} -> "called"
      [] pc[r] = "copy" -> "applied"
      [] OTHER -> "returned"

\* The mutator, if any, that is moving its bytes into the block of key k.
Writer(k) == {s \in Requests : pc[s] = "copy" /\ key[s] = k /\ Mutator(s)}

\* What a handler that writes makes of its key: a damaged ciphertext is no value.
Effect(s) == IF op[s] = "set" /\ intact[s] THEN s ELSE Blank

\* The abstract value of key k: what a write in progress will have stored.
AbsMap(k) ==
    IF Writer(k) = {} THEN Stored(k)
    ELSE Effect(CHOOSE s \in Writer(k) : TRUE)

\* The abstract result of a get: fixed when it enters the copy.
AbsOut(r) ==
    IF pc[r] = "copy" /\ op[r] = "get" THEN Stored(key[r]) ELSE got[r]

Map == INSTANCE KVStore WITH
    st  <- [r \in Requests |-> Stage(r)],
    map <- [k \in Keys |-> AbsMap(k)],
    out <- [r \in Requests |-> AbsOut(r)]

\* Under these conditions the server is a linearizable map, and it answers.  A
\* value whose ciphertext is damaged in storage is lost when it is set.
ImplementsMap == Map!FairSpec
=============================================================================
