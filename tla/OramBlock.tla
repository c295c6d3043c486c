------------------------------ MODULE OramBlock ------------------------------
(***************************************************************************)
(* One level below Emm: what libs/oram does to the bytes of a ciphertext.  *)
(* The Go wrapper pads a value, the C++ wrapper copies it into a buffer,   *)
(* ORAMClass::access copies a whole block out of that buffer, and the EMM  *)
(* server cuts what it reads at the first zero byte.  Emm.tla abstracts    *)
(* this to "the ciphertext survives or it does not" (intact).  The calls    *)
(* are made by the client of module Baseline, which puts ciphertexts of     *)
(* any length up to MaxLen.                                                 *)
(***************************************************************************)
EXTENDS Naturals, Sequences, SequencesExt

CONSTANTS
    NumBlocks,   \* 2^log_capacity
    WordBytes,   \* sizeof(int)
    BlockBytes,  \* Block::BLOCK_SIZE * sizeof(int)
    MaxByte,     \* bytes are 0..MaxByte; 0 is the only one the code looks at
    MaxLen       \* bound: longest value written

ASSUME OramBlockAssumption ==
    /\ NumBlocks \in Nat \ {0} /\ WordBytes \in Nat \ {0}
    /\ BlockBytes \in Nat \ {0} /\ BlockBytes % WordBytes = 0
    /\ MaxByte \in Nat \ {0} /\ MaxLen \in Nat \ {0}

VARIABLES
    storage,  \* ORAMClass::storage: block index -> bytes
    last      \* history: the value last set in a block, <<>> if none

store == <<storage, last>>

Bytes  == 0 .. MaxByte
Blocks == 0 .. NumBlocks - 1
Values == UNION {[1 .. n -> Bytes] : n \in 1 .. MaxLen}
Zeros(n) == [i \in 1 .. n |-> 0]

Padding(n) == (WordBytes - (n % WordBytes)) % WordBytes

\* Mutant: the pointer handed to C starts behind the padding's length.
BufferShifted(data) ==
    SubSeq(data \o Zeros(Padding(Len(data))), Padding(Len(data)) + 1,
           Len(data) + Padding(Len(data)))

\* The heap buffer of oram_set: the padded value in whole words.
Buffer(data) == data \o Zeros(Padding(Len(data)))

\* Mutant: the copy takes the length of the buffer for that of the block.
WrittenWhole(old, buffer, heap) == buffer \o SubSeq(old, Len(buffer) + 1, BlockBytes)
\* access(WRITE) copies a block from the buffer, running on into whatever
\* heap bytes follow a buffer shorter than a block.
Written(old, buffer, heap) == SubSeq(buffer \o heap, 1, BlockBytes)

\* What can follow a buffer: enough bytes to complete the block.
Heaps(buffer) ==
    [1 .. (IF Len(buffer) < BlockBytes THEN BlockBytes - Len(buffer) ELSE 0) -> Bytes]

\* ORAM_Get: a zeroed Go slice, filled only if access() finds the block.
OramGet(id) == IF id < NumBlocks THEN storage[id] ELSE Zeros(BlockBytes)

\* Mutant: the block is cut at its last zero byte.
CutAtLastZero(b) ==
    IF \E i \in DOMAIN b : b[i] = 0
    THEN SubSeq(b, 1, SelectLastInSeq(b, LAMBDA x : x = 0) - 1)
    ELSE b

\* bytes.IndexByte and the slice expression that follow every ORAM_Get.
Cut(b) ==
    IF \E i \in DOMAIN b : b[i] = 0
    THEN SubSeq(b, 1, SelectInSeq(b, LAMBDA x : x = 0) - 1)
    ELSE b
-----------------------------------------------------------------------------
StoreInit ==
    /\ storage = [i \in Blocks |-> Zeros(BlockBytes)]
    /\ last = [i \in Blocks |-> <<>>]

OramSet(id, data) ==
    \/ /\ id < NumBlocks
       /\ \E heap \in Heaps(Buffer(data)) :
             storage' = [storage EXCEPT ![id] = Written(@, Buffer(data), heap)]
       /\ last' = [last EXCEPT ![id] = data]
    \/ id >= NumBlocks /\ UNCHANGED store

\* oram_delete writes a zeroed buffer of exactly one block.
OramDelete(id) ==
    \/ /\ id < NumBlocks
       /\ storage' = [storage EXCEPT ![id] = Written(@, Zeros(BlockBytes), <<>>)]
       /\ last' = [last EXCEPT ![id] = <<>>]
    \/ id >= NumBlocks /\ UNCHANGED store

-----------------------------------------------------------------------------
StoreTypeOK ==
    /\ storage \in [Blocks -> [1 .. BlockBytes -> Bytes]]
    /\ last \in [Blocks -> Values \cup {<<>>}]

\* A value that the byte handling cannot damage: no zero byte, no longer than
\* a block, and followed by a zero or by the end of the block.
Safe(data) ==
    /\ \A i \in DOMAIN data : data[i] # 0
    /\ Len(data) <= BlockBytes
    /\ data = <<>> \/ Len(data) = BlockBytes \/ Len(data) % WordBytes # 0

\* A safe value reads back exactly, whatever is on the heap and whatever was
\* in the block before; so does a deletion, as nothing.
ReadBack ==
    \A id \in Blocks : Safe(last[id]) => Cut(OramGet(id)) = last[id]

\* Damage is a cut or a tail, never a substituted or a missing byte: what is
\* read starts what was written, or continues it.
DamageIsAtTheEnd ==
    \A id \in Blocks :
        \/ IsPrefix(Cut(OramGet(id)), last[id])
        \/ /\ IsPrefix(last[id], Cut(OramGet(id)))
           /\ \A i \in DOMAIN last[id] : last[id][i] # 0
=============================================================================
