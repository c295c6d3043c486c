----------------------------- MODULE BaselineProofs -----------------------------
(***************************************************************************)
(* What TLAPS proves of the baseline EMM and of the block store under it:  *)
(* for blocks, words, values and ciphertexts of any length, for any        *)
(* number of keys and runs, and whatever bytes follow a buffer in memory.  *)
(***************************************************************************)
EXTENDS Baseline, SequenceTheorems, FiniteSetTheorems, WellFoundedInduction, TLAPS

\* How a value lies in its block: first its bytes, as far as the block goes,
\* then its padding; a deleted block is zeroed.
Laid(data, b) ==
    /\ \A i \in 1 .. BlockBytes : i <= Len(data) => b[i] = data[i]
    /\ \A i \in 1 .. BlockBytes :
          data = <<>> \/ (Len(data) < i /\ i <= Len(data) + Padding(Len(data))) => b[i] = 0

\* The inductive invariant of the block store.
StoreInv == StoreTypeOK /\ \A i \in Blocks : Laid(last[i], storage[i])
-----------------------------------------------------------------------------
\* Remainders.
LEMMA Remainder ==
  ASSUME NEW n \in Nat, NEW w \in Nat \ {0}
  PROVE  /\ n % w \in 0 .. w - 1
         /\ n < w => n % w = n
OBVIOUS

LEMMA PaddingBounds ==
  ASSUME NEW n \in Nat
  PROVE  /\ Padding(n) \in Nat
         /\ n % WordBytes # 0 => Padding(n) > 0
<1> DEFINE r == n % WordBytes
<1>1. WordBytes \in Nat \ {0} /\ r \in 0 .. WordBytes - 1
  BY OramBlockAssumption, Remainder
<1>2. WordBytes - r \in Nat
  BY <1>1
<1>3. Padding(n) = (WordBytes - r) % WordBytes
  BY DEF Padding
<1>4. Padding(n) \in Nat
  BY <1>1, <1>2, <1>3, Remainder
<1>5. r # 0 => Padding(n) = WordBytes - r
  <2> HIDE DEF r
  <2>1. r # 0 => WordBytes - r < WordBytes
    BY <1>1
  <2>. QED
    BY <1>1, <1>2, <1>3, <2>1, Remainder
<1>. QED
  BY <1>1, <1>4, <1>5

LEMMA NatMin ==
  ASSUME NEW T \in SUBSET Nat, T # {}
  PROVE  Min(T) \in T /\ \A y \in T : Min(T) <= y
<1>1. PICK x \in T : \A y \in T : ~(<<y, x>> \in OpToRel(<, Nat))
  BY WFMin, NatLessThanWellFounded
<1>2. \A y \in T : ~(y < x)
  BY <1>1 DEF OpToRel
<1>3. \A y \in T : x <= y
  BY <1>2
<1>. QED
  BY <1>3 DEF Min

\* A value is a non-empty sequence of bytes.
LEMMA ValueIsSeq ==
  ASSUME NEW data \in Values
  PROVE  /\ data \in Seq(Bytes) /\ Len(data) \in Nat \ {0} /\ data # <<>>
         /\ DOMAIN data = 1 .. Len(data)
<1>1. PICK n \in 1 .. MaxLen : data \in [1 .. n -> Bytes]
  BY DEF Values
<1>2. n \in Nat \ {0}
  BY OramBlockAssumption
<1>3. data \in Seq(Bytes) /\ Len(data) = n /\ DOMAIN data = 1 .. n
  BY <1>1, <1>2
<1>. QED
  BY <1>2, <1>3

\* A sequence starts another if that goes on for as long with the same members.
LEMMA Starts ==
  ASSUME NEW S, NEW s \in Seq(S), NEW t \in Seq(S), Len(s) <= Len(t),
         \A i \in 1 .. Len(s) : s[i] = t[i]
  PROVE  IsPrefix(s, t)
<1> DEFINE n == Len(s)
           u == SubSeq(t, 1, n)
<1>1. n \in Nat /\ Len(t) \in Nat
  OBVIOUS
<1>2. u \in Seq(S) /\ Len(u) = n /\ \A i \in 1 .. n : u[i] = t[i]
  <2>1. 1 \in Int /\ n \in Int /\ \A i \in 1 .. n : t[i] \in S
    BY <1>1
  <2>2. /\ u \in Seq(S)
        /\ Len(u) = IF 1 <= n THEN n - 1 + 1 ELSE 0
        /\ \A i \in 1 .. n - 1 + 1 : u[i] = t[1 + i - 1]
    <3>. HIDE DEF n
    <3>. QED
      BY <2>1, SubSeqProperties
  <2>. HIDE DEF n, u
  <2>. QED
    BY <1>1, <2>2
<1>3. u = s
  <2>. HIDE DEF u
  <2>. QED
    BY <1>2, SeqEqual
<1>. QED
  BY <1>3, SubSeqFull DEF IsPrefix

\* The block that a write leaves is full, and the value lies in it.
LEMMA WrittenBlock ==
  ASSUME NEW data \in Values, NEW old, NEW heap \in Heaps(Buffer(data))
  PROVE  /\ Written(old, Buffer(data), heap) \in [1 .. BlockBytes -> Bytes]
         /\ Laid(data, Written(old, Buffer(data), heap))
<1> DEFINE pad == Padding(Len(data))
           buf == Buffer(data)
           all == buf \o heap
           b   == Written(old, buf, heap)
<1>1. BlockBytes \in Nat \ {0} /\ MaxByte \in Nat \ {0}
  BY OramBlockAssumption
<1>2. data \in Seq(Bytes) /\ Len(data) \in Nat /\ data # <<>>
  BY ValueIsSeq
<1>3. pad \in Nat
  BY <1>2, PaddingBounds
<1>4. Zeros(pad) \in Seq(Bytes) /\ Len(Zeros(pad)) = pad /\ \A i \in 1 .. pad : Zeros(pad)[i] = 0
  <2> HIDE DEF pad
  <2>. QED
    BY <1>1, <1>3 DEF Zeros, Bytes
<1>5. /\ buf \in Seq(Bytes) /\ Len(buf) = Len(data) + pad
      /\ \A i \in 1 .. Len(data) : buf[i] = data[i]
      /\ \A i \in 1 .. Len(data) + pad : Len(data) < i => buf[i] = 0
  <2>1. buf = data \o Zeros(pad)
    BY DEF Buffer
  <2>2. /\ buf \in Seq(Bytes) /\ Len(buf) = Len(data) + Len(Zeros(pad))
        /\ \A i \in 1 .. Len(data) + Len(Zeros(pad)) :
              buf[i] = IF i <= Len(data) THEN data[i] ELSE Zeros(pad)[i - Len(data)]
    <3>. HIDE DEF pad, buf
    <3>. QED
      BY <1>2, <1>4, <2>1, ConcatProperties
  <2>. HIDE DEF pad, buf
  <2>3. \A i \in 1 .. Len(data) : buf[i] = data[i]
    BY <1>2, <1>3, <1>4, <2>2
  <2>4. ASSUME NEW i \in 1 .. Len(data) + pad, Len(data) < i
        PROVE  buf[i] = 0
    <3>1. buf[i] = Zeros(pad)[i - Len(data)] /\ i - Len(data) \in 1 .. pad
      BY <1>2, <1>3, <1>4, <2>2, <2>4
    <3>. QED
      BY <1>4, <3>1
  <2>. QED
    BY <1>4, <2>2, <2>3, <2>4
<1>6. heap \in Seq(Bytes) /\ Len(buf) + Len(heap) >= BlockBytes /\ Len(heap) \in Nat
  <2>1. heap \in [1 .. (IF Len(buf) < BlockBytes THEN BlockBytes - Len(buf) ELSE 0) -> Bytes]
    BY DEF Heaps
  <2> DEFINE n == IF Len(buf) < BlockBytes THEN BlockBytes - Len(buf) ELSE 0
  <2>2. n \in Nat /\ Len(buf) + n >= BlockBytes
    <3>1. Len(buf) \in Nat
      BY <1>5
    <3>. HIDE DEF buf
    <3>. QED
      BY <1>1, <3>1
  <2>. HIDE DEF buf, n
  <2>3. heap \in Seq(Bytes) /\ Len(heap) = n
    <3>1. heap \in [1 .. n -> Bytes]
      BY <2>1 DEF n
    <3>. QED
      BY <2>2, <3>1
  <2>. QED
    BY <2>2, <2>3
<1>7. /\ all \in Seq(Bytes) /\ Len(all) = Len(buf) + Len(heap)
      /\ \A i \in 1 .. Len(buf) : all[i] = buf[i]
  <2>1. all = buf \o heap
    OBVIOUS
  <2>. HIDE DEF buf, all
  <2>2. /\ all \in Seq(Bytes) /\ Len(all) = Len(buf) + Len(heap)
        /\ \A i \in 1 .. Len(buf) + Len(heap) :
              all[i] = IF i <= Len(buf) THEN buf[i] ELSE heap[i - Len(buf)]
    BY <1>5, <1>6, <2>1, ConcatProperties
  <2>. QED
    BY <1>2, <1>3, <1>5, <1>6, <2>2
<1>8. \A i \in 1 .. BlockBytes : all[i] \in Bytes
  <2>. HIDE DEF all, buf
  <2>. QED
    BY <1>1, <1>2, <1>3, <1>5, <1>6, <1>7, SMTT(30)
<1>9. b \in [1 .. BlockBytes -> Bytes] /\ \A i \in 1 .. BlockBytes : b[i] = all[i]
  <2>1. b = SubSeq(all, 1, BlockBytes)
    BY DEF Written
  <2>. HIDE DEF all, b
  <2>2. 1 \in Int /\ BlockBytes \in Int
    BY <1>1
  <2>3. /\ b \in Seq(Bytes)
        /\ Len(b) = (IF 1 <= BlockBytes THEN BlockBytes - 1 + 1 ELSE 0)
        /\ \A i \in 1 .. BlockBytes - 1 + 1 : b[i] = all[1 + i - 1]
    BY <1>8, <2>1, <2>2, SubSeqProperties
  <2>. QED
    BY <1>1, <2>3
<1>10. \A i \in 1 .. BlockBytes : i <= Len(buf) => b[i] = buf[i]
  <2>. HIDE DEF all, b, buf
  <2>. QED
    BY <1>1, <1>5, <1>7, <1>9
<1>11. Laid(data, b)
  <2>. HIDE DEF all, b, buf, pad
  <2>1. ASSUME NEW i \in 1 .. BlockBytes, i <= Len(data)
        PROVE  b[i] = data[i]
    BY <1>1, <1>2, <1>3, <1>5, <1>10, <2>1
  <2>2. ASSUME NEW i \in 1 .. BlockBytes, Len(data) < i, i <= Len(data) + pad
        PROVE  b[i] = 0
    BY <1>1, <1>2, <1>3, <1>5, <1>10, <2>2
  <2>. QED
    BY <1>2, <2>1, <2>2 DEF Laid, pad
<1>. QED
  BY <1>9, <1>11

\* The block that a delete leaves is all zeros.
LEMMA ZeroedBlock ==
  ASSUME NEW old
  PROVE  /\ Written(old, Zeros(BlockBytes), <<>>) \in [1 .. BlockBytes -> Bytes]
         /\ Laid(<<>>, Written(old, Zeros(BlockBytes), <<>>))
<1> DEFINE z == Zeros(BlockBytes)
           b == Written(old, z, <<>>)
<1>1. BlockBytes \in Nat \ {0} /\ MaxByte \in Nat \ {0}
  BY OramBlockAssumption
<1>2. z \in [1 .. BlockBytes -> Bytes] /\ \A i \in 1 .. BlockBytes : z[i] = 0
  BY <1>1 DEF Zeros, Bytes
<1>3. z \in Seq(Bytes) /\ Len(z) = BlockBytes
  <2>. HIDE DEF z
  <2>. QED
    BY <1>1, <1>2
<1>4. b = z
  <2>1. b = SubSeq(z \o <<>>, 1, BlockBytes)
    BY DEF Written
  <2>. HIDE DEF z, b
  <2>. QED
    BY <1>3, <2>1, ConcatEmptySeq, SubSeqFull
<1>. HIDE DEF b, z
<1>5. b \in [1 .. BlockBytes -> Bytes] /\ Laid(<<>>, b)
  BY <1>1, <1>2, <1>4 DEF Laid
<1>. QED
  BY <1>5 DEF b, z

-----------------------------------------------------------------------------
\* What the calls of the store do to it: every one of them leaves each block
\* with the bytes of the value last put there.
LEMMA StoreStarts == StoreInit => StoreInv
<1>1. BlockBytes \in Nat \ {0} /\ MaxByte \in Nat \ {0}
  BY OramBlockAssumption
<1>2. Zeros(BlockBytes) \in [1 .. BlockBytes -> Bytes] /\ Laid(<<>>, Zeros(BlockBytes))
  BY <1>1 DEF Zeros, Bytes, Laid
<1>. QED
  BY <1>2 DEF StoreInit, StoreInv, StoreTypeOK

LEMMA SetKeeps ==
  ASSUME StoreInv, NEW id \in Nat, NEW data \in Values, OramSet(id, data)
  PROVE  StoreInv'
<1>1. CASE id >= NumBlocks /\ UNCHANGED store
  BY <1>1 DEF StoreInv, StoreTypeOK, store
<1>2. ASSUME NEW heap \in Heaps(Buffer(data)), id < NumBlocks,
             storage' = [storage EXCEPT ![id] = Written(@, Buffer(data), heap)],
             last' = [last EXCEPT ![id] = data]
      PROVE  StoreInv'
  <2> DEFINE b == Written(storage[id], Buffer(data), heap)
  <2>1. b \in [1 .. BlockBytes -> Bytes] /\ Laid(data, b)
    BY WrittenBlock
  <2>2. storage' = [storage EXCEPT ![id] = b]
    BY <1>2
  <2>. HIDE DEF b
  <2>3. StoreTypeOK'
    BY <1>2, <2>1, <2>2 DEF StoreInv, StoreTypeOK
  <2>4. ASSUME NEW i \in Blocks
        PROVE  Laid(last'[i], storage'[i])
    BY <1>2, <2>1, <2>2 DEF StoreInv, StoreTypeOK
  <2>. QED
    BY <2>3, <2>4 DEF StoreInv
<1>. QED
  BY <1>1, <1>2 DEF OramSet

LEMMA DeleteKeeps ==
  ASSUME StoreInv, NEW id \in Nat, OramDelete(id)
  PROVE  StoreInv'
<1>1. CASE id >= NumBlocks /\ UNCHANGED store
  BY <1>1 DEF StoreInv, StoreTypeOK, store
<1>2. ASSUME id < NumBlocks,
             storage' = [storage EXCEPT ![id] = Written(@, Zeros(BlockBytes), <<>>)],
             last' = [last EXCEPT ![id] = <<>>]
      PROVE  StoreInv'
  <2> DEFINE b == Written(storage[id], Zeros(BlockBytes), <<>>)
  <2>1. b \in [1 .. BlockBytes -> Bytes] /\ Laid(<<>>, b)
    BY ZeroedBlock
  <2>2. storage' = [storage EXCEPT ![id] = b]
    BY <1>2
  <2>. HIDE DEF b
  <2>3. StoreTypeOK'
    BY <1>2, <2>1, <2>2 DEF StoreInv, StoreTypeOK
  <2>4. ASSUME NEW i \in Blocks
        PROVE  Laid(last'[i], storage'[i])
    BY <1>2, <2>1, <2>2 DEF StoreInv, StoreTypeOK
  <2>. QED
    BY <2>3, <2>4 DEF StoreInv
<1>. QED
  BY <1>1, <1>2 DEF OramDelete
-----------------------------------------------------------------------------
\* A block is cut in front of its first zero byte, or not at all.
LEMMA CutAt ==
  ASSUME NEW b \in [1 .. BlockBytes -> Bytes]
  PROVE  \E n \in 0 .. BlockBytes :
            /\ Cut(b) \in Seq(Bytes) /\ Len(Cut(b)) = n
            /\ \A i \in 1 .. n : Cut(b)[i] = b[i] /\ b[i] # 0
            /\ n = BlockBytes \/ b[n + 1] = 0
<1> DEFINE I == {i \in 1 .. Len(b) : b[i] = 0}
<1>1. BlockBytes \in Nat \ {0}
  BY OramBlockAssumption
<1>2. b \in Seq(Bytes) /\ Len(b) = BlockBytes /\ DOMAIN b = 1 .. BlockBytes
  BY <1>1
<1>3. ASSUME I = {}
      PROVE  Cut(b) = b /\ \A i \in 1 .. BlockBytes : b[i] # 0
  BY <1>2, <1>3 DEF Cut
<1>4. ASSUME I # {}
      PROVE  /\ Min(I) \in 1 .. BlockBytes /\ b[Min(I)] = 0
             /\ Cut(b) = SubSeq(b, 1, Min(I) - 1)
             /\ \A i \in 1 .. Min(I) - 1 : b[i] # 0
  <2>1. I \in SUBSET Nat
    BY <1>1, <1>2
  <2>2. Min(I) \in I /\ \A y \in I : Min(I) <= y
    BY <1>4, <2>1, NatMin
  <2>3. Cut(b) = SubSeq(b, 1, Min(I) - 1)
    BY <1>2, <1>4 DEF Cut, SelectInSeq
  <2>4. \A i \in 1 .. Min(I) - 1 : b[i] # 0
    BY <1>1, <1>2, <2>1, <2>2
  <2>. QED
    BY <1>2, <2>2, <2>3, <2>4
<1>5. CASE I = {}
  <2>. HIDE DEF I
  <2>. QED
    BY <1>1, <1>2, <1>3, <1>5
<1>6. CASE I # {}
  <2> DEFINE n == Min(I) - 1
  <2>1. /\ n \in 0 .. BlockBytes /\ b[n + 1] = 0 /\ Cut(b) = SubSeq(b, 1, n)
        /\ \A i \in 1 .. n : b[i] # 0
    <3>. HIDE DEF I
    <3>. QED
      BY <1>1, <1>4, <1>6
  <2>. HIDE DEF n
  <2>2. /\ Cut(b) \in Seq(Bytes) /\ Len(Cut(b)) = n
        /\ \A i \in 1 .. n : Cut(b)[i] = b[i]
    <3>1. 1 \in Int /\ n \in Int /\ \A i \in 1 .. n : b[i] \in Bytes
      BY <1>1, <2>1
    <3>2. /\ Cut(b) \in Seq(Bytes)
          /\ Len(Cut(b)) = IF 1 <= n THEN n - 1 + 1 ELSE 0
          /\ \A i \in 1 .. n - 1 + 1 : Cut(b)[i] = b[1 + i - 1]
      BY <2>1, <3>1, SubSeqProperties
    <3>. QED
      BY <1>1, <2>1, <3>2
  <2>. QED
    BY <2>1, <2>2
<1>. QED
  BY <1>5, <1>6

\* What is read of a block in which a value lies.
LEMMA ReadsWhatLies ==
  ASSUME NEW b \in [1 .. BlockBytes -> Bytes], NEW data \in Values \cup {<<>>},
         Laid(data, b)
  PROVE  /\ Safe(data) => Cut(b) = data
         /\ \/ IsPrefix(Cut(b), data)
            \/ IsPrefix(data, Cut(b)) /\ \A i \in DOMAIN data : data[i] # 0
<1>1. BlockBytes \in Nat \ {0}
  BY OramBlockAssumption
<1>2. data \in Seq(Bytes) /\ Len(data) \in Nat /\ DOMAIN data = 1 .. Len(data)
  <2>1. CASE data = <<>>
    BY <2>1
  <2>2. CASE data # <<>>
    BY <2>2, ValueIsSeq
  <2>. QED
    BY <2>1, <2>2
<1>3. PICK n \in 0 .. BlockBytes :
         /\ Cut(b) \in Seq(Bytes) /\ Len(Cut(b)) = n
         /\ \A i \in 1 .. n : Cut(b)[i] = b[i] /\ b[i] # 0
         /\ n = BlockBytes \/ b[n + 1] = 0
  BY CutAt
<1>4. /\ \A i \in 1 .. BlockBytes : i <= Len(data) => b[i] = data[i]
      /\ data = <<>> => \A i \in 1 .. BlockBytes : b[i] = 0
  BY DEF Laid
<1>5. ASSUME Safe(data)
      PROVE  n = Len(data)
  <2>1. PICK m \in Nat : m = Len(data)
    BY <1>2
  <2>2. /\ m <= BlockBytes /\ \A i \in 1 .. m : data[i] # 0
        /\ m = 0 \/ m = BlockBytes \/ m % WordBytes # 0
        /\ m = 0 <=> data = <<>>
    BY <1>2, <1>5, <2>1 DEF Safe
  <2>3. ~(n < m)
    <3>1. SUFFICES ASSUME n < m
                   PROVE  FALSE
      OBVIOUS
    <3>2. n + 1 \in 1 .. BlockBytes /\ n + 1 \in 1 .. m /\ n + 1 <= m /\ n # BlockBytes
      BY <1>1, <2>2, <3>1
    <3>. QED
      BY <1>3, <1>4, <2>1, <2>2, <3>2
  <2>4. ASSUME n > m
        PROVE  FALSE
    <3>1. m + 1 \in 1 .. n /\ m + 1 \in 1 .. BlockBytes /\ m # BlockBytes
      BY <1>1, <2>4
    <3>2. b[m + 1] # 0
      BY <1>3, <3>1
    <3>3. m # 0
      BY <1>4, <2>2, <3>1, <3>2
    <3>4. Padding(m) \in Nat /\ Padding(m) > 0
      BY <2>2, <3>1, <3>3, PaddingBounds
    <3>5. m < m + 1 /\ m + 1 <= m + Padding(m)
      BY <3>4
    <3>. QED
      BY <2>1, <3>1, <3>2, <3>5 DEF Laid
  <2>. QED
    BY <2>1, <2>3, <2>4
<1>6. ASSUME n <= Len(data)
      PROVE  IsPrefix(Cut(b), data)
  <2>1. \A i \in 1 .. n : Cut(b)[i] = data[i]
    BY <1>1, <1>2, <1>3, <1>4, <1>6
  <2>. QED
    BY <1>2, <1>3, <1>6, <2>1, Starts
<1>7. ASSUME n > Len(data)
      PROVE  IsPrefix(data, Cut(b)) /\ \A i \in DOMAIN data : data[i] # 0
  <2>1. ASSUME NEW i \in 1 .. Len(data)
        PROVE  Cut(b)[i] = data[i] /\ data[i] # 0
    <3>1. i \in 1 .. BlockBytes /\ i \in 1 .. n /\ i <= Len(data)
      BY <1>1, <1>2, <1>7
    <3>. QED
      BY <1>3, <1>4, <3>1
  <2>. QED
    BY <1>2, <1>3, <1>7, <2>1, Starts
<1>8. Safe(data) => Cut(b) = data
  <2>1. ASSUME n = Len(data)
        PROVE  Cut(b) = data
    <3>1. \A i \in 1 .. n : Cut(b)[i] = data[i]
      <4>1. \A i \in 1 .. n : i \in 1 .. BlockBytes /\ i <= Len(data)
        BY <1>1, <2>1
      <4>. QED
        BY <1>3, <1>4, <4>1
    <3>. QED
      BY <1>2, <1>3, <2>1, <3>1, SeqEqual
  <2>. QED
    BY <1>5, <2>1
<1>. QED
  BY <1>2, <1>3, <1>6, <1>7, <1>8

-----------------------------------------------------------------------------
\* The invariant of the EMM, whatever HIRB calls fail: a number has been in
\* the index of one key at most, a number to come has nothing in its block,
\* and the block of a key holds the last value put under it, or nothing.
EmmTypes ==
    /\ idCounter \in Nat \ {0} /\ index \in [Keys -> Nat]
    /\ content \in [Blocks -> Vals \cup {NoVal}]
    /\ put \in [Keys -> Vals \cup {NoVal}]
    /\ faults \in 0 .. MaxFaults

Numbered ==
    /\ \A k \in Keys : index[k] < idCounter
    /\ \A k, l \in Keys : index[k] = index[l] => index[k] = NoId \/ k = l
    /\ \A i \in Blocks : i >= idCounter => content[i] = NoVal /\ last[i] = <<>>

Holding ==
    \A k \in Keys :
        index[k] # NoId /\ index[k] \in Blocks => content[index[k]] \in {NoVal, put[k]}

EInv == StoreInv /\ EmmTypes /\ Numbered /\ Holding

\* The three ways in which newGetOrCreateIndex ends: the key has an index
\* (Found), it gets one, or the registration fails.
New(k, id) ==
    /\ id = idCounter /\ idCounter' = idCounter + 1
    /\ index' = [index EXCEPT ![k] = idCounter]
    /\ faults' \in faults .. MaxFaults
    /\ faults' = faults => index[k] = NoId

Failed(k, id) ==
    /\ id = NoId /\ idCounter' = idCounter + 1
    /\ index' = index \/ index' = [index EXCEPT ![k] = idCounter]
    /\ faults' \in faults + 1 .. MaxFaults

LEMMA Lookup ==
  ASSUME EmmTypes, NEW k \in Keys, NEW id, newGetOrCreateIndex(k, id)
  PROVE  Found(k, id) \/ New(k, id) \/ Failed(k, id)
<1>1. CASE Found(k, id)
  BY <1>1
<1>2. ASSUME NEW failed \in {0, 1}, NotFound(k, failed), Created(k, id, failed),
             faults' <= MaxFaults
      PROVE  New(k, id)
  BY <1>2, BaselineAssumption DEF NotFound, Created, New, EmmTypes
<1>3. ASSUME NEW failed \in {0, 1}, NotCreated(k, id, failed), faults' <= MaxFaults
      PROVE  Failed(k, id)
  BY <1>3, BaselineAssumption DEF NotCreated, Failed, EmmTypes
<1>. QED
  BY <1>1, <1>2, <1>3 DEF newGetOrCreateIndex

\* What a call then does with the block of the index: nothing, or it leaves v
\* there; a block stays empty only if v is nothing.
Stored(k, id, v) ==
    /\ id # NoId /\ StoreInv' /\ Holds(k, id, v)
    /\ \A i \in Blocks : i # id => last'[i] = last[i]
    /\ id \in Blocks /\ last'[id] = <<>> => v = NoVal

Call(k, id, v) ==
    /\ Found(k, id) \/ New(k, id) \/ Failed(k, id)
    /\ UNCHANGED <<store, content, put>> \/ Stored(k, id, v)

LEMMA PutCalls ==
  ASSUME StoreInv, EmmTypes, cipherLen \in 1 .. MaxLen, NEW k \in Keys, NEW v, Put(k, v)
  PROVE  \E id : Call(k, id, v) /\ (id # NoId => Stored(k, id, v))
<1>1. PICK id \in Ids(k) :
         /\ newGetOrCreateIndex(k, id)
         /\ \/ id = NoId /\ UNCHANGED <<store, content, put>>
            \/ /\ id # NoId
               /\ \E ciphertext \in [1 .. cipherLen -> Bytes] : OramSet(id, ciphertext)
               /\ Holds(k, id, v)
  BY DEF Put
<1>2. Found(k, id) \/ New(k, id) \/ Failed(k, id)
  BY <1>1, Lookup
<1>3. ASSUME NEW c \in [1 .. cipherLen -> Bytes], OramSet(id, c), id # NoId, Holds(k, id, v)
      PROVE  Stored(k, id, v)
  <2>1. c \in Values
    BY DEF Values
  <2>2. id \in Nat /\ c # <<>>
    BY <2>1, ValueIsSeq DEF Ids, EmmTypes, NoId
  <2>3. StoreInv'
    BY <1>3, <2>1, <2>2, SetKeeps
  <2>4. /\ \A i \in Blocks : i # id => last'[i] = last[i]
        /\ id \in Blocks => last'[id] = c
    BY <1>3, <2>2, OramBlockAssumption DEF OramSet, store, StoreInv, StoreTypeOK, Blocks
  <2>. QED
    BY <1>3, <2>2, <2>3, <2>4 DEF Stored
<1>. QED
  BY <1>1, <1>2, <1>3 DEF Call

LEMMA DeleteCalls ==
  ASSUME StoreInv, EmmTypes, NEW k \in Keys, Delete(k)
  PROVE  \E id : Call(k, id, NoVal) /\ (id # NoId => Stored(k, id, NoVal))
<1>1. PICK id \in Ids(k) :
         /\ newGetOrCreateIndex(k, id)
         /\ \/ id = NoId /\ UNCHANGED <<store, content, put>>
            \/ id # NoId /\ OramDelete(id) /\ Holds(k, id, NoVal)
  BY DEF Delete
<1>2. Found(k, id) \/ New(k, id) \/ Failed(k, id)
  BY <1>1, Lookup
<1>3. ASSUME OramDelete(id), id # NoId, Holds(k, id, NoVal)
      PROVE  Stored(k, id, NoVal)
  <2>1. id \in Nat
    BY DEF Ids, EmmTypes, NoId
  <2>2. StoreInv'
    BY <1>3, <2>1, DeleteKeeps
  <2>3. \A i \in Blocks : i # id => last'[i] = last[i]
    BY <1>3, <2>1, OramBlockAssumption DEF OramDelete, store, StoreInv, StoreTypeOK, Blocks
  <2>. QED
    BY <1>3, <2>2, <2>3 DEF Stored
<1>. QED
  BY <1>1, <1>2, <1>3 DEF Call

LEMMA GetCalls ==
  ASSUME EmmTypes, NEW k \in Keys, NEW v, Get(k)
  PROVE  \E id : Call(k, id, v) /\ UNCHANGED <<store, content, put>>
BY Lookup DEF Get, Call

LEMMA CallKeeps ==
  ASSUME EInv, NEW k \in Keys, NEW v \in Vals \cup {NoVal}, NEW id, Call(k, id, v)
  PROVE  EInv'
<1>1. /\ idCounter \in Nat \ {0} /\ index \in [Keys -> Nat] /\ NumBlocks \in Nat
      /\ \A l \in Keys : index[l] < idCounter
  BY OramBlockAssumption DEF EInv, EmmTypes, Numbered
<1>2. /\ idCounter' \in Nat \ {0} /\ index' \in [Keys -> Nat]
      /\ idCounter' >= idCounter /\ faults' \in 0 .. MaxFaults
      /\ \A l \in Keys : index'[l] < idCounter'
      /\ \A l \in Keys : l # k => index'[l] = index[l]
      /\ \/ index'[k] = index[k]
         \/ index'[k] = idCounter /\ idCounter' = idCounter + 1
  <2>1. /\ \/ index' = index /\ idCounter' \in {idCounter, idCounter + 1}
           \/ index' = [index EXCEPT ![k] = idCounter] /\ idCounter' = idCounter + 1
        /\ \/ faults' = faults \/ faults' \in faults .. MaxFaults
           \/ faults' \in faults + 1 .. MaxFaults
    BY DEF Call, Found, New, Failed
  <2>2. faults' \in 0 .. MaxFaults
    BY <2>1, BaselineAssumption DEF EInv, EmmTypes
  <2>3. CASE index' = index /\ idCounter' \in {idCounter, idCounter + 1}
    <3>1. idCounter' \in Nat \ {0} /\ idCounter' >= idCounter
      BY <1>1, <2>3
    <3>2. ASSUME NEW l \in Keys
          PROVE  index'[l] < idCounter'
      <4>1. index[l] \in Nat /\ index[l] < idCounter /\ index'[l] = index[l]
        BY <1>1, <2>3
      <4>. QED
        BY <1>1, <3>1, <4>1
    <3>. QED
      BY <1>1, <2>2, <2>3, <3>1, <3>2
  <2>4. CASE index' = [index EXCEPT ![k] = idCounter] /\ idCounter' = idCounter + 1
    <3>1. index'[k] = idCounter /\ \A l \in Keys : l # k => index'[l] = index[l]
      BY <1>1, <2>4
    <3>2. index' \in [Keys -> Nat]
      BY <1>1, <2>4
    <3>. QED
      BY <1>1, <2>2, <2>4, <3>1, <3>2
  <2>. QED
    BY <2>1, <2>3, <2>4
<1>3. StoreInv'
  BY DEF Call, Stored, EInv, StoreInv, StoreTypeOK, store
<1>4. /\ content' \in [Blocks -> Vals \cup {NoVal}]
      /\ put' \in [Keys -> Vals \cup {NoVal}]
  BY DEF Call, Stored, Holds, EInv, EmmTypes
<1>5. id # NoId => id = index'[k] /\ id < idCounter'
  BY <1>1, <1>2 DEF Call, Found, New, Failed, EInv, EmmTypes
<1>6. \A l, m \in Keys : index'[l] = index'[m] => index'[l] = NoId \/ l = m
  BY <1>1, <1>2 DEF EInv, Numbered
<1>7. ASSUME NEW i \in Blocks, i # id
      PROVE  content'[i] = content[i] /\ last'[i] = last[i]
  BY <1>7 DEF Call, Stored, Holds, store
<1>8. ASSUME NEW i \in Blocks, i >= idCounter'
      PROVE  content'[i] = NoVal /\ last'[i] = <<>>
  <2>1. i \in Nat /\ i >= idCounter
    BY <1>1, <1>2, <1>8 DEF Blocks
  <2>2. content[i] = NoVal /\ last[i] = <<>>
    BY <2>1 DEF EInv, Numbered
  <2>3. i # id \/ id = NoId
    BY <1>2, <1>5, <1>8, <2>1
  <2>. QED
    BY <1>7, <2>2, <2>3 DEF Call, Stored, store
<1>9. ASSUME NEW l \in Keys, index'[l] # NoId, index'[l] \in Blocks
      PROVE  content'[index'[l]] \in {NoVal, put'[l]}
  <2>1. CASE l # k
    <3>1. index'[l] = index[l] /\ (id # NoId => index[l] # id)
      BY <1>2, <1>5, <1>6, <1>9, <2>1
    <3>2. content'[index[l]] = content[index[l]] /\ put'[l] = put[l]
      BY <1>7, <1>9, <2>1, <3>1 DEF Call, Stored, Holds, EInv, EmmTypes, store
    <3>. QED
      BY <1>9, <3>1, <3>2 DEF EInv, Holding
  <2>2. CASE l = k /\ UNCHANGED <<store, content, put>>
    BY <1>1, <1>2, <1>9, <2>2 DEF EInv, Holding, Numbered
  <2>3. CASE l = k /\ Stored(k, id, v)
    BY <1>5, <1>9, <2>3 DEF Stored, Holds, EInv, EmmTypes
  <2>. QED
    BY <2>1, <2>2, <2>3 DEF Call
<1>. QED
  BY <1>2, <1>3, <1>4, <1>6, <1>8, <1>9 DEF EInv, EmmTypes, Numbered, Holding
-----------------------------------------------------------------------------
\* The invariant of the benchmark around the EMM: the keys it remembers are no
\* more than the turns of its first phase.
BenchTypes ==
    /\ plain \in [Keys -> Seq(Vals)]
    /\ run \in 1 .. TotalRuns /\ phase \in Phases /\ pos \in 0 .. WarmUp
    /\ writtenKeys \in Seq(Keys) /\ cipherLen \in 1 .. MaxLen

Bounded ==
    Len(writtenKeys) <= (IF phase = "warmup" THEN pos
                         ELSE IF phase = "over" THEN 0 ELSE WarmUp)

BInv == EInv /\ BenchTypes /\ Bounded

LEMMA Half ==
  ASSUME NEW n \in Nat
  PROVE  n \div 2 \in 0 .. n
OBVIOUS

\* The keys of the loops over the writes.
LEMMA WrittenKey ==
  ASSUME BenchTypes, NEW n \in 0 .. Len(writtenKeys), pos < n
  PROVE  /\ writtenKeys[pos + 1] \in Keys
         /\ writtenKeys[pos + 1] \in Range(writtenKeys)
<1>1. Len(writtenKeys) \in Nat /\ pos \in Nat /\ pos + 1 \in 1 .. Len(writtenKeys)
  BY BaselineAssumption DEF BenchTypes
<1>. QED
  BY <1>1 DEF BenchTypes, Range

LEMMA SomeKey == BenchTypes => Range(writtenKeys) \subseteq Keys
BY DEF BenchTypes, Range

\* What one step of the benchmark asks of the maps: a put, a get or a delete
\* of a key, or nothing.
LEMMA StepCalls ==
  ASSUME BInv, Next
  PROVE  \/ \E k \in Keys, v \in Vals : WarmUpWrite /\ MapWrite(k, v)
                                         /\ writtenKeys' = Append(writtenKeys, k)
         \/ \E k \in Range(writtenKeys) : MapRead(k) /\ UNCHANGED writtenKeys
         \/ \E k \in Range(writtenKeys) : MapDelete(k) /\ UNCHANGED writtenKeys
         \/ UNCHANGED <<emm, plain>>
<1>1. Len(writtenKeys) \in Nat /\ Len(writtenKeys) \div 2 \in 0 .. Len(writtenKeys)
  BY Half DEF BInv, BenchTypes
<1>2. CASE WarmUpWrite
  BY <1>2 DEF WarmUpWrite
<1>3. CASE WarmUpRead
  BY <1>3 DEF WarmUpRead
<1>4. CASE DeletePhase
  BY <1>1, <1>4, WrittenKey DEF DeletePhase, Turn, BInv
<1>5. CASE VerifyPhase
  BY <1>1, <1>5, WrittenKey DEF VerifyPhase, Turn, BInv
<1>6. CASE NextPhase
  BY <1>6 DEF NextPhase
<1>. QED
  BY <1>2, <1>3, <1>4, <1>5, <1>6 DEF Next

LEMMA EmmKept ==
  ASSUME BInv, Next
  PROVE  EInv' /\ plain' \in [Keys -> Seq(Vals)]
<1>1. ASSUME NEW k \in Keys, NEW v \in Vals, MapWrite(k, v)
      PROVE  EInv' /\ plain' \in [Keys -> Seq(Vals)]
  <2>1. \E id : Call(k, id, v)
    BY <1>1, PutCalls DEF MapWrite, BInv, EInv, BenchTypes
  <2>2. EInv'
    BY <2>1, CallKeeps DEF BInv
  <2>. QED
    BY <1>1, <2>2 DEF MapWrite, BInv, BenchTypes
<1>2. ASSUME NEW k \in Keys, MapRead(k)
      PROVE  EInv' /\ plain' \in [Keys -> Seq(Vals)]
  <2>1. \E id : Call(k, id, NoVal)
    BY <1>2, GetCalls DEF MapRead, BInv, EInv
  <2>2. EInv'
    BY <2>1, CallKeeps DEF BInv
  <2>. QED
    BY <1>2, <2>2 DEF MapRead, BInv, BenchTypes
<1>3. ASSUME NEW k \in Keys, MapDelete(k)
      PROVE  EInv' /\ plain' \in [Keys -> Seq(Vals)]
  <2>1. \E id : Call(k, id, NoVal)
    BY <1>3, DeleteCalls DEF MapDelete, BInv, EInv
  <2>2. EInv'
    BY <2>1, CallKeeps DEF BInv
  <2>. QED
    BY <1>3, <2>2 DEF MapDelete, BInv, BenchTypes
<1>4. ASSUME UNCHANGED <<emm, plain>>
      PROVE  EInv' /\ plain' \in [Keys -> Seq(Vals)]
  BY <1>4 DEF BInv, BenchTypes, EInv, StoreInv, StoreTypeOK, EmmTypes, Numbered, Holding,
              emm, store
<1>5. Range(writtenKeys) \subseteq Keys
  BY SomeKey DEF BInv
<1>. QED
  BY <1>1, <1>2, <1>3, <1>4, <1>5, StepCalls

LEMMA BenchKept ==
  ASSUME BInv, Next
  PROVE  BenchTypes' /\ Bounded'
<1>1. /\ writtenKeys \in Seq(Keys) /\ Len(writtenKeys) \in Nat /\ Len(writtenKeys) <= WarmUp
      /\ Len(writtenKeys) \div 2 \in 0 .. Len(writtenKeys)
      /\ WarmUp \in Nat /\ pos \in 0 .. WarmUp /\ TotalRuns \in Nat \ {0}
      /\ run \in 1 .. TotalRuns
  BY Half, BaselineAssumption DEF BInv, BenchTypes, Bounded
<1>2. plain' \in [Keys -> Seq(Vals)]
  BY EmmKept
<1>3. cipherLen' \in 1 .. MaxLen
  BY DEF BInv, BenchTypes, Next, WarmUpWrite, WarmUpRead, DeletePhase, VerifyPhase, NextPhase,
         Turn
<1>4. CASE WarmUpWrite
  <2>1. PICK k \in Keys : writtenKeys' = Append(writtenKeys, k)
    BY <1>4 DEF WarmUpWrite
  <2>2. writtenKeys' \in Seq(Keys) /\ Len(writtenKeys') = Len(writtenKeys) + 1
    BY <1>1, <2>1
  <2>. QED
    BY <1>1, <1>2, <1>3, <1>4, <2>2 DEF WarmUpWrite, Turn, BInv, BenchTypes, Bounded
<1>5. CASE WarmUpRead
  BY <1>1, <1>2, <1>3, <1>5 DEF WarmUpRead, Turn, BInv, BenchTypes, Bounded
<1>6. CASE DeletePhase
  BY <1>1, <1>2, <1>3, <1>6 DEF DeletePhase, Turn, BInv, BenchTypes, Bounded
<1>7. CASE VerifyPhase
  BY <1>1, <1>2, <1>3, <1>7 DEF VerifyPhase, Turn, BInv, BenchTypes, Bounded
<1>8. CASE NextPhase
  <2>1. CASE phase \in {"warmup", "delete"}
    BY <1>1, <1>2, <1>3, <1>8, <2>1 DEF NextPhase, BInv, BenchTypes, Bounded, Phases
  <2>2. CASE phase = "verify"
    <3>1. /\ writtenKeys' = <<>> /\ pos' = 0
          /\ run' \in 1 .. TotalRuns /\ phase' \in {"warmup", "over"}
      BY <1>1, <1>8, <2>2 DEF NextPhase
    <3>2. writtenKeys' \in Seq(Keys) /\ Len(writtenKeys') = 0
      BY <3>1
    <3>. QED
      BY <1>1, <1>2, <1>3, <3>1, <3>2 DEF BenchTypes, Bounded, Phases
  <2>. QED
    BY <1>8, <2>1, <2>2 DEF NextPhase
<1>. QED
  BY <1>4, <1>5, <1>6, <1>7, <1>8 DEF Next

LEMMA BInvStarts == Init => BInv
<1> SUFFICES ASSUME Init
             PROVE  BInv
  OBVIOUS
<1>1. StoreInv
  BY StoreStarts DEF Init
<1>2. EmmTypes /\ Holding
  BY BaselineAssumption DEF Init, EmmTypes, Holding, NoId
<1>3. Numbered
  BY DEF Init, Numbered, NoId, StoreInit, Blocks
<1>4. BenchTypes /\ Bounded
  BY BaselineAssumption DEF Init, BenchTypes, Bounded, Phases
<1>. QED
  BY <1>1, <1>2, <1>3, <1>4 DEF BInv, EInv

LEMMA BInvKept == BInv /\ [Next]_vars => BInv'
<1> SUFFICES ASSUME BInv, [Next]_vars
             PROVE  BInv'
  OBVIOUS
<1>1. CASE Next
  BY <1>1, EmmKept, BenchKept DEF BInv
<1>2. CASE UNCHANGED vars
  BY <1>2 DEF BInv, BenchTypes, Bounded, EInv, StoreInv, StoreTypeOK, EmmTypes, Numbered,
              Holding, vars, bench, emm, store
<1>. QED
  BY <1>1, <1>2

LEMMA BInvAlways == Spec => []BInv
BY BInvStarts, BInvKept, PTL DEF Spec

\* Every variable of the baseline EMM, of the block store and of the benchmark
\* keeps its type: PathORAM.cpp never leaves a block longer or shorter than
\* BLOCK_SIZE words, whatever the length of the ciphertext.
THEOREM TypeCorrect == Spec => []TypeOK
<1>1. BInv => TypeOK
  BY DEF BInv, EInv, StoreInv, EmmTypes, BenchTypes, TypeOK
<1>. QED
  BY <1>1, BInvAlways, PTL

\* A value without a zero byte that fits its block, and is followed by padding
\* or by the end of the block, reads back exactly, whatever memory follows the
\* buffer of oram_set (PathORAM.cpp:106).
THEOREM SafeReadsBack == Spec => []ReadBack
<1>1. BInv => ReadBack
  <2> SUFFICES ASSUME BInv, NEW id \in Blocks, Safe(last[id])
               PROVE  Cut(OramGet(id)) = last[id]
    BY DEF ReadBack
  <2>1. storage[id] \in [1 .. BlockBytes -> Bytes] /\ last[id] \in Values \cup {<<>>}
    BY DEF BInv, EInv, StoreInv, StoreTypeOK
  <2>2. Laid(last[id], storage[id]) /\ OramGet(id) = storage[id]
    BY OramBlockAssumption DEF BInv, EInv, StoreInv, OramGet, Blocks
  <2>. QED
    BY <2>1, <2>2, ReadsWhatLies
<1>. QED
  BY <1>1, BInvAlways, PTL

\* What the byte handling of libs/oram does to any other value is to cut it or
\* to continue it: no byte of it is ever replaced, and none inside it is lost.
THEOREM DamageAtTheEnd == Spec => []DamageIsAtTheEnd
<1>1. BInv => DamageIsAtTheEnd
  <2> SUFFICES ASSUME BInv, NEW id \in Blocks
               PROVE  \/ IsPrefix(Cut(OramGet(id)), last[id])
                      \/ /\ IsPrefix(last[id], Cut(OramGet(id)))
                         /\ \A i \in DOMAIN last[id] : last[id][i] # 0
    BY DEF DamageIsAtTheEnd
  <2>1. storage[id] \in [1 .. BlockBytes -> Bytes] /\ last[id] \in Values \cup {<<>>}
    BY DEF BInv, EInv, StoreInv, StoreTypeOK
  <2>2. Laid(last[id], storage[id]) /\ OramGet(id) = storage[id]
    BY OramBlockAssumption DEF BInv, EInv, StoreInv, OramGet, Blocks
  <2>. QED
    BY <2>1, <2>2, ReadsWhatLies
<1>. QED
  BY <1>1, BInvAlways, PTL

\* Whatever HIRB calls fail and however ciphertexts are damaged, a key reads
\* back as nothing or as the last value put under it without an error.
THEOREM NeverStale == Spec => []NothingStale
<1>1. BInv => NothingStale
  BY DEF BInv, EInv, Holding, NothingStale, Answer
<1>. QED
  BY <1>1, BInvAlways, PTL
-----------------------------------------------------------------------------
\* What holds besides while no HIRB call has failed: the keys of a run have an
\* index, the block of a key holds what the plaintext map holds last, and there
\* are as many numbers in use as keys that have one.
Indexed == {k \in Keys : index[k] # NoId}

Latest(values) == IF values = <<>> THEN NoVal ELSE Last(values)

Registered == \A k \in Range(writtenKeys) : index[k] # NoId

Mirrored ==
    \A k \in Keys :
        /\ put[k] = Latest(plain[k])
        /\ index[k] = NoId => put[k] = NoVal
        /\ index[k] # NoId /\ index[k] \in Blocks =>
              /\ content[index[k]] = put[k]
              /\ last[index[k]] = <<>> => put[k] = NoVal

Counted ==
    /\ IsFiniteSet(Indexed) /\ idCounter - 1 = Cardinality(Indexed)
    /\ idCounter - 1 <= Writes

FInv == BInv /\ (faults = 0 => Registered /\ Mirrored /\ Counted)

\* A call that meets no fault finds an index or takes the first one of its key.
LEMMA FaultlessCall ==
  ASSUME EInv, NEW k \in Keys, NEW v, NEW id, Call(k, id, v), faults' = 0
  PROVE  /\ faults = 0 /\ id # NoId /\ id = index'[k]
         /\ \/ index' = index /\ idCounter' = idCounter /\ index[k] # NoId
            \/ /\ index' = [index EXCEPT ![k] = idCounter] /\ idCounter' = idCounter + 1
               /\ index[k] = NoId
<1>1. faults \in Nat /\ idCounter \in Nat \ {0} /\ index \in [Keys -> Nat]
  BY BaselineAssumption DEF EInv, EmmTypes
<1>2. CASE Found(k, id)
  BY <1>1, <1>2 DEF Found
<1>3. CASE New(k, id)
  BY <1>1, <1>3 DEF New, NoId
<1>4. CASE Failed(k, id)
  BY <1>1, <1>4 DEF Failed
<1>. QED
  BY <1>2, <1>3, <1>4 DEF Call

\* The other keys' blocks are not this one's.
LEMMA OthersMirrored ==
  ASSUME EInv, Mirrored, NEW k \in Keys, NEW v \in Vals \cup {NoVal}, NEW id, Call(k, id, v),
         faults' = 0, NEW l \in Keys, l # k
  PROVE  /\ put'[l] = put[l]
         /\ index'[l] = NoId => put'[l] = NoVal
         /\ index'[l] # NoId /\ index'[l] \in Blocks =>
              /\ content'[index'[l]] = put'[l]
              /\ last'[index'[l]] = <<>> => put'[l] = NoVal
<1>1. index'[l] = index[l]
  BY FaultlessCall DEF EInv, EmmTypes
<1>2. put'[l] = put[l]
  BY DEF Call, Stored, Holds, EInv, EmmTypes
<1>3. EInv' /\ id = index'[k] /\ id # NoId
  BY CallKeeps, FaultlessCall
<1>4. index'[l] # NoId => index'[l] # id
  BY <1>3 DEF EInv, Numbered
<1>5. ASSUME NEW i \in Blocks, i # id
      PROVE  content'[i] = content[i] /\ last'[i] = last[i]
  BY <1>5 DEF Call, Stored, Holds, store
<1>. QED
  BY <1>1, <1>2, <1>4, <1>5 DEF Mirrored

LEMMA WriteMirrored ==
  ASSUME EInv, Mirrored, NEW k \in Keys, NEW v \in Vals \cup {NoVal}, NEW id, Call(k, id, v),
         Stored(k, id, v), faults' = 0, plain \in [Keys -> Seq(Vals)],
         NEW s, plain' = [plain EXCEPT ![k] = s], v = Latest(s)
  PROVE  Mirrored'
<1>1. ASSUME NEW l \in Keys, l # k
      PROVE  put'[l] = Latest(plain'[l])
  BY <1>1, OthersMirrored DEF Mirrored
<1>2. put'[k] = v /\ plain'[k] = s
  BY DEF Stored, Holds, EInv, EmmTypes
<1>3. index'[k] = id /\ id # NoId
  BY FaultlessCall
<1>4. id \in Blocks => content'[id] = v /\ (last'[id] = <<>> => v = NoVal)
  BY DEF Stored, Holds
<1>5. ASSUME NEW l \in Keys
      PROVE  /\ put'[l] = Latest(plain'[l])
             /\ index'[l] = NoId => put'[l] = NoVal
             /\ index'[l] # NoId /\ index'[l] \in Blocks =>
                  /\ content'[index'[l]] = put'[l]
                  /\ last'[index'[l]] = <<>> => put'[l] = NoVal
  <2>1. CASE l = k
    BY <1>2, <1>3, <1>4, <2>1
  <2>2. CASE l # k
    BY <1>1, <2>2, OthersMirrored
  <2>. QED
    BY <2>1, <2>2
<1>. QED
  BY <1>5 DEF Mirrored, Latest

LEMMA ReadMirrored ==
  ASSUME EInv, Mirrored, NEW k \in Keys, NEW id, Call(k, id, NoVal),
         UNCHANGED <<store, content, put>>, faults' = 0, UNCHANGED plain
  PROVE  Mirrored'
<1>1. index' = index \/ (index[k] = NoId /\ index'[k] = idCounter)
  BY FaultlessCall DEF EInv, EmmTypes
<1>2. ASSUME NEW l \in Keys
      PROVE  /\ put'[l] = Latest(plain'[l])
             /\ index'[l] = NoId => put'[l] = NoVal
             /\ index'[l] # NoId /\ index'[l] \in Blocks =>
                  /\ content'[index'[l]] = put'[l]
                  /\ last'[index'[l]] = <<>> => put'[l] = NoVal
  <2>1. CASE index'[l] = index[l]
    BY <2>1 DEF Mirrored, store
  <2>2. CASE l = k /\ index[k] = NoId /\ index'[k] = idCounter
    <3>1. put[k] = NoVal
      BY <2>2 DEF Mirrored
    <3>2. idCounter \in Blocks => content[idCounter] = NoVal
      BY DEF EInv, Numbered, EmmTypes, Blocks
    <3>. QED
      BY <2>2, <3>1, <3>2 DEF Mirrored
  <2>3. CASE l # k
    BY <2>1, <2>3, FaultlessCall DEF EInv, EmmTypes
  <2>. QED
    BY <1>1, <2>1, <2>2, <2>3
<1>. QED
  BY <1>2 DEF Mirrored, Latest

LEMMA OneMore ==
  ASSUME NEW m \in Nat, NEW n \in Nat, NEW w \in Nat, m - 1 <= w, n <= m + 1
  PROVE  n - 1 <= w + 1
OBVIOUS

\* The count of the writes so far.
LEMMA Product ==
  ASSUME NEW m \in Nat, NEW n \in Nat
  PROVE  m * n \in Nat /\ (m + 1) * n = m * n + n
OBVIOUS

LEMMA ProductGrows ==
  ASSUME NEW m \in Nat, NEW l \in Nat, NEW n \in Nat, m <= l
  PROVE  m * n <= l * n
<1>1. PICK d \in Nat : l = m + d
  BY l - m \in Nat
<1>2. (m + d) * n = m * n + d * n /\ d * n \in Nat /\ m * n \in Nat
  OBVIOUS
<1>. QED
  BY <1>1, <1>2

LEMMA WritesBounded ==
  BInv => Writes \in Nat /\ Writes <= TotalRuns * WarmUp
<1> SUFFICES ASSUME BInv
             PROVE  Writes \in Nat /\ Writes <= TotalRuns * WarmUp
  OBVIOUS
<1>1. /\ WarmUp \in Nat /\ TotalRuns \in Nat /\ run \in Nat /\ run - 1 \in Nat
      /\ run <= TotalRuns
      /\ Len(writtenKeys) \in Nat /\ Len(writtenKeys) <= WarmUp
      /\ phase = "over" => Len(writtenKeys) = 0
  BY BaselineAssumption DEF BInv, BenchTypes, Bounded
<1>2. /\ (run - 1) * WarmUp \in Nat /\ run * WarmUp \in Nat
      /\ (run - 1) * WarmUp + WarmUp = run * WarmUp
  <2>1. (run - 1) + 1 = run
    BY <1>1
  <2>. QED
    BY <1>1, <2>1, Product
<1>3. run * WarmUp <= TotalRuns * WarmUp /\ TotalRuns * WarmUp \in Nat
  BY <1>1, Product, ProductGrows
<1> DEFINE a == (run - 1) * WarmUp
           b == run * WarmUp
           t == TotalRuns * WarmUp
<1>4. Writes = (IF phase = "over" THEN b ELSE a) + Len(writtenKeys)
  BY DEF Writes
<1>. HIDE DEF a, b, t
<1>5. a \in Nat /\ b \in Nat /\ t \in Nat /\ a + WarmUp = b /\ b <= t
  BY <1>2, <1>3 DEF a, b, t
<1>6. Writes \in Nat /\ Writes <= t
  BY <1>1, <1>4, <1>5
<1>. QED
  BY <1>6 DEF t

\* The count as a call and as the turns and phases change it.
LEMMA CallCounted ==
  ASSUME EInv, IsFiniteSet(Indexed), idCounter - 1 = Cardinality(Indexed),
         NEW k \in Keys, NEW v, NEW id, Call(k, id, v), faults' = 0
  PROVE  /\ IsFiniteSet(Indexed') /\ idCounter' - 1 = Cardinality(Indexed')
         /\ idCounter' <= idCounter + 1
         /\ index[k] # NoId => idCounter' = idCounter
<1>1. idCounter \in Nat \ {0} /\ index \in [Keys -> Nat]
  BY DEF EInv, EmmTypes
<1>2. CASE index' = index /\ idCounter' = idCounter /\ index[k] # NoId
  BY <1>1, <1>2 DEF Indexed
<1>3. CASE /\ index' = [index EXCEPT ![k] = idCounter] /\ idCounter' = idCounter + 1
           /\ index[k] = NoId
  <2>1. Indexed' = Indexed \cup {k} /\ k \notin Indexed
    BY <1>1, <1>3 DEF Indexed, NoId
  <2>2. IsFiniteSet(Indexed') /\ Cardinality(Indexed') = Cardinality(Indexed) + 1
    BY <2>1, FS_AddElement
  <2>3. Cardinality(Indexed) \in Nat
    BY FS_CardinalityType
  <2>. QED
    BY <1>1, <1>3, <2>2, <2>3
<1>. QED
  BY <1>2, <1>3, FaultlessCall

LEMMA WritesGrow ==
  ASSUME BInv, Next
  PROVE  /\ Writes <= Writes'
         /\ \A k : WarmUpWrite /\ writtenKeys' = Append(writtenKeys, k) => Writes' = Writes + 1
<1> DEFINE a == (run - 1) * WarmUp
           b == run * WarmUp
<1>1. /\ WarmUp \in Nat /\ TotalRuns \in Nat /\ run \in Nat /\ run - 1 \in Nat
      /\ Len(writtenKeys) \in Nat /\ Len(writtenKeys) <= WarmUp /\ writtenKeys \in Seq(Keys)
  BY BaselineAssumption DEF BInv, BenchTypes, Bounded
<1>2. a \in Nat /\ b \in Nat /\ a + WarmUp = b
  <2>1. (run - 1) + 1 = run
    BY <1>1
  <2>. QED
    BY <1>1, <2>1, Product
<1>3. Writes = (IF phase = "over" THEN b ELSE a) + Len(writtenKeys)
  BY DEF Writes
<1>4. ASSUME NEW name, NEW turns, Turn(name, turns), name # "over"
      PROVE  Writes = a + Len(writtenKeys) /\ Writes' = a + Len(writtenKeys')
  BY <1>4 DEF Turn, Writes
<1>5. CASE WarmUpWrite
  <2>1. PICK k \in Keys : writtenKeys' = Append(writtenKeys, k)
    BY <1>5 DEF WarmUpWrite
  <2>2. \A l : Len(Append(writtenKeys, l)) = Len(writtenKeys) + 1
    BY <1>1
  <2>3. Writes = a + Len(writtenKeys) /\ Writes' = a + Len(writtenKeys')
    BY <1>4, <1>5 DEF WarmUpWrite
  <2>. HIDE DEF a, b
  <2>. QED
    BY <1>1, <1>2, <2>1, <2>2, <2>3
<1>6. CASE WarmUpRead \/ DeletePhase \/ VerifyPhase
  <2>1. Writes = a + Len(writtenKeys) /\ Writes' = a + Len(writtenKeys')
    BY <1>4, <1>6 DEF WarmUpRead, DeletePhase, VerifyPhase
  <2>2. writtenKeys' = writtenKeys
    BY <1>6 DEF WarmUpRead, DeletePhase, VerifyPhase
  <2>3. ~WarmUpWrite \/ \A k : writtenKeys' # Append(writtenKeys, k)
    BY <1>1, <2>2
  <2>. HIDE DEF a, b
  <2>. QED
    BY <1>1, <1>2, <2>1, <2>2, <2>3
<1>7. CASE NextPhase
  <2>1. phase # "over" /\ (phase \in {"warmup", "delete"} \/ phase = "verify")
    BY <1>7 DEF NextPhase
  <2>2. CASE phase \in {"warmup", "delete"}
    <3>1. phase' # "over" /\ run' = run /\ writtenKeys' = writtenKeys
      BY <1>7, <2>2 DEF NextPhase
    <3>2. Writes' = Writes
      BY <2>1, <3>1 DEF Writes
    <3>3. \A k : writtenKeys' # Append(writtenKeys, k)
      BY <1>1, <3>1
    <3>4. Writes \in Nat
      BY WritesBounded
    <3>. QED
      BY <3>2, <3>3, <3>4
  <2>3. CASE phase = "verify"
    <3>1. /\ writtenKeys' = <<>>
          /\ \/ phase' = "warmup" /\ run' = run + 1
             \/ phase' = "over" /\ run' = run
      BY <1>7, <2>3 DEF NextPhase
    <3>2. (run + 1) - 1 = run
      BY <1>1
    <3>3. Writes' = b + Len(writtenKeys')
      BY <3>1, <3>2 DEF Writes
    <3>4. Len(writtenKeys') = 0 /\ \A k : writtenKeys' # Append(writtenKeys, k)
      BY <1>1, <3>1
    <3>. HIDE DEF a, b
    <3>. QED
      BY <1>1, <1>2, <1>3, <2>1, <3>3, <3>4
  <2>. QED
    BY <2>1, <2>2, <2>3
<1>. QED
  BY <1>5, <1>6, <1>7 DEF Next

\* The keys remembered have an index after every step.
LEMMA RegisteredKept ==
  ASSUME BInv, Next, Registered,
         \A l \in Keys : index[l] # NoId => index'[l] # NoId,
         \A l \in Keys : WarmUpWrite /\ writtenKeys' = Append(writtenKeys, l) => index'[l] # NoId
  PROVE  Registered'
<1>1. Range(writtenKeys) \subseteq Keys /\ writtenKeys \in Seq(Keys)
  BY SomeKey DEF BInv, BenchTypes
<1>2. CASE WarmUpWrite
  <2>1. PICK l \in Keys : writtenKeys' = Append(writtenKeys, l)
    BY <1>2 DEF WarmUpWrite
  <2>2. Range(writtenKeys') = Range(writtenKeys) \cup {l}
    BY <1>1, <2>1, AppendProperties DEF Range
  <2>. QED
    BY <1>1, <1>2, <2>1, <2>2 DEF Registered
<1>3. CASE writtenKeys' = writtenKeys
  BY <1>1, <1>3 DEF Registered
<1>4. CASE writtenKeys' = <<>>
  BY <1>4 DEF Registered, Range
<1>. QED
  BY <1>2, <1>3, <1>4 DEF Next, WarmUpRead, DeletePhase, VerifyPhase, NextPhase

LEMMA FInvStarts == Init => FInv
<1> SUFFICES ASSUME Init
             PROVE  Registered /\ Mirrored /\ Counted
  BY BInvStarts DEF FInv
<1>1. Registered /\ Mirrored
  BY DEF Init, Registered, Mirrored, Latest, Range, NoId
<1>2. Indexed = {} /\ idCounter - 1 = 0
  BY DEF Init, Indexed
<1>3. Writes \in Nat
  BY BInvStarts, WritesBounded
<1>4. Counted
  BY <1>2, <1>3, FS_EmptySet DEF Counted
<1>. QED
  BY <1>1, <1>4

LEMMA FaultlessKept ==
  ASSUME FInv, Next, faults' = 0
  PROVE  Registered' /\ Mirrored' /\ Counted'
<1>1. BInv /\ EInv /\ plain \in [Keys -> Seq(Vals)] /\ Range(writtenKeys) \subseteq Keys
  BY SomeKey DEF FInv, BInv, BenchTypes
<1>2. idCounter \in Nat \ {0} /\ Writes \in Nat /\ Writes' \in Nat
  <2>1. BInv'
    BY <1>1, BInvKept
  <2>2. BInv' => (Writes \in Nat /\ Writes <= TotalRuns * WarmUp)'
    BY WritesBounded, PTL
  <2>3. Writes' \in Nat
    BY <2>1, <2>2
  <2>. QED
    BY <1>1, <2>3, WritesBounded DEF EInv, EmmTypes
<1>3. \A k \in Keys : \A v, id :
         Call(k, id, v) => /\ faults = 0 /\ id # NoId
                           /\ \A l \in Keys : index[l] # NoId => index'[l] # NoId
                           /\ index'[k] # NoId
  BY <1>1, FaultlessCall DEF EInv, EmmTypes
<1>4. ASSUME NEW k \in Keys, NEW v \in Vals, WarmUpWrite, MapWrite(k, v),
             writtenKeys' = Append(writtenKeys, k)
      PROVE  Registered' /\ Mirrored' /\ Counted'
  <2>1. PICK id : Call(k, id, v) /\ (id # NoId => Stored(k, id, v))
    BY <1>1, <1>4, PutCalls DEF MapWrite, EInv, BInv, BenchTypes
  <2>2. Stored(k, id, v) /\ Registered /\ Mirrored /\ Counted
    BY <1>3, <2>1 DEF FInv
  <2>3. Registered'
    <3>1. ASSUME NEW l \in Keys, writtenKeys' = Append(writtenKeys, l)
          PROVE  l = k
      <4>1. /\ writtenKeys \in Seq(Keys)
            /\ Append(writtenKeys, l) = Append(writtenKeys, k)
        BY <1>1, <1>4, <3>1 DEF BInv, BenchTypes
      <4>2. /\ Append(writtenKeys, l)[Len(writtenKeys) + 1] = l
            /\ Append(writtenKeys, k)[Len(writtenKeys) + 1] = k
        BY <4>1, AppendProperties
      <4>. QED
        BY <4>1, <4>2
    <3>. QED
      BY <1>1, <1>3, <1>4, <2>1, <2>2, <3>1, RegisteredKept
  <2>4. Mirrored'
    <3> DEFINE s == Append(plain[k], v)
    <3>1. s # <<>> /\ Last(s) = v
      BY <1>1, AppendProperties DEF Last
    <3>2. plain' = [plain EXCEPT ![k] = s] /\ v = Latest(s) /\ v \in Vals \cup {NoVal}
      BY <1>4, <3>1 DEF MapWrite, Latest
    <3>. HIDE DEF s
    <3>. QED
      BY <1>1, <2>1, <2>2, <3>2, WriteMirrored
  <2>5. Counted'
    <3>1. /\ IsFiniteSet(Indexed') /\ idCounter' - 1 = Cardinality(Indexed')
          /\ idCounter' <= idCounter + 1 /\ idCounter' \in Nat
      <4>1. idCounter' \in Nat
        BY <1>1, <2>1, CallKeeps DEF EInv, EmmTypes
      <4>. QED
        BY <1>1, <2>1, <2>2, <4>1, CallCounted DEF Counted
    <3>2. Writes' = Writes + 1
      BY <1>1, <1>4, WritesGrow
    <3>3. idCounter - 1 <= Writes
      BY <2>2 DEF Counted
    <3>4. idCounter' - 1 <= Writes + 1
      BY <1>2, <3>1, <3>3, OneMore
    <3>5. idCounter' - 1 <= Writes'
      BY <3>2, <3>4, Zenon
    <3>. QED
      BY <3>1, <3>5 DEF Counted
  <2>. QED
    BY <2>3, <2>4, <2>5
<1>5. ASSUME Registered /\ Mirrored /\ Counted,
             NEW k \in Range(writtenKeys), NEW v \in Vals \cup {NoVal}, NEW id, Call(k, id, v),
             UNCHANGED writtenKeys
      PROVE  Registered' /\ Counted'
  <2>1. k \in Keys /\ index[k] # NoId
    BY <1>1, <1>5 DEF Registered
  <2>2. Registered'
    BY <1>1, <1>3, <1>5, <2>1 DEF Registered
  <2>3. /\ IsFiniteSet(Indexed') /\ idCounter' - 1 = Cardinality(Indexed')
        /\ idCounter' = idCounter
    BY <1>1, <1>5, <2>1, CallCounted DEF Counted
  <2>4. Writes <= Writes'
    BY <1>1, WritesGrow
  <2>. QED
    BY <1>2, <1>5, <2>2, <2>3, <2>4 DEF Counted
<1>6. ASSUME NEW k \in Range(writtenKeys), MapRead(k), UNCHANGED writtenKeys
      PROVE  Registered' /\ Mirrored' /\ Counted'
  <2>1. k \in Keys
    BY <1>1
  <2>2. PICK id : Call(k, id, NoVal) /\ UNCHANGED <<store, content, put>>
    BY <1>1, <1>6, <2>1, GetCalls DEF MapRead, EInv
  <2>3. Registered /\ Mirrored /\ Counted
    BY <1>3, <2>1, <2>2 DEF FInv
  <2>4. Mirrored'
    BY <1>1, <1>6, <2>1, <2>2, <2>3, ReadMirrored DEF MapRead
  <2>. QED
    BY <1>5, <1>6, <2>2, <2>3, <2>4
<1>7. ASSUME NEW k \in Range(writtenKeys), MapDelete(k), UNCHANGED writtenKeys
      PROVE  Registered' /\ Mirrored' /\ Counted'
  <2>1. k \in Keys
    BY <1>1
  <2>2. PICK id : Call(k, id, NoVal) /\ (id # NoId => Stored(k, id, NoVal))
    BY <1>1, <1>7, <2>1, DeleteCalls DEF MapDelete, EInv
  <2>3. Stored(k, id, NoVal) /\ Registered /\ Mirrored /\ Counted
    BY <1>3, <2>1, <2>2 DEF FInv
  <2>4. Mirrored'
    <3>1. plain' = [plain EXCEPT ![k] = <<>>] /\ NoVal = Latest(<<>>)
      BY <1>7 DEF MapDelete, Latest
    <3>. QED
      BY <1>1, <2>1, <2>2, <2>3, <3>1, WriteMirrored
  <2>. QED
    BY <1>5, <1>7, <2>2, <2>3, <2>4
<1>8. ASSUME UNCHANGED <<emm, plain>>
      PROVE  Registered' /\ Mirrored' /\ Counted'
  <2>1. Registered /\ Mirrored /\ Counted
    BY <1>8 DEF FInv, emm
  <2>2. Mirrored'
    BY <1>8, <2>1 DEF Mirrored, Latest, emm, store
  <2>3. Registered'
    <3>1. ~WarmUpWrite
      BY <1>1, <1>2, <1>8 DEF WarmUpWrite, MapWrite
    <3>. QED
      BY <1>1, <1>8, <2>1, <3>1, RegisteredKept DEF emm
  <2>4. Counted'
    <3>1. Writes <= Writes'
      BY <1>1, WritesGrow
    <3>2. Indexed' = Indexed /\ idCounter' = idCounter
      BY <1>8 DEF Indexed, emm
    <3>. QED
      BY <1>2, <2>1, <3>1, <3>2 DEF Counted
  <2>. QED
    BY <2>2, <2>3, <2>4
<1>. QED
  BY <1>1, <1>4, <1>6, <1>7, <1>8, StepCalls

LEMMA FInvKept == FInv /\ [Next]_vars => FInv'
<1> SUFFICES ASSUME FInv, [Next]_vars
             PROVE  FInv'
  OBVIOUS
<1>1. BInv'
  BY BInvKept DEF FInv
<1>2. CASE Next
  BY <1>1, <1>2, FaultlessKept DEF FInv
<1>3. CASE UNCHANGED vars
  BY <1>1, <1>3 DEF FInv, Registered, Mirrored, Latest, Counted, Indexed, Writes,
                    vars, emm, bench, store
<1>. QED
  BY <1>2, <1>3

LEMMA FInvAlways == Spec => []FInv
BY FInvStarts, FInvKept, PTL DEF Spec

\* As long as no HIRB call fails a key takes one block, at its first write:
\* the counter of EMM_insecure_client.go never runs ahead of the writes.
THEOREM OneBlockPerKey == Spec => []BlocksSuffice
<1>1. FInv => BlocksSuffice
  BY DEF FInv, Counted, Indexed, BlocksSuffice
<1>. QED
  BY <1>1, FInvAlways, PTL

\* The store has a block for every write of the benchmark, as the 64 blocks of
\* the code are for its 7 runs of 9 calls, or one for every key.
EnoughBlocks ==
    \/ TotalRuns * WarmUp < NumBlocks
    \/ IsFiniteSet(Keys) /\ Cardinality(Keys) < NumBlocks

LEMMA InTheStore ==
  ASSUME EnoughBlocks, FInv, faults = 0, NEW k \in Keys
  PROVE  index[k] \in Blocks
<1>1. /\ idCounter \in Nat /\ index[k] \in Nat /\ index[k] < idCounter
      /\ NumBlocks \in Nat
      /\ idCounter - 1 <= Writes /\ idCounter - 1 = Cardinality(Indexed)
  BY OramBlockAssumption DEF FInv, BInv, EInv, EmmTypes, Numbered, Counted
<1>2. ASSUME TotalRuns * WarmUp < NumBlocks
      PROVE  idCounter - 1 < NumBlocks
  <2>1. PICK t \in Nat : t = TotalRuns * WarmUp
    BY Product, BaselineAssumption
  <2>2. Writes \in Nat /\ Writes <= t
    BY <2>1, WritesBounded DEF FInv
  <2>. QED
    BY <1>1, <1>2, <2>1, <2>2
<1>3. ASSUME IsFiniteSet(Keys), Cardinality(Keys) < NumBlocks
      PROVE  idCounter - 1 < NumBlocks
  <2>1. Indexed \in SUBSET Keys
    BY DEF Indexed
  <2>2. Cardinality(Indexed) <= Cardinality(Keys) /\ Cardinality(Keys) \in Nat
    BY <1>3, <2>1, FS_Subset, FS_CardinalityType
  <2>. QED
    BY <1>1, <1>3, <2>2
<1>4. index[k] \in 0 .. NumBlocks - 1
  <2>1. idCounter - 1 < NumBlocks
    BY <1>2, <1>3 DEF EnoughBlocks
  <2>. QED
    BY <1>1, <2>1
<1>. QED
  BY <1>4 DEF Blocks

\* With enough blocks, and as long as no HIRB call fails, a key reads back as
\* the last value the plaintext map has for it, unless the byte handling of
\* libs/oram damages its ciphertext: then it reads as nothing.
THEOREM BothMapsAgree ==
  ASSUME EnoughBlocks
  PROVE  Spec => []AgreesWithPlaintext
<1>1. FInv => AgreesWithPlaintext
  <2> SUFFICES ASSUME FInv, faults = 0, NEW k \in Keys
               PROVE  \/ Answer(k) = Latest(plain[k])
                      \/ /\ index[k] \in Blocks /\ ~Safe(last[index[k]])
                         /\ Answer(k) = NoVal
    BY DEF AgreesWithPlaintext, Latest
  <2>1. index[k] \in Blocks
    BY InTheStore
  <2>2. /\ put[k] = Latest(plain[k])
        /\ index[k] = NoId => put[k] = NoVal
        /\ index[k] # NoId => /\ content[index[k]] = put[k]
                              /\ last[index[k]] = <<>> => put[k] = NoVal
    BY <2>1 DEF FInv, Mirrored
  <2>3. Safe(last[index[k]]) => Cut(OramGet(index[k])) = last[index[k]]
    <3>1. /\ storage[index[k]] \in [1 .. BlockBytes -> Bytes]
          /\ last[index[k]] \in Values \cup {<<>>}
      BY <2>1 DEF FInv, BInv, EInv, StoreInv, StoreTypeOK
    <3>2. Laid(last[index[k]], storage[index[k]]) /\ OramGet(index[k]) = storage[index[k]]
      BY <2>1, OramBlockAssumption DEF FInv, BInv, EInv, StoreInv, OramGet, Blocks
    <3>. QED
      BY <3>1, <3>2, ReadsWhatLies
  <2>. QED
    BY <2>1, <2>2, <2>3 DEF Answer
<1>. QED
  BY <1>1, FInvAlways, PTL
=============================================================================
