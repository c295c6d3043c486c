---------------------------- MODULE ProxyProofs ----------------------------
(***************************************************************************)
(* What TLAPS proves of the caching proxy mains/proxy.go, for any number   *)
(* of batches, keys and dummies, every size of the cache and of a batch,   *)
(* whichever calls of etcd fail.                                           *)
(***************************************************************************)
EXTENDS Proxy, SequenceTheorems, FiniteSetTheorems, TLAPS

\* Induction along the loops of the code.
NextLoopOf(m, i) == NextLoop(m)
Rises   == INSTANCE FoldSteps WITH Op <- RiseOne
Sinks   == INSTANCE FoldSteps WITH Op <- SinkOne
Loops   == INSTANCE FoldSteps WITH Op <- NextLoopOf
Answers == INSTANCE FoldSteps WITH Op <- Answer
Scheduling(h, k) == Insert(h, 0, k)
Dummied == INSTANCE FoldSteps WITH Op <- Scheduling

-----------------------------------------------------------------------------
\* The heaps.
Entries == Nat \X Keys

\* Position i is below i \div 2, and i \div 2 is above 2 * (i \div 2) and its successor.
LEMMA Halves ==
  \A i \in Nat : i \div 2 \in Nat /\ 2 * (i \div 2) <= i /\ i <= 2 * (i \div 2) + 1
OBVIOUS

\* Two entries change places.
LEMMA SwapFacts ==
  ASSUME NEW S, NEW h \in Seq(S), NEW i \in 1 .. Len(h), NEW j \in 1 .. Len(h)
  PROVE  /\ Swap(h, i, j) \in Seq(S) /\ Len(Swap(h, i, j)) = Len(h)
         /\ Swap(h, i, j)[i] = h[j] /\ Swap(h, i, j)[j] = h[i]
         /\ \A n \in 1 .. Len(h) : n # i /\ n # j => Swap(h, i, j)[n] = h[n]
         /\ ToSet(Swap(h, i, j)) = ToSet(h)
<1> DEFINE m == Swap(h, i, j)
<1>1. m \in Seq(S) /\ Len(m) = Len(h)
  BY DEF Swap
<1>2. m[i] = h[j] /\ m[j] = h[i] /\ \A n \in 1 .. Len(h) : n # i /\ n # j => m[n] = h[n]
  BY DEF Swap
<1> HIDE DEF m
<1>3. ToSet(m) = ToSet(h)
  <2>1. DOMAIN m = 1 .. Len(h) /\ DOMAIN h = 1 .. Len(h)
    BY <1>1
  <2>2. \A n \in 1 .. Len(h) : \E l \in 1 .. Len(h) : m[n] = h[l]
    BY <1>2
  <2>3. \A n \in 1 .. Len(h) : \E l \in 1 .. Len(h) : h[n] = m[l]
    BY <1>2
  <2>4. ToSet(m) = {m[n] : n \in 1 .. Len(h)} /\ ToSet(h) = {h[n] : n \in 1 .. Len(h)}
    BY <2>1 DEF ToSet
  <2>5. \A x \in ToSet(m) : x \in ToSet(h)
    BY <2>2, <2>4
  <2>6. \A x \in ToSet(h) : x \in ToSet(m)
    BY <2>3, <2>4
  <2>. QED
    BY <2>5, <2>6
<1>. QED
  BY <1>1, <1>2, <1>3 DEF m

\* All entries are in heap order, but perhaps the one at position at with its
\* parent; those below it are in order with that parent.
Rising(h, at) ==
    /\ h \in Seq(Entries) /\ at \in 1 .. Len(h)
    /\ \A i \in 2 .. Len(h) : i # at => Stamp(h, i \div 2) <= Stamp(h, i)
    /\ \A i \in 2 .. Len(h) : i \div 2 = at /\ at > 1 => Stamp(h, at \div 2) <= Stamp(h, i)
Risen(h, at) == at > 1 => Stamp(h, at \div 2) <= Stamp(h, at)

\* A turn of heapifyUp.
LEMMA RiseKeeps ==
  ASSUME NEW s, Rising(s.heap, s.at), s = Placed(s.heap, s.at), NEW n, NEW t, t = RiseOne(s, n)
  PROVE  /\ Rising(t.heap, t.at) /\ t = Placed(t.heap, t.at)
         /\ Len(t.heap) = Len(s.heap) /\ ToSet(t.heap) = ToSet(s.heap)
         /\ Risen(s.heap, s.at) => t = s
         /\ ~Risen(s.heap, s.at) => t.at < s.at
<1> DEFINE h == s.heap  at == s.at  up == at \div 2
<1>1. h \in Seq(Entries) /\ at \in 1 .. Len(h) /\ Len(h) \in Nat /\ \A i \in 1 .. Len(h) : Stamp(h, i) \in Nat
  BY DEF Rising, Stamp, Entries
<1>2. CASE Risen(h, at)
  <2>1. at > 1 => up \in 1 .. Len(h)
    BY <1>1, Halves
  <2>2. ~(at > 1 /\ Stamp(h, at) < Stamp(h, up))
    BY <1>1, <1>2, <2>1 DEF Risen
  <2>. QED
    BY <1>2, <2>2 DEF RiseOne
<1>3. CASE ~Risen(h, at)
  <2>1. at > 1 /\ up \in 1 .. Len(h) /\ up < at
    BY <1>1, <1>3, Halves DEF Risen
  <2>2. Stamp(h, at) < Stamp(h, up)
    BY <1>1, <1>3, <2>1 DEF Risen
  <2>3. t = Placed(Swap(h, at, up), up)
    BY <2>1, <2>2 DEF RiseOne
  <2> DEFINE g == Swap(h, at, up)
  <2>4. t.heap = g /\ t.at = up
    BY <2>3 DEF Placed
  <2> HIDE DEF up, h, at
  <2>5. /\ g \in Seq(Entries) /\ Len(g) = Len(h) /\ g[at] = h[up] /\ g[up] = h[at]
        /\ \A i \in 1 .. Len(h) : i # at /\ i # up => g[i] = h[i]
        /\ ToSet(g) = ToSet(h)
    BY <1>1, <2>1, SwapFacts
  <2> HIDE DEF g
  <2>6. ASSUME NEW i \in 2 .. Len(g), i # up PROVE Stamp(g, i \div 2) <= Stamp(g, i)
    <3>1. i \in 1 .. Len(h) /\ i \div 2 \in 1 .. Len(h) /\ i \div 2 < i
      BY <1>1, <2>5, Halves
    <3>2. CASE i = at
      BY <2>2, <2>5, <3>2, <1>1, <2>1 DEF Stamp, up
    <3>3. CASE i # at /\ i \div 2 = at
      <4>1. g[i] = h[i] /\ Stamp(h, up) <= Stamp(h, i)
        BY <2>1, <2>5, <2>6, <3>1, <3>3 DEF Rising, up, h, at
      <4>. QED
        BY <4>1, <2>5, <3>3 DEF Stamp
    <3>4. CASE i # at /\ i \div 2 = up
      <4>1. g[i] = h[i] /\ Stamp(h, up) <= Stamp(h, i)
        BY <2>5, <2>6, <3>1, <3>4 DEF Rising, h, at
      <4>. QED
        BY <1>1, <2>1, <2>2, <4>1, <2>5, <3>1, <3>4, SMTT(30) DEF Stamp
    <3>5. CASE i # at /\ i \div 2 # at /\ i \div 2 # up
      <4>1. g[i] = h[i] /\ g[i \div 2] = h[i \div 2] /\ Stamp(h, i \div 2) <= Stamp(h, i)
        BY <2>5, <2>6, <3>1, <3>5 DEF Rising, h, at
      <4>. QED
        BY <4>1 DEF Stamp
    <3>. QED
      BY <3>2, <3>3, <3>4, <3>5
  <2>7. ASSUME NEW i \in 2 .. Len(g), i \div 2 = up, up > 1 PROVE Stamp(g, up \div 2) <= Stamp(g, i)
    <3>1. i \in 1 .. Len(h) /\ up \div 2 \in 1 .. Len(h) /\ up \div 2 < up
      BY <1>1, <2>1, <2>5, <2>7, Halves
    <3>2. Stamp(h, up \div 2) <= Stamp(h, up) /\ g[up \div 2] = h[up \div 2]
      BY <1>1, <2>1, <2>5, <2>7, <3>1 DEF Rising, h, at
    <3>3. CASE i = at
      BY <2>5, <3>2, <3>3 DEF Stamp
    <3>4. CASE i # at
      <4>1. i # up
        BY <2>7, <3>1
      <4>2. g[i] = h[i] /\ Stamp(h, up) <= Stamp(h, i)
        BY <2>5, <2>7, <3>1, <3>4, <4>1 DEF Rising, h, at
      <4>3. Stamp(h, up \div 2) \in Nat /\ Stamp(h, up) \in Nat /\ Stamp(h, i) \in Nat
        BY <1>1, <2>1, <3>1
      <4>4. Stamp(h, up \div 2) <= Stamp(h, i)
        BY <3>2, <4>2, <4>3
      <4>. QED
        BY <3>2, <4>2, <4>4 DEF Stamp
    <3>. QED
      BY <3>3, <3>4
  <2>8. Rising(g, up)
    BY <2>1, <2>5, <2>6, <2>7 DEF Rising
  <2>. QED
    BY <1>3, <2>1, <2>3, <2>4, <2>5, <2>8 DEF Placed, h, at, g, up
<1>. QED
  BY <1>2, <1>3

\* heapifyUp.
LEMMA HeapifyUpOrders ==
  ASSUME NEW h, NEW i, Rising(h, i)
  PROVE  /\ HeapifyUp(h, i) \in Seq(Entries) /\ IsHeap(HeapifyUp(h, i))
         /\ Len(HeapifyUp(h, i)) = Len(h) /\ ToSet(HeapifyUp(h, i)) = ToSet(h)
<1> DEFINE L == Len(h)
           start == Placed(h, i)
           Kept(s, n) ==
               /\ Rising(s.heap, s.at) /\ s = Placed(s.heap, s.at)
               /\ Len(s.heap) = L /\ ToSet(s.heap) = ToSet(h)
               /\ Risen(s.heap, s.at) \/ s.at <= L - n
           Ok == [n \in 0 .. L |-> {s \in [heap : Seq(Entries), at : 1 .. L] : Kept(s, n)}]
<1>1. h \in Seq(Entries) /\ L \in Nat /\ DOMAIN h = 1 .. L /\ i \in 1 .. L
  BY DEF Rising
<1>2. start \in Ok[0]
  BY <1>1 DEF Placed
<1>3. ASSUME NEW n \in 1 .. L, NEW s \in Ok[n - 1] PROVE RiseOne(s, h[n]) \in Ok[n]
  <2> DEFINE t == RiseOne(s, h[n])
  <2>1. s \in [heap : Seq(Entries), at : 1 .. L] /\ Kept(s, n - 1)
    BY <1>1, <1>3
  <2>2. /\ Rising(t.heap, t.at) /\ t = Placed(t.heap, t.at)
        /\ Len(t.heap) = Len(s.heap) /\ ToSet(t.heap) = ToSet(s.heap)
        /\ Risen(s.heap, s.at) => t = s
        /\ ~Risen(s.heap, s.at) => t.at < s.at
    BY <2>1, RiseKeeps
  <2> HIDE DEF t
  <2>3. t \in [heap : Seq(Entries), at : 1 .. L] /\ s.at \in Nat /\ t.at \in Nat
    <3>1. t.heap \in Seq(Entries) /\ t.at \in 1 .. L
      BY <2>1, <2>2 DEF Rising
    <3>. QED
      BY <2>1, <2>2, <3>1 DEF Placed
  <2>4. Kept(t, n)
    BY <1>1, <1>3, <2>1, <2>2, <2>3
  <2>. QED
    BY <1>1, <2>3, <2>4 DEF t
<1>4. Rises!Fold(start, h) \in Ok[L]
  <2> HIDE DEF Ok, start, L
  <2>. QED
    BY <1>1, <1>2, <1>3, Rises!FoldStays
<1>5. HeapifyUp(h, i) = Rises!Fold(start, h).heap
  BY DEF HeapifyUp, Rises!Fold, FoldLeft, Rises!MapThenFoldSet, MapThenFoldSet, Max, Rises!Latest
<1> DEFINE e == Rises!Fold(start, h)
<1>6. e \in [heap : Seq(Entries), at : 1 .. L] /\ Kept(e, L)
  BY <1>1, <1>4
<1> HIDE DEF e
<1>7. Risen(e.heap, e.at)
  BY <1>1, <1>6
<1>8. IsHeap(e.heap)
  BY <1>6, <1>7 DEF IsHeap, Rising, Risen
<1>. QED
  BY <1>5, <1>6, <1>8 DEF e

\* All entries are in heap order, but perhaps those below the one at position at
\* with it; they are in order with its parent.
Sinking(h, at) ==
    /\ h \in Seq(Entries) /\ at \in 1 .. Len(h)
    /\ \A i \in 2 .. Len(h) : i \div 2 # at => Stamp(h, i \div 2) <= Stamp(h, i)
    /\ \A i \in 2 .. Len(h) : i \div 2 = at /\ at > 1 => Stamp(h, at \div 2) <= Stamp(h, i)
Sunk(h, at) == \A i \in 2 .. Len(h) : i \div 2 = at => Stamp(h, at) <= Stamp(h, i)

\* The children of a position are twice it and the one after that.
LEMMA Children ==
  \A i, j \in Nat : i >= 1 => (i \div 2 = j <=> i = 2 * j \/ i = 2 * j + 1)
OBVIOUS

\* The smallest of an entry and those below it.
LEMMA SmallestFacts ==
  ASSUME NEW h \in Seq(Entries), NEW at \in 1 .. Len(h)
  PROVE  /\ Smallest(h, at) \in 1 .. Len(h)
         /\ Smallest(h, at) # at => /\ Smallest(h, at) > at /\ Smallest(h, at) \div 2 = at
                                    /\ Stamp(h, Smallest(h, at)) <= Stamp(h, at)
         /\ \A i \in 2 .. Len(h) : i \div 2 = at => Stamp(h, Smallest(h, at)) <= Stamp(h, i)
<1> DEFINE OfTwo(j, k) == IF k <= Len(h) /\ Stamp(h, k) < Stamp(h, j) THEN k ELSE j
           left == OfTwo(at, 2 * at)
           least == OfTwo(left, 2 * at + 1)
<1>1. Len(h) \in Nat /\ at \in Nat /\ at >= 1 /\ \A i \in 1 .. Len(h) : Stamp(h, i) \in Nat
  BY DEF Stamp, Entries
<1>2. Smallest(h, at) = least
  BY DEF Smallest
<1>3. /\ left \in 1 .. Len(h) /\ (left = at \/ left = 2 * at)
      /\ Stamp(h, left) <= Stamp(h, at)
      /\ 2 * at <= Len(h) => Stamp(h, left) <= Stamp(h, 2 * at)
  BY <1>1
<1> HIDE DEF left
<1>4. /\ least \in 1 .. Len(h) /\ (least = left \/ least = 2 * at + 1)
      /\ Stamp(h, least) <= Stamp(h, left)
      /\ 2 * at + 1 <= Len(h) => Stamp(h, least) <= Stamp(h, 2 * at + 1)
  BY <1>1, <1>3
<1> HIDE DEF least, OfTwo
<1>5. Stamp(h, least) \in Nat /\ Stamp(h, left) \in Nat /\ Stamp(h, at) \in Nat
  BY <1>1, <1>3, <1>4
<1>6. Stamp(h, least) <= Stamp(h, at)
  BY <1>3, <1>4, <1>5
<1>7. least = at \/ least = 2 * at \/ least = 2 * at + 1
  BY <1>3, <1>4
<1>8. least # at => least > at /\ least \div 2 = at
  BY <1>1, <1>7, Children, SMTT(30)
<1>9. ASSUME NEW i \in 2 .. Len(h), i \div 2 = at PROVE Stamp(h, least) <= Stamp(h, i)
  <2>1. i = 2 * at \/ i = 2 * at + 1
    BY <1>1, <1>9, Children
  <2>2. i \in 1 .. Len(h) /\ Stamp(h, i) \in Nat
    BY <1>1
  <2>3. CASE i = 2 * at
    BY <1>3, <1>4, <1>5, <2>2, <2>3
  <2>4. CASE i = 2 * at + 1
    BY <1>4, <2>2, <2>4, <1>1
  <2>. QED
    BY <2>1, <2>3, <2>4
<1>. QED
  BY <1>2, <1>4, <1>6, <1>8, <1>9

\* A turn of heapifyDown.
LEMMA SinkKeeps ==
  ASSUME NEW s, Sinking(s.heap, s.at), s = Placed(s.heap, s.at), NEW n, NEW t, t = SinkOne(s, n)
  PROVE  /\ Sinking(t.heap, t.at) /\ t = Placed(t.heap, t.at)
         /\ Len(t.heap) = Len(s.heap) /\ ToSet(t.heap) = ToSet(s.heap)
         /\ t = s => Sunk(s.heap, s.at)
         /\ t # s => t.at > s.at
<1> DEFINE h == s.heap  at == s.at  down == Smallest(h, at)
<1>1. h \in Seq(Entries) /\ at \in 1 .. Len(h) /\ Len(h) \in Nat /\ \A i \in 1 .. Len(h) : Stamp(h, i) \in Nat
  BY DEF Sinking, Stamp, Entries
<1> HIDE DEF h, at
<1>2. /\ down \in 1 .. Len(h)
      /\ down # at => down > at /\ down \div 2 = at /\ Stamp(h, down) <= Stamp(h, at)
      /\ \A i \in 2 .. Len(h) : i \div 2 = at => Stamp(h, down) <= Stamp(h, i)
  BY <1>1, SmallestFacts
<1> HIDE DEF down
<1>3. CASE down = at
  <2>1. t = s
    BY <1>3 DEF SinkOne, down, h, at
  <2>2. Sunk(h, at)
    BY <1>2, <1>3 DEF Sunk
  <2>. QED
    BY <2>1, <2>2 DEF h, at
<1>4. CASE down # at
  <2>1. t = Placed(Swap(h, at, down), down)
    BY <1>4 DEF SinkOne, down, h, at
  <2> DEFINE g == Swap(h, at, down)
  <2>2. t.heap = g /\ t.at = down
    BY <2>1 DEF Placed
  <2>3. /\ g \in Seq(Entries) /\ Len(g) = Len(h) /\ g[at] = h[down] /\ g[down] = h[at]
        /\ \A i \in 1 .. Len(h) : i # at /\ i # down => g[i] = h[i]
        /\ ToSet(g) = ToSet(h)
    BY <1>1, <1>2, SwapFacts
  <2> HIDE DEF g
  <2>4. \A i \in 1 .. Len(g) : Stamp(g, i) \in Nat
    BY <2>3 DEF Stamp, Entries
  <2>5. ASSUME NEW i \in 2 .. Len(g), i \div 2 # down PROVE Stamp(g, i \div 2) <= Stamp(g, i)
    <3>1. i \in 1 .. Len(h) /\ i \div 2 \in 1 .. Len(h) /\ i \div 2 < i /\ i \in 2 .. Len(h)
      BY <1>1, <2>3, Halves
    <3>2. CASE i = down
      BY <1>2, <1>4, <2>3, <3>2 DEF Stamp
    <3>3. CASE i # down /\ i \div 2 = at
      <4>1. g[i] = h[i] /\ g[i \div 2] = h[down] /\ Stamp(h, down) <= Stamp(h, i)
        BY <1>2, <2>3, <3>1, <3>3
      <4>. QED
        BY <4>1 DEF Stamp
    <3>4. CASE i = at
      <4>1. at > 1 /\ down \in 2 .. Len(h) /\ down \div 2 = at
        BY <1>1, <1>2, <1>4, <3>1, <3>4
      <4>2. Stamp(h, at \div 2) <= Stamp(h, down)
        BY <4>1 DEF Sinking, h, at
      <4>3. at \div 2 # at /\ at \div 2 # down
        BY <1>2, <1>4, <3>1, <3>4
      <4>4. g[at \div 2] = h[at \div 2]
        BY <2>3, <3>1, <3>4, <4>3
      <4>. QED
        BY <2>3, <3>4, <4>2, <4>4 DEF Stamp
    <3>5. CASE i # down /\ i # at /\ i \div 2 # at
      <4>1. g[i] = h[i] /\ g[i \div 2] = h[i \div 2]
        BY <2>3, <2>5, <3>1, <3>5
      <4>2. Stamp(h, i \div 2) <= Stamp(h, i)
        BY <3>1, <3>5 DEF Sinking, h, at
      <4>. QED
        BY <4>1, <4>2 DEF Stamp
    <3>. QED
      BY <3>2, <3>3, <3>4, <3>5
  <2>6. ASSUME NEW i \in 2 .. Len(g), i \div 2 = down PROVE Stamp(g, down \div 2) <= Stamp(g, i)
    <3>1. i \in 1 .. Len(h) /\ i \in 2 .. Len(h) /\ i > down /\ i # at /\ down # at /\ down \div 2 = at /\ down > at
      BY <1>1, <1>2, <1>4, <2>3, <2>6, Halves
    <3>2. g[i] = h[i] /\ g[at] = h[down]
      BY <2>3, <3>1
    <3>3. Stamp(h, down) <= Stamp(h, i)
      BY <2>6, <3>1 DEF Sinking, h, at
    <3>. QED
      BY <3>1, <3>2, <3>3 DEF Stamp
  <2>7. Sinking(g, down)
    BY <1>2, <2>3, <2>5, <2>6 DEF Sinking
  <2>8. down > at
    BY <1>2, <1>4
  <2>9. t # s
    BY <1>1, <1>2, <2>2, <2>8 DEF at
  <2>. QED
    BY <2>1, <2>2, <2>3, <2>7, <2>8, <2>9 DEF Placed, h, at, g
<1>. QED
  BY <1>3, <1>4

\* Once in its place the entry stays there.
LEMMA SunkStays ==
  ASSUME NEW s, Sinking(s.heap, s.at), Sunk(s.heap, s.at), NEW n
  PROVE  SinkOne(s, n) = s
<1> DEFINE h == s.heap  at == s.at
<1>1. h \in Seq(Entries) /\ at \in 1 .. Len(h) /\ Len(h) \in Nat /\ \A i \in 1 .. Len(h) : Stamp(h, i) \in Nat
  BY DEF Sinking, Stamp, Entries
<1>2. Sunk(h, at)
  OBVIOUS
<1> HIDE DEF h, at
<1>3. ~(2 * at <= Len(h) /\ Stamp(h, 2 * at) < Stamp(h, at))
  <2>1. SUFFICES ASSUME 2 * at <= Len(h) PROVE Stamp(h, at) <= Stamp(h, 2 * at)
    BY <1>1
  <2>2. 2 * at \in 2 .. Len(h) /\ (2 * at) \div 2 = at
    BY <1>1, <2>1
  <2>. QED
    BY <1>2, <2>2 DEF Sunk
<1>4. ~(2 * at + 1 <= Len(h) /\ Stamp(h, 2 * at + 1) < Stamp(h, at))
  <2>1. SUFFICES ASSUME 2 * at + 1 <= Len(h) PROVE Stamp(h, at) <= Stamp(h, 2 * at + 1)
    BY <1>1
  <2>2. 2 * at + 1 \in 2 .. Len(h) /\ (2 * at + 1) \div 2 = at
    BY <1>1, <2>1, Children
  <2>. QED
    BY <1>2, <2>2 DEF Sunk
<1>5. Smallest(h, at) = at
  BY <1>3, <1>4 DEF Smallest
<1>. QED
  BY <1>5 DEF SinkOne, h, at

\* heapifyDown.
LEMMA HeapifyDownOrders ==
  ASSUME NEW h, NEW i, Sinking(h, i)
  PROVE  /\ HeapifyDown(h, i) \in Seq(Entries) /\ IsHeap(HeapifyDown(h, i))
         /\ Len(HeapifyDown(h, i)) = Len(h) /\ ToSet(HeapifyDown(h, i)) = ToSet(h)
<1> DEFINE L == Len(h)
           start == Placed(h, i)
           Kept(s, n) ==
               /\ Sinking(s.heap, s.at) /\ s = Placed(s.heap, s.at)
               /\ Len(s.heap) = L /\ ToSet(s.heap) = ToSet(h)
               /\ Sunk(s.heap, s.at) \/ s.at > n
           Ok == [n \in 0 .. L |-> {s \in [heap : Seq(Entries), at : 1 .. L] : Kept(s, n)}]
<1>1. h \in Seq(Entries) /\ L \in Nat /\ DOMAIN h = 1 .. L /\ i \in 1 .. L
  BY DEF Sinking
<1>2. start \in Ok[0]
  BY <1>1 DEF Placed
<1>3. ASSUME NEW n \in 1 .. L, NEW s \in Ok[n - 1] PROVE SinkOne(s, h[n]) \in Ok[n]
  <2> DEFINE t == SinkOne(s, h[n])
  <2>1. s \in [heap : Seq(Entries), at : 1 .. L] /\ Kept(s, n - 1)
    BY <1>1, <1>3
  <2>2. /\ Sinking(t.heap, t.at) /\ t = Placed(t.heap, t.at)
        /\ Len(t.heap) = Len(s.heap) /\ ToSet(t.heap) = ToSet(s.heap)
        /\ t = s => Sunk(s.heap, s.at)
        /\ t # s => t.at > s.at
    BY <2>1, SinkKeeps
  <2>3. Sunk(s.heap, s.at) => t = s
    BY <2>1, SunkStays
  <2> HIDE DEF t
  <2>4. t \in [heap : Seq(Entries), at : 1 .. L] /\ s.at \in Nat /\ t.at \in Nat
    <3>1. t.heap \in Seq(Entries) /\ t.at \in 1 .. L
      BY <2>1, <2>2 DEF Sinking
    <3>. QED
      BY <2>1, <2>2, <3>1 DEF Placed
  <2>5. Kept(t, n)
    BY <1>1, <1>3, <2>1, <2>2, <2>3, <2>4
  <2>. QED
    BY <1>1, <2>4, <2>5 DEF t
<1>4. Sinks!Fold(start, h) \in Ok[L]
  <2> HIDE DEF Ok, start, L
  <2>. QED
    BY <1>1, <1>2, <1>3, Sinks!FoldStays
<1>5. HeapifyDown(h, i) = Sinks!Fold(start, h).heap
  BY DEF HeapifyDown, Sinks!Fold, FoldLeft, Sinks!MapThenFoldSet, MapThenFoldSet, Max, Sinks!Latest
<1> DEFINE e == Sinks!Fold(start, h)
<1>6. e \in [heap : Seq(Entries), at : 1 .. L] /\ Kept(e, L)
  BY <1>1, <1>4
<1> HIDE DEF e
<1>7. Sunk(e.heap, e.at)
  BY <1>1, <1>6
<1>8. IsHeap(e.heap)
  BY <1>6, <1>7 DEF IsHeap, Sinking, Sunk
<1>. QED
  BY <1>5, <1>6, <1>8 DEF e

\* Insert.
LEMMA InsertFacts ==
  ASSUME NEW h \in Seq(Entries), IsHeap(h), NEW ts \in Nat, NEW k \in Keys
  PROVE  /\ Insert(h, ts, k) \in Seq(Entries) /\ IsHeap(Insert(h, ts, k))
         /\ Len(Insert(h, ts, k)) = Len(h) + 1
         /\ ToSet(Insert(h, ts, k)) = ToSet(h) \cup {<<ts, k>>}
<1> DEFINE g == Append(h, <<ts, k>>)  L == Len(h) + 1
<1>1. /\ g \in Seq(Entries) /\ Len(g) = L /\ L \in Nat /\ L > 0 /\ Len(h) \in Nat
      /\ g[L] = <<ts, k>> /\ \A n \in 1 .. Len(h) : g[n] = h[n]
  BY DEF Entries
<1>2. ToSet(g) = ToSet(h) \cup {<<ts, k>>}
  <2>1. DOMAIN g = 1 .. L /\ DOMAIN h = 1 .. Len(h)
    BY <1>1
  <2> HIDE DEF g
  <2>2. ToSet(g) = {g[n] : n \in 1 .. L} /\ ToSet(h) = {h[n] : n \in 1 .. Len(h)}
    BY <2>1 DEF ToSet
  <2>3. \A n \in 1 .. L : g[n] = <<ts, k>> \/ \E l \in 1 .. Len(h) : g[n] = h[l]
    BY <1>1
  <2>4. \A x \in ToSet(g) : x \in ToSet(h) \cup {<<ts, k>>}
    BY <2>2, <2>3
  <2>5. \A n \in 1 .. Len(h) : n \in 1 .. L
    BY <1>1
  <2>6. \A x \in ToSet(h) : x \in ToSet(g)
    BY <1>1, <2>2, <2>5
  <2>7. <<ts, k>> \in ToSet(g)
    BY <1>1, <2>2
  <2>. QED
    BY <2>4, <2>6, <2>7
<1> HIDE DEF g
<1>3. Rising(g, L)
  <2>1. ASSUME NEW n \in 2 .. Len(g), n # L PROVE Stamp(g, n \div 2) <= Stamp(g, n)
    <3>1. n \in 2 .. Len(h) /\ n \in 1 .. Len(h) /\ n \div 2 \in 1 .. Len(h)
      BY <1>1, <2>1, Halves
    <3>2. Stamp(h, n \div 2) <= Stamp(h, n)
      BY <3>1 DEF IsHeap
    <3>. QED
      BY <1>1, <3>1, <3>2 DEF Stamp
  <2>2. \A n \in 2 .. Len(g) : n \div 2 # L
    BY <1>1, Halves
  <2>. QED
    BY <1>1, <2>1, <2>2 DEF Rising
<1>. QED
  BY <1>1, <1>2, <1>3, HeapifyUpOrders DEF Insert, g

\* What PopMin leaves.
LEMMA AfterPopFacts ==
  ASSUME NEW h \in Seq(Entries), IsHeap(h), h # << >>
  PROVE  /\ AfterPop(h) \in Seq(Entries) /\ IsHeap(AfterPop(h))
         /\ Len(AfterPop(h)) = Len(h) - 1 /\ Len(h) > 0 /\ h[1] \in Entries
         /\ ToSet(h) \subseteq ToSet(AfterPop(h)) \cup {h[1]}
         /\ ToSet(AfterPop(h)) \subseteq ToSet(h)
<1> DEFINE L == Len(h)
<1>1. L \in Nat /\ L > 0 /\ DOMAIN h = 1 .. L /\ \A n \in 1 .. L : h[n] \in Entries
  BY EmptySeq
<1>2. CASE L = 1
  <2>1. AfterPop(h) = << >>
    BY <1>2 DEF AfterPop
  <2>2. IsHeap(<< >>) /\ << >> \in Seq(Entries) /\ Len(<< >>) = 0
    BY DEF IsHeap
  <2>3. ToSet(h) = {h[1]} /\ ToSet(<< >>) = {}
    BY <1>1, <1>2 DEF ToSet
  <2>. QED
    BY <1>1, <1>2, <2>1, <2>2, <2>3
<1>3. CASE L # 1
  <2> DEFINE g == SubSeq([h EXCEPT ![1] = h[L]], 1, L - 1)
  <2>1. AfterPop(h) = HeapifyDown(g, 1)
    BY <1>3 DEF AfterPop
  <2>2. /\ g \in Seq(Entries) /\ Len(g) = L - 1 /\ g[1] = h[L]
        /\ \A n \in 2 .. L - 1 : g[n] = h[n]
    BY <1>1, <1>3
  <2> HIDE DEF g
  <2>3. Sinking(g, 1)
    <3>1. ASSUME NEW n \in 2 .. Len(g), n \div 2 # 1 PROVE Stamp(g, n \div 2) <= Stamp(g, n)
      <4>1. n \in 2 .. L /\ n \in 2 .. L - 1 /\ n \div 2 \in 2 .. L - 1
        BY <1>1, <2>2, <3>1, Halves
      <4>2. Stamp(h, n \div 2) <= Stamp(h, n)
        BY <4>1 DEF IsHeap
      <4>. QED
        BY <2>2, <4>1, <4>2 DEF Stamp
    <3>. QED
      BY <1>1, <1>3, <2>2, <3>1 DEF Sinking
  <2>4. /\ HeapifyDown(g, 1) \in Seq(Entries) /\ IsHeap(HeapifyDown(g, 1))
        /\ Len(HeapifyDown(g, 1)) = L - 1 /\ ToSet(HeapifyDown(g, 1)) = ToSet(g)
    BY <2>2, <2>3, HeapifyDownOrders
  <2>5. DOMAIN g = 1 .. L - 1 /\ L - 1 >= 1
    BY <1>1, <1>3, <2>2
  <2>6. \A n \in 1 .. L : h[n] = h[1] \/ \E l \in 1 .. L - 1 : g[l] = h[n]
    BY <1>1, <2>2, <2>5
  <2>7. \A n \in 1 .. L - 1 : \E l \in 1 .. L : g[n] = h[l]
    BY <1>1, <2>2, <2>5
  <2>8. ToSet(g) = {g[n] : n \in 1 .. L - 1} /\ ToSet(h) = {h[n] : n \in 1 .. L}
    BY <1>1, <2>5 DEF ToSet
  <2>9. \A x \in ToSet(h) : x = h[1] \/ x \in ToSet(g)
    BY <2>6, <2>8
  <2>10. \A x \in ToSet(g) : x \in ToSet(h)
    BY <2>7, <2>8
  <2>11. ToSet(AfterPop(h)) = ToSet(g) /\ Len(AfterPop(h)) = L - 1
    BY <2>1, <2>4
  <2>12. AfterPop(h) \in Seq(Entries) /\ IsHeap(AfterPop(h))
    BY <2>1, <2>4
  <2>13. h[1] \in Entries
    BY <1>1
  <2>14. ToSet(h) \subseteq ToSet(AfterPop(h)) \cup {h[1]} /\ ToSet(AfterPop(h)) \subseteq ToSet(h)
    BY <2>9, <2>10, <2>11
  <2>. QED
    BY <1>1, <2>11, <2>12, <2>13, <2>14
<1>. QED
  BY <1>2, <1>3

-----------------------------------------------------------------------------
\* The cache links the keys of s in this order, and a key's value knows its key.
Nth(s, i) == IF i \in 1 .. Len(s) THEN s[i] ELSE Nil
CacheEntry == [value : Values, next : Keys \cup {Nil}, prev : Keys \cup {Nil}]
Linked(c, s) ==
    /\ s \in Seq(Keys) /\ \A i, j \in 1 .. Len(s) : s[i] = s[j] => i = j
    /\ c = [entry |-> c.entry, head |-> Nth(s, 1), tail |-> Nth(s, Len(s))]
    /\ c.entry \in [ToSet(s) -> CacheEntry]
    /\ \A i \in 1 .. Len(s) :
          /\ c.entry[s[i]].next = Nth(s, i + 1) /\ c.entry[s[i]].prev = Nth(s, i - 1)
          /\ c.entry[s[i]].value[1] = s[i]


Distinct(s) == \A i, j \in 1 .. Len(s) : s[i] = s[j] => i = j

\* Using a key that was not in use.
LEMMA UsedNew ==
  ASSUME NEW s \in Seq(Keys), NEW k \in Keys \ ToSet(s)
  PROVE  /\ Used(s, k) \in Seq(Keys) /\ Len(Used(s, k)) = Len(s) + 1
         /\ Used(s, k)[1] = k /\ \A i \in 1 .. Len(s) : Used(s, k)[i + 1] = s[i]
<1> DEFINE t == <<k>> \o s
<1>1. Used(s, k) = t
  BY DEF Used, Removed
<1>2. <<k>> \in Seq(Keys) /\ Len(<<k>>) = 1 /\ <<k>>[1] = k /\ Len(s) \in Nat
  OBVIOUS
<1>3. /\ t \in Seq(Keys) /\ Len(t) = 1 + Len(s)
      /\ \A i \in 1 .. 1 + Len(s) : t[i] = IF i <= 1 THEN <<k>>[i] ELSE s[i - 1]
  BY <1>2, ConcatProperties
<1> HIDE DEF t
<1>4. t[1] = k
  BY <1>2, <1>3
<1>5. ASSUME NEW i \in 1 .. Len(s) PROVE t[i + 1] = s[i]
  <2>1. i + 1 \in 1 .. 1 + Len(s) /\ ~(i + 1 <= 1) /\ (i + 1) - 1 = i
    BY <1>2
  <2>. QED
    BY <1>3, <2>1
<1>6. Len(t) = Len(s) + 1
  BY <1>2, <1>3
<1>. QED
  BY <1>1, <1>3, <1>4, <1>5, <1>6

\* Using the key at position p again.
LEMMA UsedOld ==
  ASSUME NEW s \in Seq(Keys), Distinct(s), NEW p \in 1 .. Len(s)
  PROVE  /\ Used(s, s[p]) \in Seq(Keys) /\ Len(Used(s, s[p])) = Len(s)
         /\ Used(s, s[p])[1] = s[p]
         /\ \A i \in 2 .. p : Used(s, s[p])[i] = s[i - 1]
         /\ \A i \in p + 1 .. Len(s) : Used(s, s[p])[i] = s[i]
<1> DEFINE k == s[p]  n == Len(s)
           before == SubSeq(s, 1, p - 1)  after == SubSeq(s, p + 1, n)
           rest == before \o after
           t == <<k>> \o rest
<1>1. n \in Nat /\ DOMAIN s = 1 .. n /\ p \in 1 .. n /\ \A i \in 1 .. n : s[i] \in Keys
  OBVIOUS
<1>2. (CHOOSE i \in DOMAIN s : s[i] = k) = p
  BY <1>1 DEF Distinct
<1>3. Used(s, k) = t
  <2>1. k \in ToSet(s)
    BY <1>1 DEF ToSet
  <2>. QED
    BY <1>2, <2>1 DEF Used, Removed, RemoveAt
<1>4. before \in Seq(Keys) /\ Len(before) = p - 1 /\ \A i \in 1 .. p - 1 : before[i] = s[i]
  <2>1. 1 \in Int /\ p - 1 \in Int /\ \A i \in 1 .. p - 1 : s[i] \in Keys
    BY <1>1
  <2>. QED
    BY <1>1, <2>1, SubSeqProperties
<1>5. after \in Seq(Keys) /\ Len(after) = n - p /\ \A i \in 1 .. n - p : after[i] = s[p + i]
  <2>1. p + 1 \in Int /\ n \in Int /\ \A i \in p + 1 .. n : s[i] \in Keys
    BY <1>1
  <2>2. /\ after \in Seq(Keys) /\ Len(after) = IF p + 1 <= n THEN n - (p + 1) + 1 ELSE 0
        /\ \A i \in 1 .. n - (p + 1) + 1 : after[i] = s[(p + 1) + i - 1]
    BY <2>1, SubSeqProperties
  <2>3. \A i \in 1 .. n - p : (p + 1) + i - 1 = p + i /\ i \in 1 .. n - (p + 1) + 1
    BY <1>1
  <2> HIDE DEF after
  <2>4. Len(after) = n - p
    <3>1. n \in Nat /\ p \in 1 .. n /\ Len(after) = IF p + 1 <= n THEN n - (p + 1) + 1 ELSE 0
      BY <1>1, <2>2
    <3> HIDE DEF n
    <3>. QED
      BY <3>1, SMTT(30)
  <2>. QED
    BY <2>2, <2>3, <2>4
<1> HIDE DEF before, after
<1>6. /\ rest \in Seq(Keys) /\ Len(rest) = n - 1
      /\ \A i \in 1 .. n - 1 : rest[i] = IF i <= p - 1 THEN before[i] ELSE after[i - (p - 1)]
  <2>1. Len(before) + Len(after) = n - 1
    BY <1>1, <1>4, <1>5
  <2>2. /\ rest \in Seq(Keys) /\ Len(rest) = Len(before) + Len(after)
        /\ \A i \in 1 .. Len(before) + Len(after) :
              rest[i] = IF i <= Len(before) THEN before[i] ELSE after[i - Len(before)]
    BY <1>4, <1>5, ConcatProperties
  <2>3. Len(before) = p - 1
    BY <1>4
  <2> HIDE DEF rest, n
  <2>. QED
    BY <1>4, <1>5, <2>1, <2>2, <2>3
<1> HIDE DEF rest
<1>7. <<k>> \in Seq(Keys) /\ Len(<<k>>) = 1 /\ <<k>>[1] = k
  BY <1>1
<1>8. /\ t \in Seq(Keys) /\ Len(t) = n
      /\ \A i \in 1 .. n : t[i] = IF i <= 1 THEN <<k>>[i] ELSE rest[i - 1]
  <2>1. 1 + (n - 1) = n
    BY <1>1
  <2>. QED
    BY <1>6, <1>7, <2>1, ConcatProperties
<1> HIDE DEF t
<1>9. t[1] = k
  BY <1>1, <1>7, <1>8
<1>10. ASSUME NEW i \in 2 .. p PROVE t[i] = s[i - 1]
  <2>1. i \in 1 .. n /\ ~(i <= 1) /\ i - 1 \in 1 .. n - 1 /\ i - 1 <= p - 1 /\ i - 1 \in 1 .. p - 1
    BY <1>1
  <2>. QED
    BY <1>4, <1>6, <1>8, <2>1
<1>11. ASSUME NEW i \in p + 1 .. n PROVE t[i] = s[i]
  <2>1. /\ i \in 1 .. n /\ ~(i <= 1) /\ i - 1 \in 1 .. n - 1 /\ ~(i - 1 <= p - 1)
        /\ (i - 1) - (p - 1) = i - p /\ i - p \in 1 .. n - p /\ p + (i - p) = i
    BY <1>1
  <2>. QED
    BY <1>5, <1>6, <1>8, <2>1
<1>. QED
  BY <1>3, <1>8, <1>9, <1>10, <1>11 DEF t

\* The keys of a list: at positions, distinct.
LEMMA KeysAt ==
  ASSUME NEW s \in Seq(Keys)
  PROVE  /\ Len(s) \in Nat /\ DOMAIN s = 1 .. Len(s) /\ ToSet(s) = {s[i] : i \in 1 .. Len(s)}
         /\ ToSet(s) \subseteq Keys /\ \A i \in 1 .. Len(s) : s[i] \in ToSet(s) /\ s[i] \in Keys
BY DEF ToSet

\* Nil is no key.
LEMMA NilIsNoKey == Nil \notin Keys
BY ProxyAssumption

\* MoveToHead makes of the list of s that of s with the key used again.
LEMMA MoveLinks ==
  ASSUME NEW c, NEW s, Linked(c, s), NEW k \in ToSet(s)
  PROVE  Linked(MoveToHead(c, k), Used(s, k)) /\ ToSet(Used(s, k)) = ToSet(s)
<1> DEFINE n == Len(s)  t == Used(s, k)
<1>1. /\ s \in Seq(Keys) /\ n \in Nat /\ Distinct(s) /\ ToSet(s) = {s[i] : i \in 1 .. n}
      /\ \A i \in 1 .. n : s[i] \in ToSet(s) /\ s[i] \in Keys
  BY KeysAt DEF Linked, Distinct
<1>2. PICK p \in 1 .. n : k = s[p]
  BY <1>1
<1>3. /\ t \in Seq(Keys) /\ Len(t) = n /\ t[1] = s[p]
      /\ \A i \in 2 .. p : t[i] = s[i - 1]
      /\ \A i \in p + 1 .. n : t[i] = s[i]
  BY <1>1, <1>2, UsedOld
<1> HIDE DEF t
<1>4. \A i, j \in 1 .. n : t[i] = t[j] => i = j
  <2> SUFFICES ASSUME NEW i \in 1 .. n, NEW j \in 1 .. n, t[i] = t[j] PROVE i = j
    OBVIOUS
  <2> DEFINE from(l) == IF l = 1 THEN p ELSE IF l <= p THEN l - 1 ELSE l
  <2>1. ASSUME NEW l \in 1 .. n PROVE t[l] = s[from(l)] /\ from(l) \in 1 .. n
    <3>1. CASE l = 1
      BY <1>3, <3>1
    <3>2. CASE l # 1 /\ l <= p
      BY <1>3, <3>2
    <3>3. CASE l # 1 /\ l > p
      BY <1>3, <3>3
    <3>. QED
      BY <3>1, <3>2, <3>3
  <2>2. from(i) = from(j)
    <3>1. s[from(i)] = s[from(j)] /\ from(i) \in 1 .. n /\ from(j) \in 1 .. n
      BY <2>1
    <3> HIDE DEF from
    <3>. QED
      BY <1>1, <3>1 DEF Distinct
  <2>. QED
    BY <2>2
<1>5. ToSet(t) = ToSet(s)
  <2>1. ToSet(t) = {t[i] : i \in 1 .. n}
    BY <1>3, KeysAt
  <2>2. \A i \in 1 .. n : \E j \in 1 .. n : t[i] = s[j]
    <3> SUFFICES ASSUME NEW i \in 1 .. n PROVE \E j \in 1 .. n : t[i] = s[j]
      OBVIOUS
    <3>1. CASE i = 1
      BY <1>3, <3>1
    <3>2. CASE i # 1 /\ i <= p
      BY <1>3, <3>2
    <3>3. CASE i # 1 /\ i > p
      BY <1>3, <3>3
    <3>. QED
      BY <3>1, <3>2, <3>3
  <2>3. \A j \in 1 .. n : \E i \in 1 .. n : s[j] = t[i]
    <3> SUFFICES ASSUME NEW j \in 1 .. n PROVE \E i \in 1 .. n : s[j] = t[i]
      OBVIOUS
    <3>1. CASE j = p
      BY <1>3, <3>1
    <3>2. CASE j < p
      <4>1. j + 1 \in 2 .. p /\ j + 1 \in 1 .. n /\ (j + 1) - 1 = j
        BY <3>2
      <4>. QED
        BY <1>3, <4>1
    <3>3. CASE j > p
      BY <1>3, <3>3
    <3>. QED
      BY <3>1, <3>2, <3>3
  <2>4. \A x \in ToSet(t) : x \in ToSet(s)
    BY <1>1, <2>1, <2>2
  <2>5. \A x \in ToSet(s) : x \in ToSet(t)
    BY <1>1, <2>1, <2>3
  <2>. QED
    BY <2>4, <2>5
<1> DEFINE e == c.entry
<1>6. /\ c = [entry |-> e, head |-> Nth(s, 1), tail |-> Nth(s, n)]
      /\ e \in [ToSet(s) -> CacheEntry]
      /\ \A i \in 1 .. n : e[s[i]].next = Nth(s, i + 1) /\ e[s[i]].prev = Nth(s, i - 1) /\ e[s[i]].value[1] = s[i]
  BY DEF Linked
<1> HIDE DEF e
<1>7. c.entry = e /\ c.head = Nth(s, 1) /\ c.tail = Nth(s, n) /\ DOMAIN e = ToSet(s)
  BY <1>6
<1>8. CASE p = 1
  <2>1. k = c.head
    BY <1>1, <1>2, <1>7, <1>8 DEF Nth
  <2>2. MoveToHead(c, k) = c
    BY <2>1 DEF MoveToHead
  <2>3. \A i \in 1 .. n : t[i] = s[i]
    BY <1>3, <1>8
  <2>4. t = s
    <3>1. DOMAIN t = 1 .. Len(t) /\ DOMAIN s = 1 .. Len(s) /\ Len(t) = Len(s)
      BY <1>1, <1>3
    <3>2. t = [i \in 1 .. n |-> t[i]] /\ s = [i \in 1 .. n |-> s[i]]
      BY <1>1, <1>3, <3>1
    <3>. QED
      BY <2>3, <3>2
  <2>. QED
    BY <2>2, <2>4 DEF t
<1>9. CASE p # 1
  <2>1. k # c.head
    BY <1>1, <1>2, <1>7, <1>9 DEF Nth, Distinct
  <2> DEFINE new(x) ==
        [value |-> e[x].value,
         next  |-> IF x = k THEN c.head ELSE IF x = e[k].prev THEN e[k].next ELSE e[x].next,
         prev  |-> IF x = k THEN Nil ELSE IF x = c.head THEN k
                   ELSE IF x = e[k].next THEN e[k].prev ELSE e[x].prev]
      f == [x \in ToSet(s) |-> new(x)]
  <2>2. MoveToHead(c, k) = [entry |-> f, head |-> k, tail |-> NewTail(c, k)]
    BY <1>7, <2>1 DEF MoveToHead, CachedKeys
  <2>3. /\ c.head = s[1] /\ e[k].prev = s[p - 1] /\ e[k].next = Nth(s, p + 1)
        /\ p - 1 \in 1 .. n /\ 1 \in 1 .. n /\ p > 1
    <3>1. p - 1 \in 1 .. n /\ 1 \in 1 .. n /\ p > 1
      BY <1>2, <1>9
    <3>. QED
      BY <1>2, <1>6, <1>7, <3>1 DEF Nth
  <2>4. ASSUME NEW i \in 1 .. n
        PROVE  f[t[i]].next = Nth(t, i + 1) /\ f[t[i]].prev = Nth(t, i - 1) /\ f[t[i]].value[1] = t[i]
    <3>1. CASE i = 1
      <4>1. t[1] = k /\ k \in ToSet(s)
        BY <1>2, <1>3
      <4>2. f[k].next = c.head /\ f[k].prev = Nil /\ f[k].value = e[k].value
        BY <4>1
      <4>3. Nth(t, 2) = s[1] /\ Nth(t, 0) = Nil
        BY <1>2, <1>3, <2>3, SMTT(30) DEF Nth
      <4> HIDE DEF f
      <4>4. f[k].value[1] = k
        <5>1. e[k].value[1] = k
          BY <1>2, <1>6
        <5>. QED
          BY <4>2, <5>1
      <4>5. t[i] = k /\ i + 1 = 2 /\ i - 1 = 0
        BY <3>1, <4>1
      <4>. QED
        BY <2>3, <4>2, <4>3, <4>4, <4>5
    <3>2. CASE i # 1 /\ i <= p
      <4>1. t[i] = s[i - 1] /\ i - 1 \in 1 .. n /\ i - 1 # p /\ i - 1 \in 1 .. p - 1
        BY <1>2, <1>3, <3>2
      <4>2. s[i - 1] # k /\ s[i - 1] \in ToSet(s)
        BY <1>1, <1>2, <4>1 DEF Distinct
      <4>3. f[t[i]].value[1] = t[i]
        BY <1>6, <4>1, <4>2
      <4>4. f[t[i]].next = Nth(t, i + 1)
        <5>1. CASE i = p
          <6>1. f[t[i]].next = Nth(s, p + 1)
            BY <2>3, <4>1, <4>2, <5>1
          <6>2. Nth(s, p + 1) = Nth(t, p + 1)
            BY <1>2, <1>3 DEF Nth
          <6>. QED
            BY <5>1, <6>1, <6>2
        <5>2. CASE i # p
          <6>1. s[i - 1] # s[p - 1]
            <7>1. i - 1 \in 1 .. n /\ p - 1 \in 1 .. n /\ i - 1 # p - 1
              BY <2>3, <4>1, <5>2
            <7>2. \A a, b \in 1 .. n : s[a] = s[b] => a = b
              BY <1>1 DEF Distinct
            <7> HIDE DEF f, n
            <7>. QED
              BY <7>1, <7>2
          <6>2. f[t[i]].next = e[s[i - 1]].next
            BY <2>3, <4>1, <4>2, <6>1
          <6>3. e[s[i - 1]].next = Nth(s, (i - 1) + 1)
            BY <1>6, <4>1
          <6>4. (i - 1) + 1 = i /\ i + 1 \in 2 .. p /\ i + 1 \in 1 .. n /\ (i + 1) - 1 = i
            BY <3>2, <5>2, <1>2
          <6>5. Nth(s, i) = s[i] /\ Nth(t, i + 1) = t[i + 1] /\ t[i + 1] = s[i]
            BY <1>3, <6>4 DEF Nth
          <6>. QED
            BY <6>2, <6>3, <6>4, <6>5
        <5>. QED
          BY <5>1, <5>2
      <4>5. f[t[i]].prev = Nth(t, i - 1)
        <5>1. Nth(t, i - 1) = t[i - 1]
          BY <1>3, <4>1 DEF Nth
        <5>2. CASE i = 2
          <6>1. t[i] = c.head /\ t[i - 1] = k
            BY <1>2, <1>3, <2>3, <4>1, <5>2
          <6>. QED
            BY <4>1, <4>2, <5>1, <6>1
        <5>3. CASE i # 2
          <6>1. s[i - 1] # c.head
            BY <1>1, <2>3, <4>1, <3>2, <5>3, SMTT(30) DEF Distinct
          <6>2. s[i - 1] # e[k].next
            <7>1. CASE p + 1 \in 1 .. n
              BY <1>1, <2>3, <4>1, <7>1 DEF Nth, Distinct
            <7>2. CASE p + 1 \notin 1 .. n
              BY <1>1, <2>3, <4>1, <7>2, NilIsNoKey DEF Nth
            <7>. QED
              BY <7>1, <7>2
          <6>3. f[t[i]].prev = e[s[i - 1]].prev
            BY <4>1, <4>2, <6>1, <6>2
          <6>4. e[s[i - 1]].prev = Nth(s, (i - 1) - 1)
            BY <1>6, <4>1
          <6>5. (i - 1) - 1 \in 1 .. n /\ i - 1 \in 2 .. p
            BY <3>2, <4>1, <5>3, <1>2
          <6>6. Nth(s, (i - 1) - 1) = s[(i - 1) - 1] /\ t[i - 1] = s[(i - 1) - 1]
            BY <1>3, <6>5 DEF Nth
          <6>. QED
            BY <5>1, <6>3, <6>4, <6>6
        <5>. QED
          BY <5>2, <5>3
      <4> HIDE DEF f
      <4>. QED
        BY <4>3, <4>4, <4>5
    <3>3. CASE i # 1 /\ i > p
      <4>1. t[i] = s[i] /\ i \in p + 1 .. n
        BY <1>2, <1>3, <3>3
      <4>2. s[i] # k /\ s[i] # s[1] /\ s[i] # s[p - 1] /\ s[i] \in ToSet(s)
        BY <1>1, <1>2, <2>3, <3>3, SMTT(30) DEF Distinct
      <4>3. f[t[i]].value[1] = t[i]
        BY <1>6, <4>1, <4>2
      <4>4. f[t[i]].next = Nth(t, i + 1)
        <5>1. f[t[i]].next = Nth(s, i + 1)
          BY <1>6, <2>3, <4>1, <4>2
        <5>2. Nth(s, i + 1) = Nth(t, i + 1)
          BY <1>2, <1>3, <4>1 DEF Nth
        <5>. QED
          BY <5>1, <5>2
      <4>5. f[t[i]].prev = Nth(t, i - 1)
        <5>1. i - 1 \in 1 .. n /\ i - 1 >= p
          BY <4>1, <3>3, <1>2
        <5>2. Nth(t, i - 1) = t[i - 1] /\ Nth(s, i - 1) = s[i - 1]
          BY <1>3, <5>1 DEF Nth
        <5>3. CASE i = p + 1
          <6>1. e[k].next = s[i]
            BY <2>3, <4>1, <5>3 DEF Nth
          <6>2. f[t[i]].prev = s[p - 1]
            BY <2>3, <4>1, <4>2, <6>1
          <6>3. t[i - 1] = s[p - 1]
            <7>1. i - 1 = p /\ p \in 2 .. p
              BY <1>2, <1>9, <5>3
            <7>. QED
              BY <1>3, <7>1
          <6>. QED
            BY <5>2, <6>2, <6>3
        <5>4. CASE i # p + 1
          <6>1. s[i] # e[k].next
            <7>1. CASE p + 1 \in 1 .. n
              BY <1>1, <2>3, <5>4, <7>1 DEF Nth, Distinct
            <7>2. CASE p + 1 \notin 1 .. n
              BY <1>1, <2>3, <7>2, NilIsNoKey DEF Nth
            <7>. QED
              BY <7>1, <7>2
          <6>2. f[t[i]].prev = Nth(s, i - 1)
            BY <1>6, <2>3, <4>1, <4>2, <6>1
          <6>3. t[i - 1] = s[i - 1]
            <7>1. i - 1 \in p + 1 .. n
              BY <4>1, <5>4, <1>2
            <7>. QED
              BY <1>3, <7>1
          <6>. QED
            BY <5>2, <6>2, <6>3
        <5>. QED
          BY <5>3, <5>4
      <4> HIDE DEF f
      <4>. QED
        BY <4>3, <4>4, <4>5
    <3> HIDE DEF f
    <3>. QED
      BY <3>1, <3>2, <3>3
  <2>5. f \in [ToSet(s) -> CacheEntry]
    <3>1. ASSUME NEW x \in ToSet(s) PROVE new(x) \in CacheEntry
      <4>1. e[x] \in CacheEntry /\ e[k] \in CacheEntry /\ c.head \in Keys /\ k \in Keys
        BY <1>1, <1>2, <1>6, <2>3
      <4>. QED
        BY <4>1 DEF CacheEntry
    <3> HIDE DEF new
    <3>. QED
      BY <3>1
  <2>6. NewTail(c, k) = Nth(t, n)
    <3>1. n \in 1 .. n /\ Nth(t, n) = t[n] /\ c.tail = s[n] /\ c.entry[k].prev = s[p - 1]
      BY <1>2, <1>3, <1>7, <2>3 DEF Nth
    <3>2. CASE p = n
      <4>1. k = c.tail /\ t[n] = s[p - 1] /\ s[p - 1] # Nil
        BY <1>1, <1>2, <1>3, <2>3, <3>1, <3>2, NilIsNoKey
      <4>. QED
        BY <3>1, <4>1 DEF NewTail
    <3>3. CASE p # n
      <4>1. k # c.tail /\ t[n] = s[n]
        <5>1. n \in p + 1 .. n
          BY <1>2, <3>1, <3>3
        <5>2. s[n] # s[p]
          BY <1>1, <1>2, <3>1, <3>3 DEF Distinct
        <5>. QED
          BY <1>2, <1>3, <3>1, <5>1, <5>2
      <4>. QED
        BY <3>1, <4>1 DEF NewTail
    <3>. QED
      BY <3>2, <3>3
  <2>7. Nth(t, 1) = k
    BY <1>2, <1>3, <2>3 DEF Nth
  <2> HIDE DEF f
  <2>8. Linked(MoveToHead(c, k), t)
    <3>1. MoveToHead(c, k) = [entry |-> f, head |-> Nth(t, 1), tail |-> Nth(t, n)]
      BY <2>2, <2>6, <2>7
    <3>. QED
      BY <1>3, <1>4, <1>5, <2>4, <2>5, <3>1 DEF Linked
  <2>. QED
    BY <1>5, <2>8 DEF t
<1>. QED
  BY <1>8, <1>9

\* A new entry at the head.
LEMMA AddLinks ==
  ASSUME NEW c, NEW s, Linked(c, s), NEW k \in Keys \ ToSet(s), NEW v \in Values, v[1] = k
  PROVE  /\ Linked(AddAtHead(c, k, v), Used(s, k)) /\ ToSet(Used(s, k)) = ToSet(s) \cup {k}
         /\ CachedKeys(AddAtHead(c, k, v)) = ToSet(Used(s, k))
<1> DEFINE n == Len(s)  t == Used(s, k)
<1>1. /\ s \in Seq(Keys) /\ n \in Nat /\ Distinct(s) /\ ToSet(s) = {s[i] : i \in 1 .. n}
      /\ \A i \in 1 .. n : s[i] \in ToSet(s) /\ s[i] \in Keys
  BY KeysAt DEF Linked, Distinct
<1>2. t \in Seq(Keys) /\ Len(t) = n + 1 /\ t[1] = k /\ \A i \in 1 .. n : t[i + 1] = s[i]
  BY <1>1, UsedNew
<1> HIDE DEF t
<1>3. ASSUME NEW i \in 2 .. n + 1 PROVE i - 1 \in 1 .. n /\ t[i] = s[i - 1] /\ t[i] # k
  <2>1. i - 1 \in 1 .. n /\ (i - 1) + 1 = i
    BY <1>1
  <2>. QED
    BY <1>1, <1>2, <2>1
<1>4. \A i, j \in 1 .. n + 1 : t[i] = t[j] => i = j
  <2> SUFFICES ASSUME NEW i \in 1 .. n + 1, NEW j \in 1 .. n + 1, t[i] = t[j] PROVE i = j
    OBVIOUS
  <2>1. CASE i = 1 /\ j # 1
    BY <1>1, <1>2, <1>3, <2>1
  <2>2. CASE i # 1 /\ j = 1
    BY <1>1, <1>2, <1>3, <2>2
  <2>3. CASE i # 1 /\ j # 1
    <3>1. i \in 2 .. n + 1 /\ j \in 2 .. n + 1
      BY <1>1, <2>3
    <3>2. i - 1 = j - 1
      BY <1>1, <1>3, <3>1, ZenonT(60) DEF Distinct
    <3>. QED
      BY <3>1, <3>2, <1>1
  <2>. QED
    BY <2>1, <2>2, <2>3
<1>5. ToSet(t) = ToSet(s) \cup {k}
  <2>1. ToSet(t) = {t[i] : i \in 1 .. n + 1} /\ 1 \in 1 .. n + 1
    BY <1>1, <1>2, KeysAt
  <2>2. ASSUME NEW x \in ToSet(t) PROVE x \in ToSet(s) \cup {k}
    <3>1. PICK i \in 1 .. n + 1 : x = t[i]
      BY <2>1
    <3>2. CASE i = 1
      BY <1>2, <3>1, <3>2
    <3>3. CASE i # 1
      <4>1. i \in 2 .. n + 1
        BY <1>1, <3>3
      <4>. QED
        BY <1>1, <1>3, <3>1, <4>1
    <3>. QED
      BY <3>2, <3>3
  <2>3. ASSUME NEW x \in ToSet(s) PROVE x \in ToSet(t)
    <3>1. PICK i \in 1 .. n : x = s[i]
      BY <1>1
    <3>2. i + 1 \in 1 .. n + 1 /\ t[i + 1] = x
      BY <1>1, <1>2, <3>1
    <3>. QED
      BY <2>1, <3>2
  <2>. QED
    BY <1>2, <2>1, <2>2, <2>3
<1> DEFINE e == c.entry
           new == [value |-> v, next |-> c.head, prev |-> Nil]
           f == AddAtHead(c, k, v).entry
<1>6. /\ c = [entry |-> e, head |-> Nth(s, 1), tail |-> Nth(s, n)]
      /\ e \in [ToSet(s) -> CacheEntry]
      /\ \A i \in 1 .. n : e[s[i]].next = Nth(s, i + 1) /\ e[s[i]].prev = Nth(s, i - 1) /\ e[s[i]].value[1] = s[i]
  BY DEF Linked
<1> HIDE DEF e
<1>7. c.entry = e /\ c.head = Nth(s, 1) /\ c.tail = Nth(s, n) /\ DOMAIN e = ToSet(s)
  BY <1>6
<1>8. new \in CacheEntry
  <2>1. c.head \in Keys \cup {Nil}
    BY <1>1, <1>7 DEF Nth
  <2>. QED
    BY <2>1 DEF CacheEntry
<1>9. Nth(t, 1) = k
  BY <1>1, <1>2 DEF Nth
<1>10. CASE n = 0
  <2>1. c.head = Nil /\ ToSet(s) = {}
    BY <1>1, <1>7, <1>10 DEF Nth
  <2> DEFINE g == [y \in {k} |-> new]
  <2>2. AddAtHead(c, k, v) = [entry |-> g, head |-> k, tail |-> k]
    BY <1>7, <2>1 DEF AddAtHead, With
  <2>3. /\ g \in [ToSet(t) -> CacheEntry]
        /\ g[k].value[1] = k /\ g[k].next = Nil /\ g[k].prev = Nil
    BY <1>5, <1>8, <2>1
  <2> HIDE DEF g
  <2>4. Nth(t, 2) = Nil /\ Nth(t, 0) = Nil
    BY <1>2, <1>10 DEF Nth
  <2>5. Linked([entry |-> g, head |-> k, tail |-> k], t)
    BY <1>2, <1>4, <1>9, <1>10, <2>3, <2>4 DEF Linked
  <2>. QED
    BY <1>5, <2>2, <2>3, <2>5 DEF CachedKeys, t
<1>11. CASE n # 0
  <2>1. c.head = s[1] /\ c.head # Nil /\ s[1] \in ToSet(s) /\ 1 \in 1 .. n
    BY <1>1, <1>7, <1>11, NilIsNoKey DEF Nth
  <2> DEFINE old == [e EXCEPT ![s[1]].prev = k]
             g == [y \in ToSet(s) \cup {k} |-> IF y = k THEN new ELSE old[y]]
  <2>2. AddAtHead(c, k, v) = [entry |-> g, head |-> k, tail |-> Nth(s, n)]
    <3>1. DOMAIN old = ToSet(s)
      BY <1>7
    <3>2. With(old, k, new) = g
      BY <3>1 DEF With
    <3>3. AddAtHead(c, k, v) = [c EXCEPT !.entry = With(old, k, new), !.head = k]
      BY <1>7, <2>1 DEF AddAtHead
    <3> HIDE DEF g, old, new
    <3>. QED
      BY <1>6, <3>2, <3>3
  <2>3. /\ old \in [ToSet(s) -> CacheEntry]
        /\ \A x \in ToSet(s) : old[x].next = e[x].next /\ old[x].value = e[x].value
        /\ \A x \in ToSet(s) : old[x].prev = IF x = s[1] THEN k ELSE e[x].prev
    BY <1>6, <2>1 DEF CacheEntry
  <2> HIDE DEF old
  <2>4. g \in [ToSet(t) -> CacheEntry] /\ g[k] = new /\ \A x \in ToSet(s) : g[x] = old[x]
    BY <1>5, <1>8, <2>3
  <2> HIDE DEF g
  <2>5. ASSUME NEW i \in 1 .. n + 1
        PROVE  g[t[i]].next = Nth(t, i + 1) /\ g[t[i]].prev = Nth(t, i - 1) /\ g[t[i]].value[1] = t[i]
    <3>1. CASE i = 1
      <4>1. t[2] = s[1] /\ Nth(t, 2) = t[2] /\ Nth(t, 0) = Nil
        BY <1>1, <1>2, <2>1 DEF Nth
      <4>2. new.next = s[1] /\ new.prev = Nil /\ new.value = v
        BY <2>1
      <4>. QED
        BY <1>2, <2>4, <3>1, <4>1, <4>2
    <3>2. CASE i # 1
      <4>1. i \in 2 .. n + 1 /\ i - 1 \in 1 .. n /\ t[i] = s[i - 1] /\ s[i - 1] \in ToSet(s)
        BY <1>1, <1>3, <3>2
      <4>2. g[t[i]].next = Nth(s, i) /\ g[t[i]].value[1] = t[i]
        <5>1. e[s[i - 1]].next = Nth(s, (i - 1) + 1) /\ e[s[i - 1]].value[1] = s[i - 1] /\ (i - 1) + 1 = i
          BY <1>6, <4>1
        <5>. QED
          BY <2>3, <2>4, <4>1, <5>1
      <4>3. Nth(s, i) = Nth(t, i + 1)
        BY <1>1, <1>2, <4>1, SMTT(30) DEF Nth
      <4>4. g[t[i]].prev = Nth(t, i - 1)
        <5>1. CASE i = 2
          <6>1. i - 1 = 1 /\ s[i - 1] = s[1]
            BY <5>1
          <6>. QED
            BY <1>9, <2>3, <2>4, <4>1, <6>1
        <5>2. CASE i # 2
          <6>1. s[i - 1] # s[1] /\ (i - 1) - 1 \in 1 .. n /\ i - 1 \in 2 .. n + 1
            BY <1>1, <2>1, <4>1, <5>2, SMTT(30) DEF Distinct
          <6>2. g[t[i]].prev = Nth(s, (i - 1) - 1)
            <7>1. e[s[i - 1]].prev = Nth(s, (i - 1) - 1)
              BY <1>6, <4>1
            <7>. QED
              BY <2>3, <2>4, <4>1, <6>1, <7>1
          <6>3. Nth(s, (i - 1) - 1) = s[(i - 1) - 1] /\ Nth(t, i - 1) = t[i - 1]
            BY <1>1, <1>2, <6>1 DEF Nth
          <6>4. t[i - 1] = s[(i - 1) - 1]
            BY <1>3, <6>1
          <6>. QED
            BY <6>2, <6>3, <6>4
        <5>. QED
          BY <5>1, <5>2
      <4>. QED
        BY <4>2, <4>3, <4>4
    <3>. QED
      BY <3>1, <3>2
  <2>6. Nth(s, n) = Nth(t, n + 1)
    BY <1>1, <1>2, <2>1 DEF Nth
  <2>7. Linked([entry |-> g, head |-> k, tail |-> Nth(s, n)], t)
    BY <1>2, <1>4, <1>9, <2>4, <2>5, <2>6 DEF Linked
  <2>. QED
    BY <1>5, <2>2, <2>4, <2>7 DEF CachedKeys, t
<1>. QED
  BY <1>10, <1>11

\* Evict takes the last key.
LEMMA EvictLinks ==
  ASSUME NEW c, NEW s, Linked(c, s)
  PROVE  /\ s = << >> => Evict(c) = c
         /\ s # << >> => /\ Linked(Evict(c), Dropped(s)) /\ Len(Dropped(s)) = Len(s) - 1
                         /\ c.tail = s[Len(s)] /\ c.tail \in ToSet(s) /\ Len(s) \in Nat \ {0}
<1> DEFINE n == Len(s)  t == Dropped(s)
<1>1. /\ s \in Seq(Keys) /\ n \in Nat /\ Distinct(s) /\ ToSet(s) = {s[i] : i \in 1 .. n}
      /\ \A i \in 1 .. n : s[i] \in ToSet(s) /\ s[i] \in Keys
  BY KeysAt DEF Linked, Distinct
<1> DEFINE e == c.entry
<1>2. /\ c = [entry |-> e, head |-> Nth(s, 1), tail |-> Nth(s, n)]
      /\ e \in [ToSet(s) -> CacheEntry]
      /\ \A i \in 1 .. n : e[s[i]].next = Nth(s, i + 1) /\ e[s[i]].prev = Nth(s, i - 1) /\ e[s[i]].value[1] = s[i]
  BY DEF Linked
<1> HIDE DEF e
<1>3. c.entry = e /\ c.head = Nth(s, 1) /\ c.tail = Nth(s, n) /\ DOMAIN e = ToSet(s)
  BY <1>2
<1>4. CASE s = << >>
  <2>1. c.tail = Nil
    BY <1>3, <1>4 DEF Nth
  <2>. QED
    BY <1>4, <2>1 DEF Evict
<1>5. CASE s # << >>
  <2>1. n \in Nat \ {0} /\ c.tail = s[n] /\ c.head = s[1] /\ s[n] # Nil /\ 1 \in 1 .. n /\ n \in 1 .. n
    <3>1. n # 0
      BY <1>1, <1>5, EmptySeq
    <3>2. 1 \in 1 .. n /\ n \in 1 .. n
      BY <1>1, <3>1
    <3>. QED
      BY <1>1, <1>3, <3>1, <3>2, NilIsNoKey DEF Nth
  <2>2. t \in Seq(Keys) /\ Len(t) = n - 1 /\ \A i \in 1 .. n - 1 : t[i] = s[i]
    <3>1. 1 \in Int /\ n - 1 \in Int /\ \A i \in 1 .. n - 1 : s[i] \in Keys
      BY <1>1
    <3>2. /\ t \in Seq(Keys) /\ Len(t) = IF 1 <= n - 1 THEN (n - 1) - 1 + 1 ELSE 0
          /\ \A i \in 1 .. (n - 1) - 1 + 1 : t[i] = s[1 + i - 1]
      BY <3>1, SubSeqProperties DEF Dropped
    <3> HIDE DEF t, n
    <3>3. (n - 1) - 1 + 1 = n - 1 /\ \A i \in 1 .. n - 1 : 1 + i - 1 = i
      BY <2>1
    <3>4. Len(t) = n - 1
      BY <2>1, <3>2
    <3>. QED
      BY <3>2, <3>3, <3>4
  <2> HIDE DEF t
  <2>3. \A i, j \in 1 .. n - 1 : t[i] = t[j] => i = j
    <3>1. \A i \in 1 .. n - 1 : i \in 1 .. n
      BY <1>1
    <3>. QED
      BY <1>1, <2>2, <3>1 DEF Distinct
  <2>4. ToSet(t) = ToSet(s) \ {s[n]}
    <3>1. ToSet(t) = {t[i] : i \in 1 .. n - 1}
      BY <2>2, KeysAt
    <3>2. \A i \in 1 .. n - 1 : i \in 1 .. n /\ i # n
      BY <1>1
    <3>3. \A i \in 1 .. n : i # n => i \in 1 .. n - 1
      BY <1>1
    <3>4. ASSUME NEW x \in ToSet(t) PROVE x \in ToSet(s) \ {s[n]}
      <4>1. PICK i \in 1 .. n - 1 : x = s[i]
        BY <2>2, <3>1
      <4>2. i \in 1 .. n /\ i # n
        BY <3>2
      <4>. QED
        BY <1>1, <2>1, <4>1, <4>2 DEF Distinct
    <3>5. ASSUME NEW x \in ToSet(s) \ {s[n]} PROVE x \in ToSet(t)
      <4>1. PICK i \in 1 .. n : x = s[i]
        BY <1>1
      <4>. QED
        BY <2>2, <3>1, <3>3, <4>1
    <3>. QED
      BY <3>4, <3>5
  <2> DEFINE rest == [x \in ToSet(s) \ {s[n]} |-> e[x]]
  <2>5. rest \in [ToSet(t) -> CacheEntry] /\ \A x \in ToSet(t) : rest[x] = e[x]
    BY <1>2, <2>4
  <2>6. CASE n = 1
    <3>1. Evict(c) = [entry |-> rest, head |-> Nil, tail |-> Nil]
      BY <1>3, <2>1, <2>6 DEF Evict, CachedKeys
    <3> HIDE DEF rest
    <3>2. Nth(t, 1) = Nil /\ Nth(t, n - 1) = Nil /\ 1 .. n - 1 = {}
      BY <2>2, <2>6 DEF Nth
    <3>3. Linked([entry |-> rest, head |-> Nil, tail |-> Nil], t)
      BY <2>2, <2>3, <2>5, <3>2 DEF Linked
    <3>. QED
      BY <1>1, <1>5, <2>1, <2>2, <3>1, <3>3 DEF t
  <2>7. CASE n # 1
    <3>1. /\ n - 1 \in 1 .. n /\ n - 1 \in 1 .. n - 1 /\ s[n - 1] \in ToSet(t) /\ s[1] # s[n]
          /\ e[s[n]].prev = s[n - 1]
      <4>1. n - 1 \in 1 .. n /\ n - 1 \in 1 .. n - 1 /\ n - 1 # n
        <5> HIDE DEF n
        <5>. QED
          BY <2>1, <2>7
      <4>2. s[n - 1] # s[n] /\ s[1] # s[n]
        BY <1>1, <2>1, <2>7, <4>1 DEF Distinct
      <4>3. e[s[n]].prev = Nth(s, n - 1)
        BY <1>2, <2>1
      <4>. QED
        BY <1>1, <2>4, <4>1, <4>2, <4>3 DEF Nth
    <3> DEFINE g == [rest EXCEPT ![s[n - 1]].next = Nil]
    <3>2. Evict(c) = [entry |-> g, head |-> Nth(s, 1), tail |-> s[n - 1]]
      <4>1. Evict(c) = [c EXCEPT !.entry = g, !.tail = s[n - 1]]
        BY <1>3, <2>1, <3>1 DEF Evict, CachedKeys
      <4> HIDE DEF g
      <4>. QED
        BY <1>2, <4>1
    <3>3. /\ g \in [ToSet(t) -> CacheEntry]
          /\ \A x \in ToSet(t) : g[x].prev = e[x].prev /\ g[x].value = e[x].value
          /\ \A x \in ToSet(t) : g[x].next = IF x = s[n - 1] THEN Nil ELSE e[x].next
      <4> HIDE DEF rest
      <4>. QED
        BY <2>5, <3>1 DEF CacheEntry
    <3> HIDE DEF g
    <3>4. ASSUME NEW i \in 1 .. n - 1
          PROVE  g[t[i]].next = Nth(t, i + 1) /\ g[t[i]].prev = Nth(t, i - 1) /\ g[t[i]].value[1] = t[i]
      <4>1. t[i] = s[i] /\ i \in 1 .. n /\ t[i] \in ToSet(t)
        <5>1. i \in 1 .. n
          BY <2>1
        <5>. QED
          BY <2>2, <5>1, KeysAt
      <4>2. g[t[i]].value[1] = t[i] /\ g[t[i]].prev = Nth(s, i - 1)
        <5> HIDE DEF n, rest
        <5>1. e[s[i]].prev = Nth(s, i - 1) /\ e[s[i]].value[1] = s[i]
          BY <1>2, <4>1
        <5>2. g[t[i]].prev = e[t[i]].prev /\ g[t[i]].value = e[t[i]].value
          BY <3>3, <4>1
        <5>. QED
          BY <4>1, <5>1, <5>2
      <4>3. Nth(s, i - 1) = Nth(t, i - 1)
        BY <2>1, <2>2 DEF Nth
      <4>4. CASE i = n - 1
        <5>1. Nth(t, n) = Nil
          BY <2>1, <2>2 DEF Nth
        <5>. QED
          BY <2>1, <3>3, <4>1, <4>2, <4>3, <4>4, <5>1
      <4>5. CASE i # n - 1
        <5>1. s[i] # s[n - 1] /\ i + 1 \in 1 .. n - 1
          BY <1>1, <2>1, <3>1, <4>1, <4>5 DEF Distinct
        <5>2. g[t[i]].next = Nth(s, i + 1)
          <6>1. e[s[i]].next = Nth(s, i + 1)
            BY <1>2, <4>1
          <6>. QED
            BY <3>3, <4>1, <5>1, <6>1
        <5>3. Nth(s, i + 1) = Nth(t, i + 1)
          BY <2>1, <2>2, <5>1 DEF Nth
        <5>. QED
          BY <4>2, <4>3, <5>2, <5>3
      <4>. QED
        BY <4>4, <4>5
    <3>5. Nth(s, 1) = Nth(t, 1) /\ Nth(t, n - 1) = s[n - 1]
      BY <2>1, <2>2, <3>1 DEF Nth
    <3>6. Linked([entry |-> g, head |-> Nth(s, 1), tail |-> s[n - 1]], t)
      BY <2>2, <2>3, <3>3, <3>4, <3>5 DEF Linked
    <3>. QED
      BY <1>1, <1>5, <2>1, <2>2, <3>2, <3>6 DEF t
  <2>. QED
    BY <2>6, <2>7
<1>. QED
  BY <1>4, <1>5

\* The values change, the links stay.
LEMMA ValueLinks ==
  ASSUME NEW c, NEW s, Linked(c, s), NEW k \in ToSet(s), NEW v \in Values, v[1] = k
  PROVE  Linked([c EXCEPT !.entry[k].value = v], s)
<1>1. s \in Seq(Keys) /\ \A i \in 1 .. Len(s) : s[i] \in ToSet(s)
  BY KeysAt DEF Linked
<1> DEFINE e == c.entry  f == [e EXCEPT ![k].value = v]
<1>2. /\ c = [entry |-> e, head |-> Nth(s, 1), tail |-> Nth(s, Len(s))]
      /\ e \in [ToSet(s) -> CacheEntry]
      /\ \A i \in 1 .. Len(s) :
           e[s[i]].next = Nth(s, i + 1) /\ e[s[i]].prev = Nth(s, i - 1) /\ e[s[i]].value[1] = s[i]
  BY DEF Linked
<1> HIDE DEF e
<1>3. [c EXCEPT !.entry[k].value = v] = [entry |-> f, head |-> Nth(s, 1), tail |-> Nth(s, Len(s))]
  BY <1>2 DEF e
<1>4. /\ f \in [ToSet(s) -> CacheEntry]
      /\ \A x \in ToSet(s) : f[x].next = e[x].next /\ f[x].prev = e[x].prev
      /\ \A x \in ToSet(s) : f[x].value = IF x = k THEN v ELSE e[x].value
  BY <1>2 DEF CacheEntry
<1> HIDE DEF f
<1> DEFINE d == [entry |-> f, head |-> Nth(s, 1), tail |-> Nth(s, Len(s))]
<1>5. d.entry = f /\ d = [entry |-> d.entry, head |-> Nth(s, 1), tail |-> Nth(s, Len(s))]
  OBVIOUS
<1>6. ASSUME NEW i \in 1 .. Len(s)
      PROVE  f[s[i]].next = Nth(s, i + 1) /\ f[s[i]].prev = Nth(s, i - 1) /\ f[s[i]].value[1] = s[i]
  BY <1>1, <1>2, <1>4
<1>7. \A i, j \in 1 .. Len(s) : s[i] = s[j] => i = j
  BY DEF Linked
<1> HIDE DEF d
<1>8. Linked(d, s)
  BY <1>1, <1>4, <1>5, <1>6, <1>7 DEF Linked
<1>. QED
  BY <1>3, <1>8 DEF d

\* As many cached keys as positions.
LEMMA LinkedCount ==
  ASSUME NEW s \in Seq(Keys), Distinct(s)
  PROVE  IsFiniteSet(ToSet(s)) /\ Cardinality(ToSet(s)) = Len(s)
<1>1. Len(s) \in Nat /\ ToSet(s) = {s[i] : i \in 1 .. Len(s)}
  BY KeysAt
<1>2. s \in [1 .. Len(s) -> ToSet(s)]
  BY <1>1
<1>3. s \in Bijection(1 .. Len(s), ToSet(s))
  BY <1>1, <1>2 DEF Distinct, Bijection, Injection, Surjection, IsInjective
<1>4. IsFiniteSet(1 .. Len(s)) /\ Cardinality(1 .. Len(s)) = Len(s)
  BY <1>1, FS_Interval, SMTT(30)
<1>. QED
  BY <1>3, <1>4, FS_Bijection DEF ExistsBijection

\* What the history makes of a Put.
PutOrder(s, k) == LET order == Used(s, k) IN IF Len(order) > Capacity THEN Dropped(order) ELSE order

\* Put makes of the list of s the one with the key used, without the last key
\* where that is one too many.
LEMMA PutLinks ==
  ASSUME NEW c, NEW s, Linked(c, s), Len(s) <= Capacity, NEW k \in Keys, NEW v \in Values, v[1] = k
  PROVE  Linked(Put(c, k, v), PutOrder(s, k)) /\ Len(PutOrder(s, k)) <= Capacity
<1>1. s \in Seq(Keys) /\ Len(s) \in Nat /\ Distinct(s) /\ Capacity \in Nat /\ CachedKeys(c) = ToSet(s)
  BY LruAssumption, KeysAt DEF Linked, Distinct, CachedKeys
<1>2. CASE k \in ToSet(s)
  <2> DEFINE d == [c EXCEPT !.entry[k].value = v]
  <2>1. Linked(d, s)
    BY <1>2, ValueLinks
  <2>2. Put(c, k, v) = MoveToHead(d, k)
    BY <1>1, <1>2 DEF Put
  <2> HIDE DEF d
  <2>3. Linked(Put(c, k, v), Used(s, k))
    BY <1>2, <2>1, <2>2, MoveLinks
  <2>4. Len(Used(s, k)) = Len(s)
    <3>1. PICK p \in 1 .. Len(s) : k = s[p]
      BY <1>1, <1>2, KeysAt
    <3>. QED
      BY <1>1, <3>1, UsedOld
  <2>. QED
    BY <1>1, <2>3, <2>4 DEF PutOrder
<1>3. CASE k \notin ToSet(s)
  <2> DEFINE t == Used(s, k)  grown == AddAtHead(c, k, v)
  <2>1. Linked(grown, t) /\ CachedKeys(grown) = ToSet(t)
    BY <1>3, AddLinks
  <2>2. Len(t) = Len(s) + 1
    BY <1>1, <1>3, UsedNew
  <2> HIDE DEF t, grown
  <2>3. Cardinality(CachedKeys(grown)) = Len(t)
    BY <2>1, LinkedCount DEF Linked, Distinct
  <2>4. Put(c, k, v) = IF Len(t) > Capacity THEN Evict(grown) ELSE grown
    BY <1>1, <1>3, <2>3 DEF Put, grown
  <2>5. CASE Len(t) > Capacity
    <3>1. t # << >>
      BY <1>1, <2>2
    <3>2. Linked(Evict(grown), Dropped(t)) /\ Len(Dropped(t)) = Len(t) - 1
      BY <2>1, <3>1, EvictLinks
    <3>3. PutOrder(s, k) = Dropped(t)
      BY <2>5 DEF PutOrder, t
    <3>. QED
      BY <1>1, <2>2, <2>4, <2>5, <3>2, <3>3
  <2>6. CASE ~(Len(t) > Capacity)
    <3>1. PutOrder(s, k) = t
      BY <2>6 DEF PutOrder, t
    <3>. QED
      BY <1>1, <2>1, <2>2, <2>4, <2>6, <3>1
  <2>. QED
    BY <2>5, <2>6
<1>. QED
  BY <1>2, <1>3

\* Following the links from one end.
LEMMA Followed ==
  ASSUME NEW c, NEW s \in Seq(Keys), NEW from, NEW link,
         CachedKeys(c) = ToSet(s), Cardinality(CachedKeys(c)) = Len(s), from = Nth(s, 1),
         \A i \in 1 .. Len(s) : c.entry[s[i]][link] = Nth(s, i + 1)
  PROVE  Follow(c, from, link) = s
<1> DEFINE n == Len(s)
           Next1(w) == LET x == IF w = << >> THEN from ELSE c.entry[w[Len(w)]][link]
                       IN  IF x \in CachedKeys(c) THEN Append(w, x) ELSE w
           Equ(walk) == walk = [i \in 0 .. n |-> IF i = 0 THEN << >> ELSE Next1(walk[i - 1])]
           theWalk == CHOOSE walk : Equ(walk)
           wit == [i \in 0 .. n |-> SubSeq(s, 1, i)]
<1>1. Follow(c, from, link) = theWalk[n]
  BY DEF Follow
<1>2. n \in Nat /\ \A i \in 1 .. n : s[i] \in CachedKeys(c) /\ s[i] \in Keys
  BY KeysAt
<1>3. ASSUME NEW i \in 1 .. n PROVE Next1(SubSeq(s, 1, i - 1)) = SubSeq(s, 1, i)
  <2> DEFINE w == SubSeq(s, 1, i - 1)
  <2>1. w \in Seq(Keys) /\ Len(w) = i - 1 /\ \A j \in 1 .. i - 1 : w[j] = s[j]
    <3>1. 1 \in Int /\ i - 1 \in Int /\ \A j \in 1 .. i - 1 : s[j] \in Keys
      BY <1>2
    <3>. QED
      BY <3>1, SubSeqProperties
  <2>2. SubSeq(s, 1, i) = Append(w, s[i])
    BY <1>2
  <2> HIDE DEF w
  <2>3. (IF w = << >> THEN from ELSE c.entry[w[Len(w)]][link]) = s[i]
    <3>1. CASE i = 1
      BY <1>2, <2>1, <3>1, EmptySeq DEF Nth
    <3>2. CASE i # 1
      <4>1. w # << >> /\ w[Len(w)] = s[i - 1] /\ i - 1 \in 1 .. n /\ (i - 1) + 1 = i
        BY <1>2, <2>1, <3>2
      <4>. QED
        BY <4>1, <1>2 DEF Nth
    <3>. QED
      BY <3>1, <3>2
  <2>. QED
    BY <1>2, <2>2, <2>3 DEF w
<1> HIDE DEF Next1, n
<1>4. Equ(wit)
  <2>1. SubSeq(s, 1, 0) = << >>
    BY SubSeqEmpty
  <2>2. \A i \in 0 .. n : i # 0 => i \in 1 .. n /\ wit[i - 1] = SubSeq(s, 1, i - 1)
    BY <1>2
  <2>3. \A i \in 0 .. n : wit[i] = IF i = 0 THEN << >> ELSE Next1(wit[i - 1])
    BY <1>3, <2>1, <2>2
  <2>4. wit = [i \in 0 .. n |-> wit[i]]
    OBVIOUS
  <2> HIDE DEF wit
  <2>. QED
    BY <2>3, <2>4
<1>5. Equ(theWalk)
  <2> HIDE DEF Equ, wit
  <2>. QED
    BY <1>4
<1> HIDE DEF theWalk
<1>6. theWalk[0] = << >> /\ \A i \in 1 .. n : theWalk[i] = Next1(theWalk[i - 1])
  <2>1. \A i \in 0 .. n : theWalk[i] = IF i = 0 THEN << >> ELSE Next1(theWalk[i - 1])
    BY <1>5
  <2>. QED
    BY <1>2, <2>1
<1> DEFINE T == {i \in 0 .. n : theWalk[i] # SubSeq(s, 1, i)}
<1>7. T = {}
  <2> SUFFICES ASSUME T # {} PROVE FALSE
    OBVIOUS
  <2>1. PICK m \in T : \A y \in T : m <= y
    <3>1. T \in SUBSET Nat
      BY <1>2
    <3> HIDE DEF T
    <3>. QED
      BY <3>1, Rises!Least
  <2>2. m # 0
    <3>1. SubSeq(s, 1, 0) = << >>
      BY SubSeqEmpty
    <3>2. theWalk[m] # SubSeq(s, 1, m)
      BY <2>1
    <3>. QED
      BY <1>6, <3>1, <3>2
  <2>3. m \in 1 .. n /\ m - 1 \in 0 .. n /\ m - 1 \notin T
    BY <1>2, <2>1, <2>2
  <2>4. theWalk[m - 1] = SubSeq(s, 1, m - 1)
    BY <2>3
  <2>. QED
    BY <1>3, <1>6, <2>1, <2>3, <2>4
<1>8. theWalk[n] = SubSeq(s, 1, n)
  <2>1. n \in 0 .. n /\ n \notin T
    <3> HIDE DEF T
    <3>. QED
      BY <1>2, <1>7
  <2>. QED
    BY <2>1
<1>9. SubSeq(s, 1, n) = s
  BY DEF n
<1>. QED
  BY <1>1, <1>8, <1>9

\* What the links of a list of s show.
LEMMA LinkedOrder ==
  ASSUME NEW c, NEW s, Linked(c, s)
  PROVE  /\ Follow(c, c.head, "next") = s
         /\ Follow(c, c.tail, "prev") = Reverse(s)
         /\ CachedKeys(c) = ToSet(s)
<1> DEFINE n == Len(s)  r == Reverse(s)
<1>1. /\ s \in Seq(Keys) /\ n \in Nat /\ Distinct(s) /\ CachedKeys(c) = ToSet(s)
      /\ ToSet(s) = {s[i] : i \in 1 .. n} /\ \A i \in 1 .. n : s[i] \in Keys
      /\ c.head = Nth(s, 1) /\ c.tail = Nth(s, n)
  BY KeysAt DEF Linked, Distinct, CachedKeys
<1>2. \A i \in 1 .. n : c.entry[s[i]]["next"] = Nth(s, i + 1) /\ c.entry[s[i]]["prev"] = Nth(s, i - 1)
  BY DEF Linked
<1>3. Cardinality(CachedKeys(c)) = n
  BY <1>1, LinkedCount
<1>4. Follow(c, c.head, "next") = s
  BY <1>1, <1>2, <1>3, Followed
<1>5. r \in Seq(Keys) /\ Len(r) = n /\ \A i \in 1 .. n : r[i] = s[(n - i) + 1] /\ (n - i) + 1 \in 1 .. n
  BY <1>1 DEF Reverse
<1> HIDE DEF r
<1>6. ToSet(r) = ToSet(s)
  <2>1. ToSet(r) = {r[i] : i \in 1 .. n}
    BY <1>5, KeysAt
  <2>2. ASSUME NEW x \in ToSet(s) PROVE x \in ToSet(r)
    <3>1. PICK i \in 1 .. n : x = s[i]
      BY <1>1
    <3>2. (n - i) + 1 \in 1 .. n /\ (n - ((n - i) + 1)) + 1 = i
      BY <1>1
    <3>. QED
      BY <1>5, <2>1, <3>1, <3>2
  <2>3. \A x \in ToSet(r) : x \in ToSet(s)
    BY <1>1, <1>5, <2>1
  <2>. QED
    BY <2>2, <2>3
<1>7. c.tail = Nth(r, 1)
  BY <1>1, <1>5 DEF Nth
<1>8. ASSUME NEW i \in 1 .. n PROVE c.entry[r[i]]["prev"] = Nth(r, i + 1)
  <2>1. c.entry[r[i]]["prev"] = Nth(s, ((n - i) + 1) - 1)
    BY <1>2, <1>5
  <2>2. ((n - i) + 1) - 1 = n - i
    BY <1>1
  <2>3. CASE i = n
    BY <1>1, <1>5, <2>1, <2>2, <2>3 DEF Nth
  <2>4. CASE i # n
    <3>1. i + 1 \in 1 .. n /\ n - i \in 1 .. n /\ (n - (i + 1)) + 1 = n - i
      BY <1>1, <2>4
    <3>2. r[i + 1] = s[n - i]
      BY <1>5, <3>1
    <3>3. Nth(r, i + 1) = r[i + 1]
      BY <1>5, <3>1 DEF Nth
    <3>4. Nth(s, n - i) = s[n - i]
      <4> DEFINE j == n - i
      <4>1. j \in 1 .. n
        BY <3>1
      <4> HIDE DEF j
      <4>2. Nth(s, j) = s[j]
        BY <4>1 DEF Nth
      <4>. QED
        BY <4>2 DEF j
    <3>. QED
      BY <2>1, <2>2, <3>2, <3>3, <3>4
  <2>. QED
    BY <2>3, <2>4
<1>9. Follow(c, c.tail, "prev") = r
  BY <1>1, <1>3, <1>5, <1>6, <1>7, <1>8, Followed
<1>. QED
  BY <1>1, <1>4, <1>9 DEF r

-----------------------------------------------------------------------------
\* The local variables of a handler.
Partial(K, S) == UNION {[D -> S] : D \in SUBSET K}
MissedReqs == [rid : Rids, needResp : BOOLEAN]
Places == Filling \cup {"idle", "request", "put", "object", "stamp", "check", "fetch", "respond", "refill", "done"}
Locals ==
    [pc : Places, batch : Seq(Requests), ts : Nat, todo : Seq(Requests),
     cliResp : Partial(Rids, Seq(Values)), dedupReqs : Partial(Keys, Seq(MissedReqs)),
     left : SUBSET Keys, readBatch : SUBSET Keys, slots : Nat, held : Keys \cup {Blank},
     responses : Partial(Keys, Values), writeBatch : Partial(Keys \X Nat, Values \cup {Blank})]

\* A handler that goes through the requests.
Reading == {"request", "put", "object"}

\* What the places in the code say of the variables.
Ordered(m) ==
    /\ Len(m.todo) <= Len(m.batch)
    /\ \A i \in 1 .. Len(m.todo) : m.todo[i] = m.batch[Len(m.batch) - Len(m.todo) + i]
    /\ m.pc \notin Reading => m.todo = << >>
    /\ m.pc \in {"put", "object"} => m.todo # << >>
    /\ m.pc = "put" => Writes(m.todo[1])
    /\ m.pc = "object" => Reads(m.todo[1]) \/ Writes(m.todo[1])
    /\ m.ts <= MaxTime
    /\ m.pc = "idle" => m = Idle
Collected(m) ==
    /\ IsFiniteSet(DOMAIN m.dedupReqs) /\ IsFiniteSet(m.readBatch) /\ IsFiniteSet(DOMAIN m.writeBatch)
    /\ m.left \subseteq DOMAIN m.dedupReqs /\ (m.pc # "stamp" => m.left = {})
    /\ m.held # Blank => m.pc \in Filling \cup {"check", "refill"}
    /\ m.pc \in {"check", "refill"} => m.held # Blank
    /\ m.pc = "refill" => m.held \in DOMAIN m.responses
    /\ DOMAIN m.responses \subseteq DOMAIN m.dedupReqs
    /\ DOMAIN m.responses # {} => m.pc \in {"respond", "refill"}
    /\ \A k \in DOMAIN m.responses : m.responses[k][1] = k
    /\ \A i \in DOMAIN m.writeBatch : i[2] <= MaxTime
    /\ m.pc \in Filling \cup {"stamp", "check", "fetch"} => DOMAIN m.dedupReqs \ m.left \subseteq m.readBatch
    /\ m.held # Blank /\ m.pc \in Filling \cup {"check"} => m.slots > 0

\* The requests gone through, and the missed keys whose answer is to come.
Passed(m) == Len(m.batch) - Len(m.todo) + (IF m.pc = "object" THEN 1 ELSE 0)
Pending(m) ==
    IF m.pc \in {"respond", "refill"} THEN DOMAIN m.responses \ {m.held}
    ELSE IF m.pc = "done" THEN {} ELSE DOMAIN m.dedupReqs

\* Each read among the first n requests of a batch has had its answer, or it
\* is in the list of a key in K.
ReadsBy(batch, n, rid) == {i \in 1 .. n : Reads(batch[i]) /\ batch[i].rid = rid}
SureBy(batch, n, rid)  == {i \in ReadsBy(batch, n, rid) : batch[i].key \in InEtcd}
ListOf(resp, rid)      == IF rid \in DOMAIN resp THEN resp[rid] ELSE << >>
Waiting(dedup, K, rid) ==
    {p \in UNION {{k} \X DOMAIN dedup[k] : k \in K} :
        dedup[p[1]][p[2]].needResp /\ dedup[p[1]][p[2]].rid = rid}
AnsweredTo(rid, batch, n, resp, dedup, K, fails) ==
    /\ IsFiniteSet(Waiting(dedup, K, rid))
    /\ Len(ListOf(resp, rid)) + Cardinality(Waiting(dedup, K, rid)) <= Cardinality(ReadsBy(batch, n, rid))
    /\ fails = 0 => Len(ListOf(resp, rid)) + Cardinality(Waiting(dedup, K \cap InEtcd, rid))
                    >= Cardinality(SureBy(batch, n, rid))
    /\ \A v \in ToSet(ListOf(resp, rid)) : \E i \in ReadsBy(batch, n, rid) : v[1] = batch[i].key
    /\ \A p \in Waiting(dedup, K, rid) : \E i \in ReadsBy(batch, n, rid) : p[1] = batch[i].key
Answered(m, fails) ==
    \A rid \in Rids : AnsweredTo(rid, m.batch, Passed(m), m.cliResp, m.dedupReqs, Pending(m), fails)

Good(m, fails) == m \in Locals /\ Ordered(m) /\ Collected(m) /\ Answered(m, fails)
Settled(m)     == m.pc = "request" => m.todo # << >>


\* The heap that a handler is to put an entry back into.
Load(m) == IF m.pc \in Filling /\ m.held # Blank THEN (IF m.pc = "real" THEN "real" ELSE "dummy") ELSE "none"
StampedBy(m) == IF m.pc \in Reading \cup {"idle"} THEN {} ELSE DOMAIN m.dedupReqs \ m.left

\* What going from a loop to the next leaves.
SameWork(t, m) ==
    /\ t.batch = m.batch /\ t.ts = m.ts /\ t.todo = m.todo /\ t.cliResp = m.cliResp
    /\ t.dedupReqs = m.dedupReqs /\ t.readBatch = m.readBatch /\ t.held = m.held
    /\ t.responses = m.responses /\ t.writeBatch = m.writeBatch
    /\ Passed(t) = Passed(m) /\ Pending(t) = Pending(m)
    /\ Load(t) = Load(m) /\ StampedBy(t) = StampedBy(m)

\* The iterations of a filling loop.
LEMMA SlotsTyped == DummyCount \in Nat /\ \A m : IsFiniteSet(m.readBatch) => Missing(m) \in Nat
<1>1. BatchSize \in Nat
  BY ProxyAssumption
<1>2. DummyCount \in Nat
  BY <1>1, Halves DEF DummyCount
<1>3. ASSUME NEW m, IsFiniteSet(m.readBatch) PROVE Missing(m) \in Nat
  <2>1. PICK x \in Int : x = BatchSize - Cardinality(m.readBatch)
    BY <1>1, <1>3, FS_CardinalityType
  <2>2. Max({0, x}) \in {0, x} /\ Max({0, x}) >= 0
    <3>1. \E y \in {0, x} : \A z \in {0, x} : y >= z
      BY <2>1
    <3>. QED
      BY <3>1 DEF Max
  <2>. QED
    BY <2>1, <2>2 DEF Missing
<1>. QED
  BY <1>2, <1>3

\* From an ended loop to the next.
LEMMA NextLoopKeeps ==
  ASSUME NEW m \in Locals, Ordered(m), Collected(m)
  PROVE  /\ NextLoop(m) \in Locals /\ Ordered(NextLoop(m)) /\ Collected(NextLoop(m))
         /\ SameWork(NextLoop(m), m) /\ Settled(NextLoop(m))
<1> DEFINE t == NextLoop(m)
<1>1. CASE m.pc = "request" /\ m.todo = << >>
  <2>1. t = [m EXCEPT !.pc = "stamp", !.left = DOMAIN m.dedupReqs]
    BY <1>1 DEF NextLoop
  <2> HIDE DEF t
  <2>2. DOMAIN m.dedupReqs \in SUBSET Keys
    BY DEF Locals, Partial
  <2>3. t \in Locals
    BY <2>1, <2>2 DEF Locals, Places
  <2>4. /\ t.pc = "stamp" /\ t.left = DOMAIN m.dedupReqs /\ t.batch = m.batch /\ t.ts = m.ts /\ t.todo = m.todo
        /\ t.cliResp = m.cliResp /\ t.dedupReqs = m.dedupReqs /\ t.readBatch = m.readBatch /\ t.held = m.held
        /\ t.responses = m.responses /\ t.writeBatch = m.writeBatch
    BY <2>1 DEF Locals
  <2>5. m.held = Blank /\ DOMAIN m.responses = {}
    BY <1>1 DEF Collected, Filling
  <2>6. Ordered(t)
    BY <1>1, <2>4 DEF Ordered, Reading
  <2>7. Collected(t)
    BY <1>1, <2>4, <2>5 DEF Collected, Filling
  <2>8. Passed(t) = Passed(m) /\ Pending(t) = Pending(m)
    BY <1>1, <2>4 DEF Passed, Pending
  <2>9. Load(t) = Load(m) /\ StampedBy(t) = StampedBy(m)
    BY <1>1, <2>4, <2>5 DEF Load, StampedBy, Reading, Filling
  <2>. QED
    BY <2>3, <2>4, <2>6, <2>7, <2>8, <2>9 DEF SameWork, Settled, t
<1> DEFINE At2(to, n) == [m EXCEPT !.pc = to, !.slots = n]
<1>2. CASE \/ m.pc = "stamp" /\ m.left = {}
           \/ m.pc \in Filling /\ m.slots = 0 /\ m.held = Blank
  <2>1. /\ m.pc \in Filling \cup {"stamp"} /\ m.held = Blank /\ m.left = {} /\ DOMAIN m.responses = {}
        /\ m.todo = << >>
    BY <1>2 DEF Collected, Ordered, Reading, Filling
  <2>2. PICK to \in Filling \cup {"fetch"}, n \in Nat : t = At2(to, n)
    <3>1. Missing(m) \in Nat /\ DummyCount \in Nat /\ m.slots \in Nat
      BY SlotsTyped DEF Collected, Locals
    <3>2. CASE m.pc = "stamp"
      <4>1. t = At2("dummies", DummyCount)
        BY <2>1, <3>2 DEF NextLoop
      <4> HIDE DEF t, At2
      <4>. QED
        BY <3>1, <4>1 DEF Filling
    <3>3. CASE m.pc = "dummies"
      <4>1. t = At2("real", Missing(m))
        BY <1>2, <3>3 DEF NextLoop, Filling
      <4> HIDE DEF t, At2
      <4>. QED
        BY <3>1, <4>1 DEF Filling
    <3>4. CASE m.pc = "real"
      <4>1. t = At2("more", Missing(m))
        BY <1>2, <3>4 DEF NextLoop, Filling
      <4> HIDE DEF t, At2
      <4>. QED
        BY <3>1, <4>1 DEF Filling
    <3>5. CASE m.pc = "more"
      <4>1. t = [m EXCEPT !.pc = "fetch"]
        BY <1>2, <3>5 DEF NextLoop, Filling
      <4>2. t = At2("fetch", m.slots)
        BY <4>1 DEF Locals
      <4> HIDE DEF t, At2
      <4>. QED
        BY <3>1, <4>2 DEF Filling
    <3>6. m.pc \in {"stamp", "dummies", "real", "more"}
      BY <1>2 DEF Filling
    <3> HIDE DEF t, At2
    <3>. QED
      BY <3>2, <3>3, <3>4, <3>5, <3>6
  <2> HIDE DEF t
  <2>3. t \in Locals
    BY <2>2 DEF Locals, Places, Filling
  <2>4. /\ t.pc = to /\ t.left = m.left /\ t.batch = m.batch /\ t.ts = m.ts /\ t.todo = m.todo
        /\ t.cliResp = m.cliResp /\ t.dedupReqs = m.dedupReqs /\ t.readBatch = m.readBatch /\ t.held = m.held
        /\ t.responses = m.responses /\ t.writeBatch = m.writeBatch
    BY <2>2 DEF Locals
  <2>5. Ordered(t)
    BY <2>1, <2>2, <2>4 DEF Ordered, Reading, Filling
  <2>6. Collected(t)
    BY <2>1, <2>2, <2>4 DEF Collected, Filling
  <2>7. Passed(t) = Passed(m) /\ Pending(t) = Pending(m)
    BY <2>1, <2>2, <2>4 DEF Passed, Pending, Filling
  <2>8. Load(t) = Load(m) /\ StampedBy(t) = StampedBy(m)
    BY <2>1, <2>2, <2>4 DEF Load, StampedBy, Reading, Filling
  <2>. QED
    BY <2>2, <2>3, <2>4, <2>5, <2>6, <2>7, <2>8 DEF SameWork, Settled, Filling, t
<1>3. CASE /\ ~(m.pc = "request" /\ m.todo = << >>) /\ ~(m.pc = "stamp" /\ m.left = {})
           /\ ~(m.pc \in Filling /\ m.slots = 0 /\ m.held = Blank)
  <2>1. t = m
    BY <1>3 DEF NextLoop, Filling
  <2>. QED
    BY <1>3, <2>1 DEF SameWork, Settled
<1>. QED
  BY <1>1, <1>2, <1>3

\* The locals after Go.
Through(local) == FoldLeft(LAMBDA m, i : NextLoop(m), local, <<1, 2, 3, 4, 5>>)

\* Go leaves the handler's work as it is.
LEMMA GoKeeps ==
  ASSUME NEW local, NEW fails, Good(local, fails)
  PROVE  Good(Through(local), fails) /\ Settled(Through(local)) /\ SameWork(Through(local), local)
<1> DEFINE turns == <<1, 2, 3, 4, 5>>
           Held(n) == {m \in Locals : /\ Ordered(m) /\ Collected(m) /\ SameWork(m, local)
                                      /\ n > 0 => Settled(m)}
           Ok == [n \in 0 .. 5 |-> Held(n)]
<1>1. local \in Ok[0]
  BY DEF Good, SameWork
<1>2. ASSUME NEW n \in 1 .. 5, NEW m \in Ok[n - 1] PROVE NextLoopOf(m, turns[n]) \in Ok[n]
  <2>1. n - 1 \in 0 .. 5 /\ n \in 0 .. 5
    OBVIOUS
  <2>2. m \in Locals /\ Ordered(m) /\ Collected(m) /\ SameWork(m, local)
    BY <1>2, <2>1
  <2> DEFINE t == NextLoop(m)
  <2>3. t \in Locals /\ Ordered(t) /\ Collected(t) /\ SameWork(t, m) /\ Settled(t)
    BY <2>2, NextLoopKeeps
  <2> HIDE DEF t
  <2>4. SameWork(t, local)
    BY <2>2, <2>3 DEF SameWork
  <2>5. t \in Ok[n]
    BY <2>1, <2>3, <2>4
  <2>. QED
    BY <2>5 DEF NextLoopOf, t
<1>3. DOMAIN turns = 1 .. 5 /\ 5 \in Nat
  OBVIOUS
<1>4. Loops!Fold(local, turns) \in Ok[5]
  <2> HIDE DEF Ok, turns
  <2>. QED
    BY <1>1, <1>2, <1>3, Loops!FoldStays
<1>5. Through(local) = Loops!Fold(local, turns)
  BY DEF Through, Loops!Fold, FoldLeft, Loops!MapThenFoldSet, MapThenFoldSet, Max, Loops!Latest, NextLoopOf
<1> DEFINE t == Through(local)
<1>6. t \in Locals /\ Ordered(t) /\ Collected(t) /\ SameWork(t, local) /\ Settled(t)
  <2>1. t \in Held(5)
    BY <1>4, <1>5
  <2>. QED
    BY <2>1
<1> HIDE DEF t
<1>7. Answered(t, fails)
  BY <1>6 DEF Good, Answered, SameWork
<1>. QED
  BY <1>6, <1>7 DEF Good, t

-----------------------------------------------------------------------------
\* The answers of a batch, counted.

\* The elements of a sequence with one more.
LEMMA AppendFacts ==
  ASSUME NEW S, NEW s \in Seq(S), NEW x \in S
  PROVE  /\ Append(s, x) \in Seq(S) /\ Len(Append(s, x)) = Len(s) + 1 /\ Len(s) \in Nat
         /\ \A i \in 1 .. Len(s) : Append(s, x)[i] = s[i]
         /\ Append(s, x)[Len(s) + 1] = x
         /\ ToSet(Append(s, x)) = ToSet(s) \cup {x}
<1> DEFINE t == Append(s, x)  L == Len(s)
<1>1. /\ t \in Seq(S) /\ Len(t) = L + 1 /\ L \in Nat /\ t[L + 1] = x
      /\ \A i \in 1 .. L : t[i] = s[i]
  OBVIOUS
<1> HIDE DEF t
<1>2. DOMAIN t = 1 .. L + 1 /\ DOMAIN s = 1 .. L
  BY <1>1
<1>3. ToSet(t) = {t[i] : i \in 1 .. L + 1} /\ ToSet(s) = {s[i] : i \in 1 .. L}
  BY <1>2 DEF ToSet
<1> HIDE DEF L
<1>4. ASSUME NEW y \in ToSet(t) PROVE y \in ToSet(s) \cup {x}
  <2>1. PICK i \in 1 .. L + 1 : y = t[i]
    BY <1>3
  <2>2. i \in 1 .. L \/ i = L + 1
    BY <1>1
  <2>. QED
    BY <1>1, <1>3, <2>1, <2>2
<1>5. ASSUME NEW y \in ToSet(s) PROVE y \in ToSet(t)
  <2>1. PICK i \in 1 .. L : y = s[i]
    BY <1>3
  <2>2. i \in 1 .. L + 1
    BY <1>1
  <2>. QED
    BY <1>1, <1>3, <2>1, <2>2
<1>6. x \in ToSet(t)
  <2>1. L + 1 \in 1 .. L + 1
    BY <1>1
  <2>. QED
    BY <1>1, <1>3, <2>1
<1>7. ToSet(t) = ToSet(s) \cup {x}
  BY <1>4, <1>5, <1>6
<1>. QED
  BY <1>1, <1>7 DEF t, L

\* The list under a key of a map.
LEMMA ListTyped ==
  ASSUME NEW K, NEW S, NEW f \in Partial(K, Seq(S)), NEW x
  PROVE  ListOf(f, x) \in Seq(S) /\ Len(ListOf(f, x)) \in Nat
<1>1. ListOf(f, x) \in Seq(S)
  BY DEF Partial, ListOf
<1>. QED
  BY <1>1

\* Extend appends to one list.
Extended(g, f, x, e) ==
    /\ DOMAIN g = DOMAIN f \cup {x}
    /\ ListOf(g, x) = Append(ListOf(f, x), e) /\ \A y : y # x => ListOf(g, y) = ListOf(f, y)
    /\ g[x] = Append(ListOf(f, x), e) /\ \A y \in DOMAIN f : y # x => g[y] = f[y]

\* Appending to the list of a key keeps the type of the map and touches no other
\* list.
LEMMA ExtendFacts ==
  ASSUME NEW K, NEW S, NEW f \in Partial(K, Seq(S)), NEW x \in K, NEW e \in S
  PROVE  Extend(f, x, e) \in Partial(K, Seq(S)) /\ Extended(Extend(f, x, e), f, x, e)
<1> DEFINE list == Append(ListOf(f, x), e)
           g == [y \in DOMAIN f \cup {x} |-> IF y = x THEN list ELSE f[y]]
<1>1. list \in Seq(S) /\ DOMAIN f \subseteq K /\ \A y \in DOMAIN f : f[y] \in Seq(S)
  <2>1. ListOf(f, x) \in Seq(S)
    BY ListTyped
  <2>. QED
    BY <2>1 DEF Partial
<1>2. Extend(f, x, e) = g
  <2>1. (IF x \in DOMAIN f THEN Append(f[x], e) ELSE <<e>>) = list
    <3>1. Append(<< >>, e) = <<e>>
      OBVIOUS
    <3>. QED
      BY <3>1 DEF ListOf
  <2> HIDE DEF list
  <2>. QED
    BY <2>1 DEF Extend, With
<1> HIDE DEF list
<1>3. g \in [DOMAIN f \cup {x} -> Seq(S)] /\ DOMAIN f \cup {x} \in SUBSET K
  BY <1>1
<1>4. g \in Partial(K, Seq(S))
  BY <1>3 DEF Partial
<1>5. ListOf(g, x) = list /\ \A y : y # x => ListOf(g, y) = ListOf(f, y)
  BY DEF ListOf
<1>. QED
  BY <1>2, <1>4, <1>5 DEF list, Extended

\* The reads among the first requests.
LEMMA ReadsFacts ==
  ASSUME NEW batch, NEW n \in Nat, NEW rid
  PROVE  /\ IsFiniteSet(ReadsBy(batch, n, rid)) /\ Cardinality(ReadsBy(batch, n, rid)) \in Nat
         /\ IsFiniteSet(SureBy(batch, n, rid)) /\ Cardinality(SureBy(batch, n, rid)) \in Nat
         /\ n + 1 \notin ReadsBy(batch, n, rid) /\ n + 1 \notin SureBy(batch, n, rid)
         /\ ReadsBy(batch, n, rid) \subseteq ReadsBy(batch, n + 1, rid)
         /\ ReadsBy(batch, n + 1, rid) =
               IF Reads(batch[n + 1]) /\ batch[n + 1].rid = rid
               THEN ReadsBy(batch, n, rid) \cup {n + 1} ELSE ReadsBy(batch, n, rid)
         /\ SureBy(batch, n + 1, rid) =
               IF Reads(batch[n + 1]) /\ batch[n + 1].rid = rid /\ batch[n + 1].key \in InEtcd
               THEN SureBy(batch, n, rid) \cup {n + 1} ELSE SureBy(batch, n, rid)
<1>1. IsFiniteSet(1 .. n) /\ n + 1 \notin 1 .. n
  BY FS_Interval
<1>2. ReadsBy(batch, n, rid) \in SUBSET (1 .. n) /\ SureBy(batch, n, rid) \in SUBSET (1 .. n)
  BY DEF ReadsBy, SureBy
<1>3. IsFiniteSet(ReadsBy(batch, n, rid)) /\ IsFiniteSet(SureBy(batch, n, rid))
  BY <1>1, <1>2, FS_Subset
<1>4. \A i : i \in 1 .. n + 1 <=> i \in 1 .. n \/ i = n + 1
  OBVIOUS
<1>5. ReadsBy(batch, n + 1, rid) =
               IF Reads(batch[n + 1]) /\ batch[n + 1].rid = rid
               THEN ReadsBy(batch, n, rid) \cup {n + 1} ELSE ReadsBy(batch, n, rid)
  BY <1>4 DEF ReadsBy
<1>6. SureBy(batch, n + 1, rid) =
               IF Reads(batch[n + 1]) /\ batch[n + 1].rid = rid /\ batch[n + 1].key \in InEtcd
               THEN SureBy(batch, n, rid) \cup {n + 1} ELSE SureBy(batch, n, rid)
  BY <1>5 DEF SureBy
<1>. QED
  BY <1>1, <1>2, <1>3, <1>5, <1>6, FS_CardinalityType

\* The reads that wait, one by one.
LEMMA WaitingIs ==
  ASSUME NEW dedup, NEW K, NEW rid
  PROVE  \A p : p \in Waiting(dedup, K, rid) <=>
            \E k \in K : \E j \in DOMAIN dedup[k] :
               p = <<k, j>> /\ dedup[k][j].needResp /\ dedup[k][j].rid = rid
<1> SUFFICES ASSUME NEW p
             PROVE  p \in Waiting(dedup, K, rid) <=>
                      \E k \in K : \E j \in DOMAIN dedup[k] :
                         p = <<k, j>> /\ dedup[k][j].needResp /\ dedup[k][j].rid = rid
  OBVIOUS
<1>1. p \in UNION {{k} \X DOMAIN dedup[k] : k \in K} <=> \E k \in K : p \in {k} \X DOMAIN dedup[k]
  OBVIOUS
<1>2. ASSUME NEW k \in K
      PROVE  p \in {k} \X DOMAIN dedup[k] <=> \E j \in DOMAIN dedup[k] : p = <<k, j>>
  OBVIOUS
<1>3. ASSUME NEW k, NEW j, p = <<k, j>> PROVE p[1] = k /\ p[2] = j
  BY <1>3
<1>. QED
  BY <1>1, <1>2, <1>3 DEF Waiting

\* A request without a read changes nothing.
LEMMA NoRead ==
  ASSUME NEW rid, NEW batch, NEW n \in Nat, NEW resp, NEW dedup, NEW K, NEW fails,
         AnsweredTo(rid, batch, n, resp, dedup, K, fails), ~Reads(batch[n + 1])
  PROVE  AnsweredTo(rid, batch, n + 1, resp, dedup, K, fails)
<1>1. /\ ReadsBy(batch, n + 1, rid) = ReadsBy(batch, n, rid)
      /\ SureBy(batch, n + 1, rid) = SureBy(batch, n, rid)
  BY ReadsFacts
<1>. QED
  BY <1>1 DEF AnsweredTo

\* The answers' number.
LEMMA AnsweredNumbers ==
  ASSUME NEW rid \in Rids, NEW batch, NEW n \in Nat, NEW resp \in Partial(Rids, Seq(Values)), NEW dedup, NEW K,
         NEW fails, AnsweredTo(rid, batch, n, resp, dedup, K, fails)
  PROVE  /\ Cardinality(Waiting(dedup, K, rid)) \in Nat
         /\ IsFiniteSet(Waiting(dedup, K \cap InEtcd, rid))
         /\ Cardinality(Waiting(dedup, K \cap InEtcd, rid)) \in Nat
         /\ Len(ListOf(resp, rid)) \in Nat /\ ListOf(resp, rid) \in Seq(Values)
<1>1. Waiting(dedup, K \cap InEtcd, rid) \subseteq Waiting(dedup, K, rid)
  BY WaitingIs
<1>2. IsFiniteSet(Waiting(dedup, K, rid))
  BY DEF AnsweredTo
<1>3. IsFiniteSet(Waiting(dedup, K \cap InEtcd, rid))
  BY <1>1, <1>2, FS_Subset
<1>. QED
  BY <1>2, <1>3, FS_CardinalityType, ListTyped

\* A read that the cache serves.
LEMMA ReadHit ==
  ASSUME NEW rid \in Rids, NEW batch, NEW n \in Nat, NEW resp \in Partial(Rids, Seq(Values)), NEW dedup, NEW K,
         NEW fails, AnsweredTo(rid, batch, n, resp, dedup, K, fails),
         NEW r, r = batch[n + 1], Reads(r), r.rid \in Rids, NEW v \in Values, v[1] = r.key
  PROVE  AnsweredTo(rid, batch, n + 1, Extend(resp, r.rid, v), dedup, K, fails)
<1>1. /\ Cardinality(Waiting(dedup, K, rid)) \in Nat /\ Cardinality(Waiting(dedup, K \cap InEtcd, rid)) \in Nat
      /\ Len(ListOf(resp, rid)) \in Nat /\ ListOf(resp, rid) \in Seq(Values)
  BY AnsweredNumbers
<1> DEFINE resp2 == Extend(resp, r.rid, v)  R == ReadsBy(batch, n, rid)  R2 == ReadsBy(batch, n + 1, rid)
           S == SureBy(batch, n, rid)  S2 == SureBy(batch, n + 1, rid)
<1>2. ListOf(resp2, rid) = IF rid = r.rid THEN Append(ListOf(resp, rid), v) ELSE ListOf(resp, rid)
  <2>1. Extended(Extend(resp, r.rid, v), resp, r.rid, v)
    BY ExtendFacts
  <2>. QED
    BY <2>1 DEF Extended
<1> HIDE DEF resp2
<1>3. /\ R \subseteq R2 /\ Cardinality(R) \in Nat /\ Cardinality(S) \in Nat
      /\ Cardinality(R2) \in Nat /\ Cardinality(S2) \in Nat
      /\ rid = r.rid => n + 1 \in R2 /\ Cardinality(R2) = Cardinality(R) + 1 /\ Cardinality(S2) <= Cardinality(S) + 1
      /\ rid # r.rid => R2 = R /\ S2 = S
  <2>1. /\ IsFiniteSet(R) /\ Cardinality(R) \in Nat /\ IsFiniteSet(S) /\ Cardinality(S) \in Nat
        /\ n + 1 \notin R /\ n + 1 \notin S
    BY ReadsFacts
  <2>2. /\ R2 = IF rid = r.rid THEN R \cup {n + 1} ELSE R
        /\ S2 = IF rid = r.rid /\ r.key \in InEtcd THEN S \cup {n + 1} ELSE S
    <3>1. R2 = IF Reads(batch[n + 1]) /\ batch[n + 1].rid = rid THEN R \cup {n + 1} ELSE R
      <4>1. \A i : i \in 1 .. n + 1 <=> i \in 1 .. n \/ i = n + 1
        OBVIOUS
      <4>. QED
        BY <4>1 DEF ReadsBy
    <3>2. S2 = IF Reads(batch[n + 1]) /\ batch[n + 1].rid = rid /\ batch[n + 1].key \in InEtcd
               THEN S \cup {n + 1} ELSE S
      BY <3>1 DEF SureBy
    <3> HIDE DEF R, S, R2, S2
    <3>. QED
      BY <3>1, <3>2
  <2> HIDE DEF R, S, R2, S2
  <2>3. Cardinality(R \cup {n + 1}) = Cardinality(R) + 1 /\ Cardinality(S \cup {n + 1}) = Cardinality(S) + 1
    BY <2>1, FS_AddElement
  <2>. QED
    BY <2>1, <2>2, <2>3
<1>4. Len(ListOf(resp2, rid)) = Len(ListOf(resp, rid)) + (IF rid = r.rid THEN 1 ELSE 0)
  BY <1>1, <1>2, AppendFacts
<1>5. \A u \in ToSet(ListOf(resp2, rid)) : u \in ToSet(ListOf(resp, rid)) \/ (rid = r.rid /\ u = v)
  BY <1>1, <1>2, AppendFacts
<1>6. \A u \in ToSet(ListOf(resp2, rid)) : \E i \in R2 : u[1] = batch[i].key
  <2> SUFFICES ASSUME NEW u \in ToSet(ListOf(resp2, rid)) PROVE \E i \in R2 : u[1] = batch[i].key
    OBVIOUS
  <2>1. CASE u \in ToSet(ListOf(resp, rid))
    BY <1>3, <2>1 DEF AnsweredTo
  <2>2. CASE rid = r.rid /\ u = v
    BY <1>3, <2>2
  <2>. QED
    BY <1>5, <2>1, <2>2
<1>7. \A p \in Waiting(dedup, K, rid) : \E i \in R2 : p[1] = batch[i].key
  BY <1>3 DEF AnsweredTo
<1>8. /\ IsFiniteSet(Waiting(dedup, K, rid))
      /\ Len(ListOf(resp, rid)) + Cardinality(Waiting(dedup, K, rid)) <= Cardinality(R)
      /\ fails = 0 => Len(ListOf(resp, rid)) + Cardinality(Waiting(dedup, K \cap InEtcd, rid)) >= Cardinality(S)
  BY DEF AnsweredTo
<1> HIDE DEF R, S, R2, S2
<1>9. Len(ListOf(resp2, rid)) + Cardinality(Waiting(dedup, K, rid)) <= Cardinality(R2)
  BY <1>1, <1>3, <1>4, <1>8, SMTT(30)
<1>10. fails = 0 => Len(ListOf(resp2, rid)) + Cardinality(Waiting(dedup, K \cap InEtcd, rid)) >= Cardinality(S2)
  BY <1>1, <1>3, <1>4, <1>8, SMTT(30)
<1>. QED
  BY <1>6, <1>7, <1>8, <1>9, <1>10 DEF AnsweredTo, resp2, R2, S2

\* One more element, in some cases.
LEMMA CountNext ==
  ASSUME NEW S, IsFiniteSet(S), NEW x, x \notin S, NEW T, NEW more \in BOOLEAN,
         T = IF more THEN S \cup {x} ELSE S
  PROVE  /\ IsFiniteSet(T) /\ Cardinality(S) \in Nat
         /\ Cardinality(T) = Cardinality(S) + (IF more THEN 1 ELSE 0)
<1>1. Cardinality(S) \in Nat
  BY FS_CardinalityType
<1>2. CASE more
  <2>1. T = S \cup {x}
    BY <1>2
  <2>. QED
    BY <1>1, <1>2, <2>1, FS_AddElement
<1>3. CASE ~more
  <2>1. T = S
    BY <1>3
  <2>. QED
    BY <1>1, <1>3, <2>1
<1>. QED
  BY <1>2, <1>3

\* A request that joins the list of its key.
Joined(dedup, k, q, E, rid) ==
    LET dedup2 == Extend(dedup, k, q)
        W  == Waiting(dedup, DOMAIN dedup \cap E, rid)
        W2 == Waiting(dedup2, DOMAIN dedup2 \cap E, rid)
        p  == <<k, Len(ListOf(dedup, k)) + 1>>
    IN  /\ p \notin W
        /\ W2 = IF q.needResp /\ q.rid = rid /\ k \in E THEN W \cup {p} ELSE W

\* The requests that wait for their keys are one more, and none if the request
\* wants no answer.
LEMMA WaitingNext ==
  ASSUME NEW rid, NEW dedup \in Partial(Keys, Seq(MissedReqs)), NEW k \in Keys, NEW q \in MissedReqs, NEW E
  PROVE  Joined(dedup, k, q, E, rid)
<1> DEFINE dedup2 == Extend(dedup, k, q)
           W  == Waiting(dedup, DOMAIN dedup \cap E, rid)
           W2 == Waiting(dedup2, DOMAIN dedup2 \cap E, rid)
           L  == Len(ListOf(dedup, k))
           p  == <<k, L + 1>>
<1>1. /\ DOMAIN dedup2 = DOMAIN dedup \cup {k} /\ dedup2[k] = Append(ListOf(dedup, k), q)
      /\ \A y \in DOMAIN dedup : y # k => dedup2[y] = dedup[y]
  <2>1. Extended(Extend(dedup, k, q), dedup, k, q)
    BY ExtendFacts
  <2>. QED
    BY <2>1 DEF Extended
<1>2. ListOf(dedup, k) \in Seq(MissedReqs) /\ L \in Nat
  BY ListTyped
<1> HIDE DEF dedup2
<1>3. /\ DOMAIN ListOf(dedup, k) = 1 .. L /\ DOMAIN dedup2[k] = 1 .. L + 1
      /\ dedup2[k][L + 1] = q /\ \A j \in 1 .. L : dedup2[k][j] = ListOf(dedup, k)[j]
  BY <1>1, <1>2
<1>4. k \in DOMAIN dedup => ListOf(dedup, k) = dedup[k]
  BY DEF ListOf
<1>5. k \notin DOMAIN dedup => L = 0
  BY DEF ListOf
<1> HIDE DEF L
<1>6. p \notin W
  <2> SUFFICES ASSUME p \in W PROVE FALSE
    OBVIOUS
  <2>1. PICK l \in DOMAIN dedup \cap E : \E j \in DOMAIN dedup[l] : p = <<l, j>>
    BY WaitingIs
  <2>2. PICK j \in DOMAIN dedup[l] : p = <<l, j>>
    BY <2>1
  <2>3. l = k /\ j = L + 1
    BY <2>2
  <2>. QED
    BY <1>2, <1>3, <1>4, <2>1, <2>2, <2>3
<1>7. ASSUME NEW w \in W PROVE w \in W2
  <2>1. PICK l, j : l \in DOMAIN dedup \cap E /\ j \in DOMAIN dedup[l] /\
           w = <<l, j>> /\ dedup[l][j].needResp /\ dedup[l][j].rid = rid
    BY WaitingIs
  <2>2. l \in DOMAIN dedup2 \cap E /\ j \in DOMAIN dedup2[l] /\ dedup2[l][j] = dedup[l][j]
    <3>1. CASE l = k
      <4>1. j \in 1 .. L /\ dedup[k] = ListOf(dedup, k)
        BY <1>3, <1>4, <2>1, <3>1
      <4>2. j \in 1 .. L + 1
        BY <1>2, <4>1
      <4>. QED
        BY <1>1, <1>3, <2>1, <3>1, <4>1, <4>2
    <3>2. CASE l # k
      BY <1>1, <2>1, <3>2
    <3>. QED
      BY <3>1, <3>2
  <2>. QED
    BY <2>1, <2>2, WaitingIs
<1>8. ASSUME NEW w \in W2 PROVE w \in W \/ (w = p /\ q.needResp /\ q.rid = rid /\ k \in E)
  <2>1. PICK l, j : l \in DOMAIN dedup2 \cap E /\ j \in DOMAIN dedup2[l] /\
           w = <<l, j>> /\ dedup2[l][j].needResp /\ dedup2[l][j].rid = rid
    BY WaitingIs
  <2>2. CASE l # k
    <3>1. l \in DOMAIN dedup \cap E /\ dedup2[l] = dedup[l]
      BY <1>1, <2>1, <2>2
    <3>. QED
      BY <2>1, <3>1, WaitingIs
  <2>3. CASE l = k /\ j = L + 1
    BY <1>3, <2>1, <2>3
  <2>4. CASE l = k /\ j # L + 1
    <3>1. j \in 1 .. L /\ k \in DOMAIN dedup
      <4>1. j \in 1 .. L + 1
        BY <1>3, <2>1, <2>4
      <4>2. j \in 1 .. L
        BY <1>2, <2>4, <4>1
      <4>. QED
        BY <1>5, <4>2
    <3>2. dedup2[l][j] = dedup[k][j] /\ j \in DOMAIN dedup[k] /\ k \in DOMAIN dedup \cap E
      BY <1>3, <1>4, <2>1, <2>4, <3>1
    <3>. QED
      BY <2>1, <2>4, <3>2, WaitingIs
  <2>. QED
    BY <2>2, <2>3, <2>4
<1>9. q.needResp /\ q.rid = rid /\ k \in E => p \in W2
  <2> SUFFICES ASSUME q.needResp, q.rid = rid, k \in E PROVE p \in W2
    OBVIOUS
  <2>1. k \in DOMAIN dedup2 \cap E /\ L + 1 \in DOMAIN dedup2[k]
    BY <1>1, <1>2, <1>3
  <2>. QED
    BY <1>3, <2>1, WaitingIs
<1>10. W2 = IF q.needResp /\ q.rid = rid /\ k \in E THEN W \cup {p} ELSE W
  <2> HIDE DEF W, W2, p
  <2>. QED
    BY <1>7, <1>8, <1>9
<1>. QED
  BY <1>6, <1>10 DEF dedup2, L, Joined

\* What joins a list without asking for an answer.
LEMMA WriteMissed ==
  ASSUME NEW rid \in Rids, NEW batch, NEW n \in Nat, NEW resp \in Partial(Rids, Seq(Values)),
         NEW dedup \in Partial(Keys, Seq(MissedReqs)), NEW fails,
         AnsweredTo(rid, batch, n, resp, dedup, DOMAIN dedup, fails),
         NEW k \in Keys, NEW q \in MissedReqs, ~q.needResp
  PROVE  AnsweredTo(rid, batch, n, resp, Extend(dedup, k, q), DOMAIN Extend(dedup, k, q), fails)
<1> DEFINE dedup2 == Extend(dedup, k, q)
<1>1. ASSUME NEW E
      PROVE  Waiting(dedup2, DOMAIN dedup2 \cap E, rid) = Waiting(dedup, DOMAIN dedup \cap E, rid)
  <2>1. Joined(dedup, k, q, E, rid)
    BY WaitingNext
  <2>. QED
    BY <2>1 DEF Joined
<1>2. DOMAIN dedup2 \cap DOMAIN dedup2 = DOMAIN dedup2
  OBVIOUS
<1>3. Waiting(dedup2, DOMAIN dedup2, rid) = Waiting(dedup, DOMAIN dedup, rid)
  <2>1. Extended(dedup2, dedup, k, q)
    BY ExtendFacts
  <2>2. DOMAIN dedup \cap DOMAIN dedup2 = DOMAIN dedup
    BY <2>1 DEF Extended
  <2> HIDE DEF dedup2
  <2>. QED
    BY <1>1, <1>2, <2>2
<1> HIDE DEF dedup2
<1>. QED
  BY <1>1, <1>3 DEF AnsweredTo, dedup2

\* A read that waits for etcd.
LEMMA ReadMissed ==
  ASSUME NEW rid \in Rids, NEW batch, NEW n \in Nat, NEW resp \in Partial(Rids, Seq(Values)),
         NEW dedup \in Partial(Keys, Seq(MissedReqs)), NEW fails,
         AnsweredTo(rid, batch, n, resp, dedup, DOMAIN dedup, fails),
         NEW r, r = batch[n + 1], Reads(r), r.key \in Keys,
         NEW q \in MissedReqs, q.needResp, q.rid = r.rid
  PROVE  AnsweredTo(rid, batch, n + 1, resp, Extend(dedup, r.key, q), DOMAIN Extend(dedup, r.key, q), fails)
<1> DEFINE dedup2 == Extend(dedup, r.key, q)
           p == <<r.key, Len(ListOf(dedup, r.key)) + 1>>
           W(E)  == Waiting(dedup, DOMAIN dedup \cap E, rid)
           W2(E) == Waiting(dedup2, DOMAIN dedup2 \cap E, rid)
           R == ReadsBy(batch, n, rid)  R2 == ReadsBy(batch, n + 1, rid)
           S == SureBy(batch, n, rid)  S2 == SureBy(batch, n + 1, rid)
<1>1. ASSUME NEW E PROVE p \notin W(E) /\ W2(E) = IF r.rid = rid /\ r.key \in E THEN W(E) \cup {p} ELSE W(E)
  <2>1. Joined(dedup, r.key, q, E, rid)
    BY WaitingNext
  <2>. QED
    BY <2>1 DEF Joined
<1>2. DOMAIN dedup2 = DOMAIN dedup \cup {r.key}
  <2>1. Extended(dedup2, dedup, r.key, q)
    BY ExtendFacts
  <2>. QED
    BY <2>1 DEF Extended
<1>3. /\ DOMAIN dedup2 \cap DOMAIN dedup2 = DOMAIN dedup2 /\ DOMAIN dedup \cap DOMAIN dedup2 = DOMAIN dedup
      /\ r.key \in DOMAIN dedup2
  BY <1>2
<1>4. p \notin Waiting(dedup, DOMAIN dedup, rid)
      /\ Waiting(dedup2, DOMAIN dedup2, rid) =
            IF r.rid = rid THEN Waiting(dedup, DOMAIN dedup, rid) \cup {p} ELSE Waiting(dedup, DOMAIN dedup, rid)
  <2> HIDE DEF p, dedup2
  <2>. QED
    BY <1>1, <1>3
<1>5. /\ IsFiniteSet(Waiting(dedup, DOMAIN dedup, rid)) /\ Cardinality(Waiting(dedup, DOMAIN dedup, rid)) \in Nat
      /\ IsFiniteSet(W(InEtcd)) /\ Cardinality(W(InEtcd)) \in Nat /\ Len(ListOf(resp, rid)) \in Nat
  <2>1. IsFiniteSet(Waiting(dedup, DOMAIN dedup, rid))
    BY DEF AnsweredTo
  <2>. QED
    BY <2>1, AnsweredNumbers
<1>6. /\ IsFiniteSet(R) /\ Cardinality(R) \in Nat /\ IsFiniteSet(S) /\ Cardinality(S) \in Nat
      /\ n + 1 \notin R /\ n + 1 \notin S /\ R \subseteq R2
  BY ReadsFacts
<1>7. R2 = IF r.rid = rid THEN R \cup {n + 1} ELSE R
  <2>1. \A i : i \in 1 .. n + 1 <=> i \in 1 .. n \/ i = n + 1
    OBVIOUS
  <2>. QED
    BY <2>1 DEF ReadsBy
<1>8. S2 = IF r.rid = rid /\ r.key \in InEtcd THEN S \cup {n + 1} ELSE S
  <2>1. S2 = {i \in R2 : batch[i].key \in InEtcd} /\ S = {i \in R : batch[i].key \in InEtcd}
    BY DEF SureBy
  <2> HIDE DEF R, R2, S, S2
  <2>. QED
    BY <1>7, <2>1
<1>9. /\ Len(ListOf(resp, rid)) + Cardinality(Waiting(dedup, DOMAIN dedup, rid)) <= Cardinality(R)
      /\ fails = 0 => Len(ListOf(resp, rid)) + Cardinality(W(InEtcd)) >= Cardinality(S)
      /\ \A v \in ToSet(ListOf(resp, rid)) : \E i \in R : v[1] = batch[i].key
      /\ \A x \in Waiting(dedup, DOMAIN dedup, rid) : \E i \in R : x[1] = batch[i].key
  BY DEF AnsweredTo
<1>10. /\ IsFiniteSet(Waiting(dedup2, DOMAIN dedup2, rid))
       /\ Cardinality(Waiting(dedup2, DOMAIN dedup2, rid)) =
             Cardinality(Waiting(dedup, DOMAIN dedup, rid)) + (IF r.rid = rid THEN 1 ELSE 0)
  <2> DEFINE V == Waiting(dedup, DOMAIN dedup, rid)  V2 == Waiting(dedup2, DOMAIN dedup2, rid)
  <2>1. IsFiniteSet(V) /\ p \notin V /\ V2 = (IF r.rid = rid THEN V \cup {p} ELSE V)
    BY <1>4, <1>5
  <2> HIDE DEF V, V2, p
  <2>2. IsFiniteSet(V2) /\ Cardinality(V2) = Cardinality(V) + (IF r.rid = rid THEN 1 ELSE 0)
    <3>1. PICK more \in BOOLEAN : more <=> r.rid = rid
      OBVIOUS
    <3>2. V2 = IF more THEN V \cup {p} ELSE V
      BY <2>1, <3>1
    <3>3. IsFiniteSet(V2) /\ Cardinality(V2) = Cardinality(V) + (IF more THEN 1 ELSE 0)
      BY <2>1, <3>2, CountNext
    <3>. QED
      BY <3>1, <3>3
  <2>. QED
    BY <2>2 DEF V, V2
<1>11. Cardinality(W2(InEtcd)) = Cardinality(W(InEtcd)) + (IF r.rid = rid /\ r.key \in InEtcd THEN 1 ELSE 0)
  <2>1. p \notin W(InEtcd) /\ W2(InEtcd) = IF r.rid = rid /\ r.key \in InEtcd THEN W(InEtcd) \cup {p} ELSE W(InEtcd)
    BY <1>1
  <2>2. IsFiniteSet(W(InEtcd))
    BY <1>5
  <2>3. PICK more \in BOOLEAN : more <=> r.rid = rid /\ r.key \in InEtcd
    OBVIOUS
  <2> HIDE DEF W, W2, p
  <2>4. W2(InEtcd) = IF more THEN W(InEtcd) \cup {p} ELSE W(InEtcd)
    BY <2>1, <2>3
  <2>5. Cardinality(W2(InEtcd)) = Cardinality(W(InEtcd)) + (IF more THEN 1 ELSE 0)
    BY <2>1, <2>2, <2>4, CountNext
  <2>. QED
    BY <2>3, <2>5
<1>12. Cardinality(R2) = Cardinality(R) + (IF r.rid = rid THEN 1 ELSE 0)
  <2> HIDE DEF R, R2
  <2>1. PICK more \in BOOLEAN : more <=> r.rid = rid
    OBVIOUS
  <2>2. R2 = IF more THEN R \cup {n + 1} ELSE R
    BY <1>7, <2>1
  <2>3. Cardinality(R2) = Cardinality(R) + (IF more THEN 1 ELSE 0)
    BY <1>6, <2>2, CountNext
  <2>. QED
    BY <2>1, <2>3
<1>13. Cardinality(S2) = Cardinality(S) + (IF r.rid = rid /\ r.key \in InEtcd THEN 1 ELSE 0)
  <2>1. (r.rid = rid /\ r.key \in InEtcd) \in BOOLEAN
    OBVIOUS
  <2> HIDE DEF S, S2
  <2>. QED
    BY <1>6, <1>8, <2>1, CountNext
<1>14. \A v \in ToSet(ListOf(resp, rid)) : \E i \in R2 : v[1] = batch[i].key
  BY <1>6, <1>9
<1>15. \A x \in Waiting(dedup2, DOMAIN dedup2, rid) : \E i \in R2 : x[1] = batch[i].key
  <2> SUFFICES ASSUME NEW x \in Waiting(dedup2, DOMAIN dedup2, rid) PROVE \E i \in R2 : x[1] = batch[i].key
    OBVIOUS
  <2>1. CASE x \in Waiting(dedup, DOMAIN dedup, rid)
    BY <1>6, <1>9, <2>1
  <2>2. CASE x = p /\ r.rid = rid
    <3>1. n + 1 \in R2
      BY <1>7, <2>2
    <3>2. x[1] = r.key
      BY <2>2
    <3>. QED
      BY <3>1, <3>2
  <2>. QED
    BY <1>4, <2>1, <2>2
<1> HIDE DEF R, R2, S, S2, dedup2, p
<1>16. Len(ListOf(resp, rid)) + Cardinality(Waiting(dedup2, DOMAIN dedup2, rid)) <= Cardinality(R2)
  BY <1>5, <1>6, <1>9, <1>10, <1>12
<1>17. fails = 0 => Len(ListOf(resp, rid)) + Cardinality(W2(InEtcd)) >= Cardinality(S2)
  <2> HIDE DEF W, W2
  <2>. QED
    BY <1>5, <1>6, <1>9, <1>11, <1>13
<1>. QED
  BY <1>10, <1>14, <1>15, <1>16, <1>17 DEF AnsweredTo, R2, S2, dedup2

\* Fewer keys wait, and none that etcd is sure to have is given up.
LEMMA NarrowWait ==
  ASSUME NEW rid \in Rids, NEW batch, NEW n \in Nat, NEW resp \in Partial(Rids, Seq(Values)),
         NEW dedup, NEW K, NEW fails, AnsweredTo(rid, batch, n, resp, dedup, K, fails),
         NEW K2 \in SUBSET K, NEW fails2, fails2 = 0 => fails = 0 /\ K2 \cap InEtcd = K \cap InEtcd
  PROVE  AnsweredTo(rid, batch, n, resp, dedup, K2, fails2)
<1>1. Waiting(dedup, K2, rid) \subseteq Waiting(dedup, K, rid)
  BY WaitingIs
<1>2. IsFiniteSet(Waiting(dedup, K, rid))
  BY DEF AnsweredTo
<1>3. /\ IsFiniteSet(Waiting(dedup, K2, rid)) /\ Cardinality(Waiting(dedup, K2, rid)) \in Nat
      /\ Cardinality(Waiting(dedup, K, rid)) \in Nat
      /\ Cardinality(Waiting(dedup, K2, rid)) <= Cardinality(Waiting(dedup, K, rid))
  BY <1>1, <1>2, FS_Subset, FS_CardinalityType
<1>4. Cardinality(ReadsBy(batch, n, rid)) \in Nat /\ Len(ListOf(resp, rid)) \in Nat
  BY ReadsFacts, ListTyped
<1>5. Len(ListOf(resp, rid)) + Cardinality(Waiting(dedup, K2, rid)) <= Cardinality(ReadsBy(batch, n, rid))
  <2>1. Len(ListOf(resp, rid)) + Cardinality(Waiting(dedup, K, rid)) <= Cardinality(ReadsBy(batch, n, rid))
    BY DEF AnsweredTo
  <2>. QED
    BY <1>3, <1>4, <2>1
<1>6. fails2 = 0 => Len(ListOf(resp, rid)) + Cardinality(Waiting(dedup, K2 \cap InEtcd, rid))
                    >= Cardinality(SureBy(batch, n, rid))
  BY DEF AnsweredTo
<1>. QED
  BY <1>1, <1>3, <1>5, <1>6 DEF AnsweredTo

\* The requests of one list that want an answer under rid.
AskedFor(reqs, n, rid) == {j \in 1 .. n : reqs[j].needResp /\ reqs[j].rid = rid}

\* An answer goes to every request of a list.
LEMMA AnswerAllFacts ==
  ASSUME NEW resp \in Partial(Rids, Seq(Values)), NEW reqs \in Seq(MissedReqs), NEW v \in Values
  PROVE  /\ AnswerAll(resp, reqs, v) \in Partial(Rids, Seq(Values))
         /\ \A rid \in Rids :
               /\ IsFiniteSet(AskedFor(reqs, Len(reqs), rid))
               /\ Cardinality(AskedFor(reqs, Len(reqs), rid)) \in Nat
               /\ Len(ListOf(AnswerAll(resp, reqs, v), rid)) =
                     Len(ListOf(resp, rid)) + Cardinality(AskedFor(reqs, Len(reqs), rid))
               /\ \A u \in ToSet(ListOf(AnswerAll(resp, reqs, v), rid)) :
                     u \in ToSet(ListOf(resp, rid)) \/ (u = v /\ AskedFor(reqs, Len(reqs), rid) # {})
<1> DEFINE L == Len(reqs)
           asked == [i \in DOMAIN reqs |-> [rid |-> reqs[i].rid, needResp |-> reqs[i].needResp, val |-> v]]
           Counted(r, n, rid) ==
               /\ IsFiniteSet(AskedFor(reqs, n, rid)) /\ Cardinality(AskedFor(reqs, n, rid)) \in Nat
               /\ Len(ListOf(r, rid)) = Len(ListOf(resp, rid)) + Cardinality(AskedFor(reqs, n, rid))
               /\ \A u \in ToSet(ListOf(r, rid)) :
                     u \in ToSet(ListOf(resp, rid)) \/ (u = v /\ AskedFor(reqs, n, rid) # {})
           Ok == [n \in 0 .. L |-> {r \in Partial(Rids, Seq(Values)) : \A rid \in Rids : Counted(r, n, rid)}]
<1>1. L \in Nat /\ DOMAIN reqs = 1 .. L /\ DOMAIN asked = 1 .. L /\ \A i \in 1 .. L : reqs[i] \in MissedReqs
  OBVIOUS
<1>2. resp \in Ok[0]
  <2>1. ASSUME NEW rid \in Rids PROVE Counted(resp, 0, rid)
    <3>1. AskedFor(reqs, 0, rid) = {}
      BY DEF AskedFor
    <3>2. Len(ListOf(resp, rid)) \in Nat
      BY ListTyped
    <3>3. IsFiniteSet(AskedFor(reqs, 0, rid)) /\ Cardinality(AskedFor(reqs, 0, rid)) = 0
      BY <3>1, FS_EmptySet
    <3>. QED
      BY <3>2, <3>3
  <2>2. 0 \in 0 .. L
    BY <1>1
  <2> HIDE DEF Counted
  <2>. QED
    BY <2>1, <2>2
<1>3. ASSUME NEW n \in 1 .. L, NEW r \in Ok[n - 1] PROVE Answer(r, asked[n]) \in Ok[n]
  <2>1. n - 1 \in 0 .. L /\ n \in 0 .. L /\ n \in Nat /\ n - 1 \in Nat
    BY <1>1
  <2>2. r \in Partial(Rids, Seq(Values)) /\ \A rid \in Rids : Counted(r, n - 1, rid)
    <3> HIDE DEF Counted
    <3>. QED
      BY <2>1
  <2> DEFINE t == Answer(r, asked[n])  q == reqs[n]
  <2>3. q \in MissedReqs /\ asked[n].rid = q.rid /\ asked[n].needResp = q.needResp /\ asked[n].val = v /\ q.rid \in Rids
    BY <1>1 DEF MissedReqs
  <2>4. t = IF q.needResp THEN Extend(r, q.rid, v) ELSE r
    BY <2>3 DEF Answer
  <2>5. t \in Partial(Rids, Seq(Values))
    BY <2>2, <2>3, <2>4, ExtendFacts
  <2> HIDE DEF asked, t, q
  <2>6. ASSUME NEW rid \in Rids PROVE Counted(t, n, rid)
    <3> DEFINE A == AskedFor(reqs, n - 1, rid)  B == AskedFor(reqs, n, rid)
    <3>1. PICK more \in BOOLEAN : more <=> q.needResp /\ q.rid = rid
      OBVIOUS
    <3>2. n \notin A /\ B = IF more THEN A \cup {n} ELSE A
      <4>1. \A j : j \in 1 .. n <=> j \in 1 .. n - 1 \/ j = n
        BY <2>1
      <4>2. n \notin 1 .. n - 1
        BY <2>1
      <4>. QED
        BY <3>1, <4>1, <4>2 DEF AskedFor, q
    <3>3. /\ IsFiniteSet(A) /\ Cardinality(A) \in Nat
          /\ Len(ListOf(r, rid)) = Len(ListOf(resp, rid)) + Cardinality(A)
          /\ \A u \in ToSet(ListOf(r, rid)) : u \in ToSet(ListOf(resp, rid)) \/ (u = v /\ A # {})
      BY <2>2
    <3> HIDE DEF A, B
    <3>4. IsFiniteSet(B) /\ Cardinality(B) = Cardinality(A) + (IF more THEN 1 ELSE 0)
      BY <3>2, <3>3, CountNext, ZenonT(60)
    <3>5. ListOf(t, rid) = IF more THEN Append(ListOf(r, rid), v) ELSE ListOf(r, rid)
      <4>1. CASE ~q.needResp
        BY <2>4, <3>1, <4>1
      <4>2. CASE q.needResp
        <5>1. Extended(t, r, q.rid, v)
          BY <2>2, <2>3, <2>4, <4>2, ExtendFacts
        <5>. QED
          BY <3>1, <4>2, <5>1 DEF Extended
      <4>. QED
        BY <4>1, <4>2
    <3>6. ListOf(r, rid) \in Seq(Values) /\ Len(ListOf(r, rid)) \in Nat /\ Len(ListOf(resp, rid)) \in Nat
      BY <2>2, ListTyped
    <3>7. /\ Len(Append(ListOf(r, rid), v)) = Len(ListOf(r, rid)) + 1
          /\ ToSet(Append(ListOf(r, rid), v)) = ToSet(ListOf(r, rid)) \cup {v}
      BY <3>6, AppendFacts
    <3>8. Len(ListOf(t, rid)) = Len(ListOf(resp, rid)) + Cardinality(B)
      <4>1. CASE more
        BY <3>3, <3>4, <3>5, <3>6, <3>7, <4>1
      <4>2. CASE ~more
        BY <3>3, <3>4, <3>5, <3>6, <4>2
      <4>. QED
        BY <4>1, <4>2
    <3>9. \A u \in ToSet(ListOf(t, rid)) : u \in ToSet(ListOf(resp, rid)) \/ (u = v /\ B # {})
      BY <3>2, <3>3, <3>5, <3>7, SMTT(30)
    <3>10. Cardinality(B) \in Nat
      BY <3>3, <3>4, SMTT(30)
    <3>. QED
      BY <3>4, <3>8, <3>9, <3>10 DEF B
  <2> HIDE DEF Counted
  <2>7. t \in Ok[n]
    BY <2>1, <2>5, <2>6
  <2>. QED
    BY <2>7 DEF t, asked
<1>4. Answers!Fold(resp, asked) \in Ok[L]
  <2> HIDE DEF Ok, asked, L
  <2>. QED
    BY <1>1, <1>2, <1>3, Answers!FoldStays
<1>5. AnswerAll(resp, reqs, v) = Answers!Fold(resp, asked)
  BY DEF AnswerAll, Answers!Fold, FoldLeft, Answers!MapThenFoldSet, MapThenFoldSet, Max, Answers!Latest
<1> DEFINE t == AnswerAll(resp, reqs, v)
<1>6. t \in Partial(Rids, Seq(Values)) /\ \A rid \in Rids : Counted(t, L, rid)
  <2>1. L \in 0 .. L
    BY <1>1
  <2> HIDE DEF Counted, t
  <2>. QED
    BY <1>4, <1>5, <2>1 DEF t
<1> HIDE DEF t
<1>7. ASSUME NEW rid \in Rids PROVE Counted(t, L, rid)
  <2> HIDE DEF Counted
  <2>. QED
    BY <1>6
<1>. QED
  BY <1>6, <1>7 DEF t

\* The answer for k reaches the reads that wait for it.
LEMMA WaitAnswered ==
  ASSUME NEW rid \in Rids, NEW batch, NEW n \in Nat, NEW resp \in Partial(Rids, Seq(Values)),
         NEW dedup \in Partial(Keys, Seq(MissedReqs)), NEW K, NEW fails,
         AnsweredTo(rid, batch, n, resp, dedup, K, fails),
         NEW k \in K \cap DOMAIN dedup, NEW v \in Values, v[1] = k
  PROVE  AnsweredTo(rid, batch, n, AnswerAll(resp, dedup[k], v), dedup, K \ {k}, fails)
<1> DEFINE reqs == dedup[k]
           A == AskedFor(reqs, Len(reqs), rid)
           new == AnswerAll(resp, reqs, v)
<1>1. reqs \in Seq(MissedReqs) /\ DOMAIN reqs = 1 .. Len(reqs)
  BY DEF Partial
<1>2. /\ IsFiniteSet(A) /\ Cardinality(A) \in Nat
      /\ Len(ListOf(new, rid)) = Len(ListOf(resp, rid)) + Cardinality(A)
      /\ \A u \in ToSet(ListOf(new, rid)) : u \in ToSet(ListOf(resp, rid)) \/ (u = v /\ A # {})
  <2> HIDE DEF reqs
  <2>. QED
    BY <1>1, AnswerAllFacts
<1>3. ASSUME NEW J, k \in J
      PROVE  /\ Waiting(dedup, J, rid) = Waiting(dedup, J \ {k}, rid) \cup ({k} \X A)
             /\ Waiting(dedup, J \ {k}, rid) \cap ({k} \X A) = {}
  <2>1. \A p : p \in {k} \X A <=> \E j \in DOMAIN dedup[k] : p = <<k, j>> /\ dedup[k][j].needResp /\ dedup[k][j].rid = rid
    BY <1>1 DEF AskedFor
  <2>2. ASSUME NEW p \in Waiting(dedup, J, rid) PROVE p \in Waiting(dedup, J \ {k}, rid) \cup ({k} \X A)
    <3> HIDE DEF A
    <3>1. PICK l \in J : \E j \in DOMAIN dedup[l] : p = <<l, j>> /\ dedup[l][j].needResp /\ dedup[l][j].rid = rid
      BY WaitingIs
    <3>2. CASE l = k
      BY <2>1, <3>1, <3>2
    <3>3. CASE l # k
      <4>1. l \in J \ {k}
        BY <3>3
      <4>2. p \in Waiting(dedup, J \ {k}, rid)
        BY <3>1, <4>1, WaitingIs
      <4>. QED
        BY <4>2
    <3>. QED
      BY <3>2, <3>3
  <2>3. ASSUME NEW p \in {k} \X A PROVE p \in Waiting(dedup, J, rid) /\ p \notin Waiting(dedup, J \ {k}, rid)
    <3> HIDE DEF A
    <3>1. p \in Waiting(dedup, J, rid)
      BY <1>3, <2>1, WaitingIs
    <3>2. ASSUME p \in Waiting(dedup, J \ {k}, rid) PROVE FALSE
      <4>1. PICK l \in J \ {k} : \E j \in DOMAIN dedup[l] : p = <<l, j>>
        BY <3>2, WaitingIs
      <4>. QED
        BY <2>1, <4>1
    <3>. QED
      BY <3>1, <3>2
  <2>4. Waiting(dedup, J \ {k}, rid) \subseteq Waiting(dedup, J, rid)
    BY WaitingIs
  <2> HIDE DEF A
  <2>. QED
    BY <2>2, <2>3, <2>4
<1>4. Cardinality({k} \X A) = Cardinality(A) /\ IsFiniteSet({k} \X A)
  <2> DEFINE one == {k}
  <2>1. IsFiniteSet(one) /\ Cardinality(one) = 1
    BY FS_Singleton
  <2>2. IsFiniteSet(A) /\ Cardinality(A) \in Nat
    BY <1>2
  <2> HIDE DEF A, one
  <2>3. IsFiniteSet(one \X A) /\ Cardinality(one \X A) = Cardinality(one) * Cardinality(A)
    BY ONLY <2>1, <2>2, FS_Product
  <2>4. Cardinality(one \X A) = Cardinality(A)
    BY ONLY <2>1, <2>2, <2>3
  <2>. QED
    BY <2>3, <2>4 DEF one
<1> HIDE DEF A, new
<1>5. ASSUME NEW J, k \in J, IsFiniteSet(Waiting(dedup, J, rid))
      PROVE  /\ IsFiniteSet(Waiting(dedup, J \ {k}, rid)) /\ Cardinality(Waiting(dedup, J \ {k}, rid)) \in Nat
             /\ Cardinality(Waiting(dedup, J, rid)) = Cardinality(Waiting(dedup, J \ {k}, rid)) + Cardinality(A)
  <2> DEFINE X == Waiting(dedup, J \ {k}, rid)  Y == {k} \X A
  <2>1. Waiting(dedup, J, rid) = X \cup Y /\ X \cap Y = {}
    BY <1>3, <1>5
  <2>2. IsFiniteSet(X)
    BY <1>5, <2>1, FS_Subset
  <2> HIDE DEF X
  <2>3. Cardinality(X) \in Nat /\ Cardinality(X \cup Y) = Cardinality(X) + Cardinality(Y) - Cardinality(X \cap Y)
    BY <1>4, <2>2, FS_Union, FS_CardinalityType
  <2>4. Cardinality(X \cap Y) = 0
    BY <2>1, FS_EmptySet
  <2>. QED
    BY <1>2, <1>4, <2>1, <2>2, <2>3, <2>4 DEF X
<1>6. /\ IsFiniteSet(Waiting(dedup, K, rid)) /\ Cardinality(Waiting(dedup, K, rid)) \in Nat
      /\ IsFiniteSet(Waiting(dedup, K \cap InEtcd, rid)) /\ Cardinality(Waiting(dedup, K \cap InEtcd, rid)) \in Nat
      /\ Len(ListOf(resp, rid)) \in Nat
  <2>1. IsFiniteSet(Waiting(dedup, K, rid))
    BY DEF AnsweredTo
  <2>. QED
    BY <2>1, AnsweredNumbers
<1>7. Cardinality(ReadsBy(batch, n, rid)) \in Nat /\ Cardinality(SureBy(batch, n, rid)) \in Nat
  BY ReadsFacts
<1>8. /\ Len(ListOf(resp, rid)) + Cardinality(Waiting(dedup, K, rid)) <= Cardinality(ReadsBy(batch, n, rid))
      /\ fails = 0 => Len(ListOf(resp, rid)) + Cardinality(Waiting(dedup, K \cap InEtcd, rid))
                      >= Cardinality(SureBy(batch, n, rid))
      /\ \A u \in ToSet(ListOf(resp, rid)) : \E i \in ReadsBy(batch, n, rid) : u[1] = batch[i].key
      /\ \A p \in Waiting(dedup, K, rid) : \E i \in ReadsBy(batch, n, rid) : p[1] = batch[i].key
  BY DEF AnsweredTo
<1>9. /\ IsFiniteSet(Waiting(dedup, K \ {k}, rid))
      /\ Len(ListOf(new, rid)) + Cardinality(Waiting(dedup, K \ {k}, rid)) <= Cardinality(ReadsBy(batch, n, rid))
  <2>1. /\ IsFiniteSet(Waiting(dedup, K \ {k}, rid)) /\ Cardinality(Waiting(dedup, K \ {k}, rid)) \in Nat
        /\ Cardinality(Waiting(dedup, K, rid)) = Cardinality(Waiting(dedup, K \ {k}, rid)) + Cardinality(A)
    BY <1>5, <1>6
  <2>. QED
    BY <1>2, <1>6, <1>7, <1>8, <2>1
<1>10. fails = 0 => Len(ListOf(new, rid)) + Cardinality(Waiting(dedup, (K \ {k}) \cap InEtcd, rid))
                   >= Cardinality(SureBy(batch, n, rid))
  <2>1. (K \ {k}) \cap InEtcd = (K \cap InEtcd) \ {k}
    OBVIOUS
  <2>2. CASE k \in InEtcd
    <3>1. k \in K \cap InEtcd
      BY <2>2
    <3>2. /\ Cardinality(Waiting(dedup, (K \cap InEtcd) \ {k}, rid)) \in Nat
          /\ Cardinality(Waiting(dedup, K \cap InEtcd, rid)) =
                Cardinality(Waiting(dedup, (K \cap InEtcd) \ {k}, rid)) + Cardinality(A)
      BY <1>5, <1>6, <3>1
    <3>3. Waiting(dedup, (K \ {k}) \cap InEtcd, rid) = Waiting(dedup, (K \cap InEtcd) \ {k}, rid)
      BY <2>1
    <3>. QED
      BY <1>2, <1>6, <1>7, <1>8, <3>2, <3>3
  <2>3. CASE k \notin InEtcd
    <3>1. (K \ {k}) \cap InEtcd = K \cap InEtcd
      BY <2>3
    <3>2. Waiting(dedup, (K \ {k}) \cap InEtcd, rid) = Waiting(dedup, K \cap InEtcd, rid)
      BY <3>1
    <3>. QED
      BY <1>2, <1>6, <1>7, <1>8, <3>2, SMTT(30)
  <2>. QED
    BY <2>2, <2>3
<1>11. ASSUME NEW u \in ToSet(ListOf(new, rid)) PROVE \E i \in ReadsBy(batch, n, rid) : u[1] = batch[i].key
  <2>1. CASE u \in ToSet(ListOf(resp, rid))
    BY <1>8, <2>1
  <2>2. CASE u = v /\ A # {}
    <3>1. PICK j : j \in A
      BY <2>2
    <3>2. <<k, j>> \in {k} \X A /\ <<k, j>>[1] = k
      BY <3>1
    <3>3. <<k, j>> \in Waiting(dedup, K, rid)
      <4>1. Waiting(dedup, K, rid) = Waiting(dedup, K \ {k}, rid) \cup ({k} \X A)
        BY <1>3
      <4>. QED
        BY <3>2, <4>1
    <3>. QED
      BY <1>8, <2>2, <3>2, <3>3
  <2>. QED
    BY <1>2, <2>1, <2>2
<1>12. Waiting(dedup, K \ {k}, rid) \subseteq Waiting(dedup, K, rid)
  BY WaitingIs
<1>. QED
  BY <1>8, <1>9, <1>10, <1>11, <1>12 DEF AnsweredTo, new

-----------------------------------------------------------------------------
\* The steps of the handlers.

\* A function of the handlers' locals that keeps count: what the entries of the
\* heaps are for, and which entries are on their way back.
Gone(m) == {i \in 1 .. Len(m.batch) - Len(m.todo) : Reads(m.batch[i]) \/ Writes(m.batch[i])}
Added(h, m)     == ({<<h, "request">>} \X Gone(m)) \cup ({<<h, "missed">>} \X StampedBy(m))
TotalOf(f)      == UNION {Added(h, f[h]) : h \in Handlers}
Loaded(f, kind) == {h \in Handlers : Load(f[h]) = kind}

Scheduled(f, ts, real, dummy) ==
    \A k \in DOMAIN ts :
       \/ <<ts[k], k>> \in ToSet(real) \cup ToSet(dummy)
       \/ \E h \in Handlers : f[h].held = k /\ f[h].pc \in Filling
Balanced(f, real, dummy) ==
    /\ IsFiniteSet(TotalOf(f))
    /\ Len(dummy) + Cardinality(Loaded(f, "dummy")) = Cardinality(Dummies)
    /\ Len(real) + Cardinality(Loaded(f, "real")) = Cardinality(TotalOf(f))
Heaps(ts, real, dummy) ==
    /\ real \in Seq(Entries) /\ dummy \in Seq(Entries) /\ IsHeap(real) /\ IsHeap(dummy)
    /\ ts \in Partial(Keys, Nat)
Books(f, ts, real, dummy) == Heaps(ts, real, dummy) /\ Scheduled(f, ts, real, dummy) /\ Balanced(f, real, dummy)

\* The inductive invariant.
CacheOk == Linked(cache, recency) /\ Len(recency) <= Capacity
EtcdOk ==
    /\ InEtcd \subseteq DOMAIN etcd
    /\ \A k \in DOMAIN etcd \cap Keys : etcd[k] \in Values /\ etcd[k][1] = k
HandlersOk ==
    /\ me \in [Handlers -> Locals]
    /\ \A h \in Handlers : Good(me[h], failures) /\ Settled(me[h])
IInv ==
    /\ CacheOk /\ EtcdOk /\ HandlersOk /\ clock \in Nat /\ failures \in Nat
    /\ Books(me, timestamps, realObjects, dummyObjects)

\* What the books say of the properties.
LEMMA BooksShow ==
  ASSUME Books(me, timestamps, realObjects, dummyObjects)
  PROVE  HeapsOrdered /\ EveryKeyScheduled /\ EntriesAccounted
<1>1. \A h \in Handlers : EntriesAdded(h) = Added(h, me[h])
  BY DEF EntriesAdded, Added, GoneThrough, Gone, Stamped, StampedBy, Reading
<1>2. UNION {EntriesAdded(h) : h \in Handlers} = TotalOf(me)
  BY <1>1 DEF TotalOf
<1>3. Holding("dummy") = Loaded(me, "dummy") /\ Holding("real") = Loaded(me, "real")
  BY DEF Holding, Loaded, Load, Kind, At
<1>. QED
  BY <1>2, <1>3 DEF Books, Heaps, Scheduled, Balanced, HeapsOrdered, EveryKeyScheduled, EntriesAccounted

\* The requests that are still to go through.
LEMMA RequestFacts ==
  ASSUME NEW m \in Locals, Ordered(m), m.todo # << >>
  PROVE  /\ Head(m.todo) \in Requests /\ Head(m.todo) = m.todo[1]
         /\ Len(m.batch) - Len(m.todo) \in Nat /\ Len(m.batch) \in Nat /\ Len(m.todo) \in Nat
         /\ Head(m.todo) = m.batch[Len(m.batch) - Len(m.todo) + 1]
         /\ Tail(m.todo) \in Seq(Requests) /\ Len(Tail(m.todo)) = Len(m.todo) - 1
         /\ \A i \in 1 .. Len(Tail(m.todo)) :
               Tail(m.todo)[i] = m.batch[Len(m.batch) - Len(Tail(m.todo)) + i]
<1>1. m.todo \in Seq(Requests) /\ m.batch \in Seq(Requests)
  BY DEF Locals
<1>2. PICK a \in Nat, b \in Nat \ {0} : a = Len(m.batch) /\ b = Len(m.todo)
  BY <1>1, EmptySeq
<1>3. b <= a /\ \A i \in 1 .. b : m.todo[i] = m.batch[a - b + i]
  BY <1>2 DEF Ordered
<1>4. /\ Head(m.todo) \in Requests /\ Head(m.todo) = m.todo[1]
      /\ Tail(m.todo) \in Seq(Requests) /\ Len(Tail(m.todo)) = b - 1
      /\ \A i \in 1 .. b - 1 : Tail(m.todo)[i] = m.todo[i + 1]
  <2>1. Head(m.todo) \in Requests /\ Tail(m.todo) \in Seq(Requests)
    BY <1>1, HeadTailProperties
  <2>2. Len(Tail(m.todo)) = b - 1 /\ \A i \in 1 .. b - 1 : Tail(m.todo)[i] = m.todo[i + 1]
    BY <1>1, <1>2, HeadTailProperties
  <2>. QED
    BY <1>1, <2>1, <2>2
<1>5. ASSUME NEW i \in 1 .. b - 1
      PROVE  Tail(m.todo)[i] = m.batch[a - (b - 1) + i]
  <2>1. a \in Nat /\ b \in Nat /\ i \in Nat /\ 1 <= i /\ i <= b - 1
    BY <1>2
  <2>3. i + 1 \in 1 .. b /\ a - b + (i + 1) = a - (b - 1) + i
    BY <2>1
  <2>2. m.todo[i + 1] = m.batch[a - b + (i + 1)]
    BY <1>3, <2>3
  <2>. QED
    BY <1>4, <2>3, <2>2
<1>6. 1 \in 1 .. b /\ a - b \in Nat
  BY <1>2, <1>3
<1>7. Head(m.todo) = m.batch[a - b + 1]
  BY <1>3, <1>4, <1>6
<1>8. \A i \in 1 .. Len(Tail(m.todo)) : Tail(m.todo)[i] = m.batch[a - Len(Tail(m.todo)) + i]
  BY <1>4, <1>5
<1>. QED
  BY <1>2, <1>4, <1>6, <1>7, <1>8

\* Reads and writes have keys, the value of a write is of its key.
LEMMA ReadsAndWrites ==
  ASSUME NEW r \in Requests
  PROVE  /\ r.rid \in Rids /\ (Reads(r) => r.key \in Keys /\ ~Writes(r))
         /\ Writes(r) => r.key \in Keys /\ r.val \in Values /\ r.val[1] = r.key /\ ~Reads(r)
BY DEF Requests, Reads, Writes

\* Blank is no key.
LEMMA BlankIsNoKey == Blank \notin Keys
BY ProxyAssumption

\* How far a handler has come.
LEMMA PassedIs ==
  ASSUME NEW m \in Locals, Ordered(m)
  PROVE  Passed(m) \in Nat /\ Len(m.batch) - Len(m.todo) \in Nat
<1>1. m.todo \in Seq(Requests) /\ m.batch \in Seq(Requests)
  BY DEF Locals
<1>2. PICK a \in Nat, b \in Nat : a = Len(m.batch) /\ b = Len(m.todo)
  BY <1>1
<1>3. b <= a
  BY <1>2 DEF Ordered
<1>4. a - b \in Nat /\ a - b + 1 \in Nat /\ a - b + 0 \in Nat
  BY <1>2, <1>3
<1>. QED
  BY <1>2, <1>4 DEF Passed

\* The other handlers do not notice.
LEMMA HandlerStep ==
  ASSUME HandlersOk, NEW h \in Handlers, NEW t, me' = [me EXCEPT ![h] = t],
         Good(t, failures'), Settled(t), failures' = 0 => failures = 0
  PROVE  HandlersOk'
<1>1. ASSUME NEW m, Good(m, failures) PROVE Good(m, failures')
  BY <1>1 DEF Good, Answered, AnsweredTo
<1>2. t \in Locals
  BY DEF Good
<1>3. me' \in [Handlers -> Locals] /\ me'[h] = t /\ \A g \in Handlers : g # h => me'[g] = me[g]
  BY <1>2 DEF HandlersOk
<1>4. ASSUME NEW g \in Handlers PROVE Good(me'[g], failures') /\ Settled(me'[g])
  BY <1>1, <1>3 DEF HandlersOk
<1>. QED
  BY <1>3, <1>4 DEF HandlersOk

\* One handler's locals change.
Changed(g, f, h, t) == g[h] = t /\ \A x \in Handlers : x # h => g[x] = f[x]

\* One handler's locals change: what it has added is another's in no case.
LEMMA TotalMore ==
  ASSUME NEW f, NEW g, NEW h \in Handlers, NEW t, Changed(g, f, h, t), NEW E,
         Added(h, t) = Added(h, f[h]) \cup E
  PROVE  TotalOf(g) = TotalOf(f) \cup E
<1>1. g[h] = t /\ \A x \in Handlers : x # h => g[x] = f[x]
  BY DEF Changed
<1>2. ASSUME NEW p \in TotalOf(g) PROVE p \in TotalOf(f) \cup E
  <2>1. PICK x \in Handlers : p \in Added(x, g[x])
    BY <1>2 DEF TotalOf
  <2>2. CASE x = h
    BY <1>1, <2>1, <2>2 DEF TotalOf
  <2>3. CASE x # h
    BY <1>1, <2>1, <2>3 DEF TotalOf
  <2>. QED
    BY <2>2, <2>3
<1>3. ASSUME NEW p \in TotalOf(f) PROVE p \in TotalOf(g)
  <2>1. PICK x \in Handlers : p \in Added(x, f[x])
    BY <1>3 DEF TotalOf
  <2>2. CASE x = h
    BY <1>1, <2>1, <2>2 DEF TotalOf
  <2>3. CASE x # h
    BY <1>1, <2>1, <2>3 DEF TotalOf
  <2>. QED
    BY <2>2, <2>3
<1>4. E \subseteq TotalOf(g)
  BY <1>1 DEF TotalOf
<1>. QED
  BY <1>2, <1>3, <1>4

\* The mark of an entry tells who has added it.
LEMMA TotalMarks ==
  ASSUME NEW f, NEW h \in Handlers, NEW e, e[1][1] = h, e \notin Added(h, f[h])
  PROVE  e \notin TotalOf(f)
<1>1. \A x \in Handlers : \A p \in Added(x, f[x]) : p[1][1] = x
  BY DEF Added
<1>. QED
  BY <1>1 DEF TotalOf

\* Handlers that hold an entry, counted.
Moved(f, g, h, t, kind) ==
    /\ Cardinality(Loaded(f, kind)) \in Nat /\ Cardinality(Loaded(g, kind)) \in Nat
    /\ Load(f[h]) = Load(t) => Cardinality(Loaded(g, kind)) = Cardinality(Loaded(f, kind))
    /\ Load(f[h]) = kind /\ Load(t) # kind => Cardinality(Loaded(g, kind)) + 1 = Cardinality(Loaded(f, kind))
    /\ Load(f[h]) # kind /\ Load(t) = kind => Cardinality(Loaded(g, kind)) = Cardinality(Loaded(f, kind)) + 1
    /\ Load(f[h]) # kind /\ Load(t) # kind => Cardinality(Loaded(g, kind)) = Cardinality(Loaded(f, kind))

\* A step of one handler counts at most that handler in or out.
LEMMA LoadedMoves ==
  ASSUME NEW f, NEW g, NEW h \in Handlers, NEW t, Changed(g, f, h, t), NEW kind
  PROVE  Moved(f, g, h, t, kind)
<1> DEFINE A == Loaded(f, kind)  B == Loaded(g, kind)
<1>1. g[h] = t /\ \A x \in Handlers : x # h => g[x] = f[x]
  BY DEF Changed
<1>2. IsFiniteSet(Handlers)
  BY ProxyAssumption
<1>3. A \subseteq Handlers /\ B \subseteq Handlers
  BY DEF Loaded
<1>4. IsFiniteSet(A) /\ IsFiniteSet(B)
  <2> HIDE DEF A, B
  <2>. QED
    BY <1>2, <1>3, FS_Subset
<1>5. /\ Load(f[h]) = Load(t) => B = A
      /\ Load(f[h]) = kind /\ Load(t) # kind => A = B \cup {h} /\ h \notin B
      /\ Load(f[h]) # kind /\ Load(t) = kind => B = A \cup {h} /\ h \notin A
      /\ Load(f[h]) # kind /\ Load(t) # kind => B = A
  BY <1>1 DEF Loaded
<1> HIDE DEF A, B
<1>6. \A S : IsFiniteSet(S) =>
         Cardinality(S) \in Nat /\ (h \notin S => Cardinality(S \cup {h}) = Cardinality(S) + 1)
  BY FS_CardinalityType, FS_AddElement
<1>. QED
  BY <1>4, <1>5, <1>6 DEF A, B, Moved

\* A key that is held in a filling loop is a load.
LEMMA LoadIs ==
  ASSUME NEW m
  PROVE  /\ m.held \in Keys /\ m.pc \in Filling <=> m.held \in Keys /\ Load(m) # "none"
         /\ Load(m) # "none" => m.pc \in Filling
BY BlankIsNoKey DEF Load

\* A step that touches neither heaps nor timestamps nor what a handler holds.
LEMMA BooksSame ==
  ASSUME NEW f, NEW g, NEW h \in Handlers, NEW t, Changed(g, f, h, t),
         NEW ts, NEW real, NEW dummy, Books(f, ts, real, dummy),
         Gone(t) = Gone(f[h]), StampedBy(t) = StampedBy(f[h]), Load(t) = Load(f[h]),
         Load(t) # "none" => t.held = f[h].held
  PROVE  Books(g, ts, real, dummy)
<1>1. g[h] = t /\ \A x \in Handlers : x # h => g[x] = f[x]
  BY DEF Changed
<1>2. TotalOf(g) = TotalOf(f)
  <2> DEFINE none == {}
  <2> HIDE DEF none
  <2>1. Added(h, t) = Added(h, f[h]) \cup none
    BY DEF Added, none
  <2>2. TotalOf(g) = TotalOf(f) \cup none
    BY <2>1, TotalMore
  <2>. QED
    BY <2>2 DEF none
<1>3. \A kind : Cardinality(Loaded(g, kind)) = Cardinality(Loaded(f, kind))
  <2>1. ASSUME NEW kind PROVE Moved(f, g, h, t, kind)
    BY LoadedMoves
  <2>. QED
    BY <2>1 DEF Moved
<1>4. Scheduled(g, ts, real, dummy)
  <2>1. ASSUME NEW k \in DOMAIN ts, <<ts[k], k>> \notin ToSet(real) \cup ToSet(dummy)
        PROVE  \E x \in Handlers : g[x].held = k /\ g[x].pc \in Filling
    <3>1. k \in Keys
      BY DEF Books, Heaps, Partial
    <3>2. PICK x \in Handlers : f[x].held = k /\ f[x].pc \in Filling
      BY <2>1 DEF Books, Scheduled
    <3>3. CASE x # h
      BY <1>1, <3>2, <3>3
    <3>4. CASE x = h
      <4>1. Load(f[h]) # "none"
        BY <3>1, <3>2, <3>4, LoadIs
      <4>2. t.held = k /\ t.pc \in Filling
        BY <3>2, <3>4, <4>1, LoadIs
      <4>. QED
        BY <1>1, <4>2
    <3>. QED
      BY <3>3, <3>4
  <2>. QED
    BY <2>1 DEF Scheduled
<1>. QED
  BY <1>2, <1>3, <1>4 DEF Books, Balanced

\* SetTimestamp keeps the map.
LEMMA WithTyped ==
  ASSUME NEW K, NEW S, NEW f \in Partial(K, S), NEW x \in K, NEW e \in S
  PROVE  /\ With(f, x, e) \in Partial(K, S) /\ DOMAIN With(f, x, e) = DOMAIN f \cup {x}
         /\ With(f, x, e)[x] = e /\ \A y \in DOMAIN f : y # x => With(f, x, e)[y] = f[y]
<1>1. PICK D \in SUBSET K : f \in [D -> S]
  BY DEF Partial
<1>2. With(f, x, e) \in [D \cup {x} -> S] /\ D \cup {x} \in SUBSET K
  BY <1>1 DEF With
<1>3. With(f, x, e) \in Partial(K, S)
  BY <1>2 DEF Partial
<1>. QED
  BY <1>1, <1>3 DEF With

\* The timestamps keep their type.
StampedAs(ts2, ts, k, n) ==
    /\ ts2 \in Partial(Keys, Nat) /\ DOMAIN ts2 = DOMAIN ts \cup {k}
    /\ ts2[k] = n /\ \A y \in DOMAIN ts : y # k => ts2[y] = ts[y]

\* A stamp changes no other key.
LEMMA StampedTyped ==
  ASSUME NEW ts \in Partial(Keys, Nat), NEW k \in Keys, NEW n \in Nat
  PROVE  StampedAs(With(ts, k, n), ts, k, n)
<1>1. PICK D \in SUBSET Keys : ts \in [D -> Nat]
  BY DEF Partial
<1>2. With(ts, k, n) \in [D \cup {k} -> Nat] /\ D \cup {k} \in SUBSET Keys
  BY <1>1 DEF With
<1>3. With(ts, k, n) \in Partial(Keys, Nat)
  BY <1>2 DEF Partial
<1>. QED
  BY <1>1, <1>3 DEF With, StampedAs

\* A handler adds an entry for a reason of its own.
LEMMA BooksAdd ==
  ASSUME NEW f, NEW g, NEW h \in Handlers, NEW t, Changed(g, f, h, t),
         NEW ts, NEW real, NEW dummy, Books(f, ts, real, dummy),
         Load(t) = "none", Load(f[h]) = "none",
         NEW e, e[1][1] = h, e \notin Added(h, f[h]), Added(h, t) = Added(h, f[h]) \cup {e},
         NEW k \in Keys, NEW n \in Nat
  PROVE  Books(g, With(ts, k, n), Insert(real, n, k), dummy)
<1> DEFINE ts2 == With(ts, k, n)  real2 == Insert(real, n, k)
<1>1. g[h] = t /\ \A x \in Handlers : x # h => g[x] = f[x]
  BY DEF Changed
<1>2. TotalOf(g) = TotalOf(f) \cup {e} /\ e \notin TotalOf(f)
  <2> DEFINE E == {e}
  <2> HIDE DEF E
  <2>1. Added(h, t) = Added(h, f[h]) \cup E
    BY DEF E
  <2>2. TotalOf(g) = TotalOf(f) \cup E
    BY <2>1, TotalMore
  <2>3. e \notin TotalOf(f)
    BY TotalMarks
  <2>. QED
    BY <2>2, <2>3 DEF E
<1>3. \A kind : Cardinality(Loaded(g, kind)) = Cardinality(Loaded(f, kind)) /\ Cardinality(Loaded(f, kind)) \in Nat
  <2>1. ASSUME NEW kind PROVE Moved(f, g, h, t, kind)
    BY LoadedMoves
  <2>. QED
    BY <2>1 DEF Moved
<1>4. /\ ts2 \in Partial(Keys, Nat) /\ DOMAIN ts2 = DOMAIN ts \cup {k}
      /\ ts2[k] = n /\ \A y \in DOMAIN ts : y # k => ts2[y] = ts[y]
  <2>1. ts \in Partial(Keys, Nat)
    BY DEF Books, Heaps
  <2>2. StampedAs(ts2, ts, k, n)
    BY <2>1, StampedTyped
  <2>. QED
    BY <2>2 DEF StampedAs
<1>5. /\ real2 \in Seq(Entries) /\ IsHeap(real2) /\ Len(real2) = Len(real) + 1
      /\ ToSet(real2) = ToSet(real) \cup {<<n, k>>}
  <2>1. real \in Seq(Entries) /\ IsHeap(real)
    BY DEF Books, Heaps
  <2>. QED
    BY <2>1, InsertFacts
<1> HIDE DEF ts2, real2
<1>6. Heaps(ts2, real2, dummy)
  BY <1>4, <1>5 DEF Books, Heaps
<1>7. Scheduled(g, ts2, real2, dummy)
  <2>1. ASSUME NEW y \in DOMAIN ts2, <<ts2[y], y>> \notin ToSet(real2) \cup ToSet(dummy)
        PROVE  \E x \in Handlers : g[x].held = y /\ g[x].pc \in Filling
    <3>1. y # k /\ y \in DOMAIN ts /\ ts2[y] = ts[y]
      BY <1>4, <1>5, <2>1
    <3>2. y \in Keys
      BY <3>1 DEF Books, Heaps, Partial
    <3>3. PICK x \in Handlers : f[x].held = y /\ f[x].pc \in Filling
      BY <1>5, <2>1, <3>1 DEF Books, Scheduled
    <3>4. x # h
      BY <3>2, <3>3, LoadIs
    <3>. QED
      BY <1>1, <3>3, <3>4
  <2>. QED
    BY <2>1 DEF Scheduled
<1>8. Balanced(g, real2, dummy)
  <2>1. IsFiniteSet(TotalOf(f)) /\ Len(real) + Cardinality(Loaded(f, "real")) = Cardinality(TotalOf(f))
    BY DEF Books, Balanced
  <2>2. IsFiniteSet(TotalOf(g)) /\ Cardinality(TotalOf(g)) = Cardinality(TotalOf(f)) + 1
    BY <1>2, <2>1, FS_AddElement
  <2>3. Len(real) \in Nat /\ Cardinality(TotalOf(f)) \in Nat
    BY <2>1, FS_CardinalityType DEF Books, Heaps
  <2>4. Len(real2) + Cardinality(Loaded(g, "real")) = Cardinality(TotalOf(g))
    BY <1>3, <1>5, <2>1, <2>2, <2>3
  <2>. QED
    BY <1>3, <2>2, <2>4 DEF Books, Balanced
<1>9. Books(g, ts2, real2, dummy)
  BY <1>6, <1>7, <1>8 DEF Books
<1>. QED
  BY <1>9 DEF ts2, real2

\* A handler takes the first entry of the heap of real keys.
LEMMA BooksPopReal ==
  ASSUME NEW f, NEW g, NEW h \in Handlers, NEW t, Changed(g, f, h, t),
         NEW ts, NEW real, NEW dummy, Books(f, ts, real, dummy), real # << >>,
         Gone(t) = Gone(f[h]), StampedBy(t) = StampedBy(f[h]),
         Load(f[h]) = "none", Load(t) = "real", t.held = real[1][2]
  PROVE  Books(g, ts, AfterPop(real), dummy)
<1> DEFINE after == AfterPop(real)
<1>1. g[h] = t /\ \A x \in Handlers : x # h => g[x] = f[x]
  BY DEF Changed
<1>2. TotalOf(g) = TotalOf(f)
  <2> DEFINE none == {}
  <2> HIDE DEF none
  <2>1. Added(h, t) = Added(h, f[h]) \cup none
    BY DEF Added, none
  <2>2. TotalOf(g) = TotalOf(f) \cup none
    BY <2>1, TotalMore
  <2>. QED
    BY <2>2 DEF none
<1>3. /\ Cardinality(Loaded(g, "real")) = Cardinality(Loaded(f, "real")) + 1
      /\ Cardinality(Loaded(g, "dummy")) = Cardinality(Loaded(f, "dummy"))
      /\ Cardinality(Loaded(f, "real")) \in Nat
  <2>1. Moved(f, g, h, t, "real") /\ Moved(f, g, h, t, "dummy")
    BY LoadedMoves
  <2>. QED
    BY <2>1 DEF Moved
<1>4. /\ after \in Seq(Entries) /\ IsHeap(after) /\ Len(after) = Len(real) - 1
      /\ ToSet(real) \subseteq ToSet(after) \cup {real[1]} /\ real[1] \in Entries
      /\ Len(real) \in Nat
  <2>1. real \in Seq(Entries) /\ IsHeap(real)
    BY DEF Books, Heaps
  <2>. QED
    BY <2>1, AfterPopFacts
<1> HIDE DEF after
<1>5. Heaps(ts, after, dummy)
  BY <1>4 DEF Books, Heaps
<1>6. Scheduled(g, ts, after, dummy)
  <2>1. ASSUME NEW y \in DOMAIN ts, <<ts[y], y>> \notin ToSet(after) \cup ToSet(dummy)
        PROVE  \E x \in Handlers : g[x].held = y /\ g[x].pc \in Filling
    <3>1. CASE <<ts[y], y>> \in ToSet(real)
      <4>1. <<ts[y], y>> = real[1]
        BY <1>4, <2>1, <3>1
      <4>2. t.held = y
        BY <4>1
      <4>3. t.pc \in Filling
        BY LoadIs
      <4>. QED
        BY <1>1, <4>2, <4>3
    <3>2. CASE <<ts[y], y>> \notin ToSet(real)
      <4>1. PICK x \in Handlers : f[x].held = y /\ f[x].pc \in Filling
        BY <2>1, <3>2 DEF Books, Scheduled
      <4>2. y \in Keys
        BY DEF Books, Heaps, Partial
      <4>3. x # h
        BY <4>1, <4>2, LoadIs
      <4>. QED
        BY <1>1, <4>1, <4>3
    <3>. QED
      BY <3>1, <3>2
  <2>. QED
    BY <2>1 DEF Scheduled
<1>7. Balanced(g, after, dummy)
  <2>1. Len(after) + Cardinality(Loaded(g, "real")) = Len(real) + Cardinality(Loaded(f, "real"))
    BY <1>3, <1>4
  <2>. QED
    BY <1>2, <1>3, <2>1 DEF Books, Balanced
<1>. QED
  BY <1>5, <1>6, <1>7 DEF Books, after

\* A handler puts a key back into the heap of real keys, with a new timestamp.
LEMMA BooksBackReal ==
  ASSUME NEW f, NEW g, NEW h \in Handlers, NEW t, Changed(g, f, h, t),
         NEW ts, NEW real, NEW dummy, Books(f, ts, real, dummy),
         Gone(t) = Gone(f[h]), StampedBy(t) = StampedBy(f[h]),
         Load(f[h]) = "real", Load(t) = "none",
         NEW k \in Keys, k = f[h].held, NEW n \in Nat
  PROVE  Books(g, With(ts, k, n), Insert(real, n, k), dummy)
<1> DEFINE after == Insert(real, n, k)  ts2 == With(ts, k, n)
<1>1. g[h] = t /\ \A x \in Handlers : x # h => g[x] = f[x]
  BY DEF Changed
<1>2. TotalOf(g) = TotalOf(f)
  <2> DEFINE none == {}
  <2> HIDE DEF none
  <2>1. Added(h, t) = Added(h, f[h]) \cup none
    BY DEF Added, none
  <2>2. TotalOf(g) = TotalOf(f) \cup none
    BY <2>1, TotalMore
  <2>. QED
    BY <2>2 DEF none
<1>3. /\ Cardinality(Loaded(g, "real")) + 1 = Cardinality(Loaded(f, "real"))
      /\ Cardinality(Loaded(g, "dummy")) = Cardinality(Loaded(f, "dummy"))
      /\ Cardinality(Loaded(g, "real")) \in Nat
  <2>1. Moved(f, g, h, t, "real") /\ Moved(f, g, h, t, "dummy")
    BY LoadedMoves
  <2>. QED
    BY <2>1 DEF Moved
<1>4. /\ ts2 \in Partial(Keys, Nat) /\ DOMAIN ts2 = DOMAIN ts \cup {k}
      /\ ts2[k] = n /\ \A y \in DOMAIN ts : y # k => ts2[y] = ts[y]
  <2>1. ts \in Partial(Keys, Nat)
    BY DEF Books, Heaps
  <2>2. StampedAs(ts2, ts, k, n)
    BY <2>1, StampedTyped
  <2>. QED
    BY <2>2 DEF StampedAs
<1>5. /\ after \in Seq(Entries) /\ IsHeap(after) /\ Len(after) = Len(real) + 1
      /\ ToSet(after) = ToSet(real) \cup {<<n, k>>} /\ Len(real) \in Nat
  <2>1. real \in Seq(Entries) /\ IsHeap(real)
    BY DEF Books, Heaps
  <2>2. /\ after \in Seq(Entries) /\ IsHeap(after) /\ Len(after) = Len(real) + 1
        /\ ToSet(after) = ToSet(real) \cup {<<n, k>>}
    BY <2>1, InsertFacts
  <2>. QED
    BY <2>1, <2>2
<1> HIDE DEF after, ts2
<1>6. Heaps(ts2, after, dummy)
  BY <1>4, <1>5 DEF Books, Heaps
<1>7. Scheduled(g, ts2, after, dummy)
  <2>1. ASSUME NEW y \in DOMAIN ts2, <<ts2[y], y>> \notin ToSet(after) \cup ToSet(dummy)
        PROVE  \E x \in Handlers : g[x].held = y /\ g[x].pc \in Filling
    <3>1. y # k /\ y \in DOMAIN ts /\ ts2[y] = ts[y]
      BY <1>4, <1>5, <2>1
    <3>2. PICK x \in Handlers : f[x].held = y /\ f[x].pc \in Filling
      BY <1>5, <2>1, <3>1 DEF Books, Scheduled
    <3>3. x # h
      BY <3>1, <3>2
    <3>. QED
      BY <1>1, <3>2, <3>3
  <2>. QED
    BY <2>1 DEF Scheduled
<1>8. Balanced(g, after, dummy)
  <2>1. Len(after) + Cardinality(Loaded(g, "real")) = Len(real) + Cardinality(Loaded(f, "real"))
    BY <1>3, <1>5
  <2>. QED
    BY <1>2, <1>3, <2>1 DEF Books, Balanced
<1>. QED
  BY <1>6, <1>7, <1>8 DEF Books, after, ts2

\* A handler takes the first entry of the heap of dummy keys.
LEMMA BooksPopDummy ==
  ASSUME NEW f, NEW g, NEW h \in Handlers, NEW t, Changed(g, f, h, t),
         NEW ts, NEW real, NEW dummy, Books(f, ts, real, dummy), dummy # << >>,
         Gone(t) = Gone(f[h]), StampedBy(t) = StampedBy(f[h]),
         Load(f[h]) = "none", Load(t) = "dummy", t.held = dummy[1][2]
  PROVE  Books(g, ts, real, AfterPop(dummy))
<1> DEFINE after == AfterPop(dummy)
<1>1. g[h] = t /\ \A x \in Handlers : x # h => g[x] = f[x]
  BY DEF Changed
<1>2. TotalOf(g) = TotalOf(f)
  <2> DEFINE none == {}
  <2> HIDE DEF none
  <2>1. Added(h, t) = Added(h, f[h]) \cup none
    BY DEF Added, none
  <2>2. TotalOf(g) = TotalOf(f) \cup none
    BY <2>1, TotalMore
  <2>. QED
    BY <2>2 DEF none
<1>3. /\ Cardinality(Loaded(g, "dummy")) = Cardinality(Loaded(f, "dummy")) + 1
      /\ Cardinality(Loaded(g, "real")) = Cardinality(Loaded(f, "real"))
      /\ Cardinality(Loaded(f, "dummy")) \in Nat
  <2>1. Moved(f, g, h, t, "dummy") /\ Moved(f, g, h, t, "real")
    BY LoadedMoves
  <2>. QED
    BY <2>1 DEF Moved
<1>4. /\ after \in Seq(Entries) /\ IsHeap(after) /\ Len(after) = Len(dummy) - 1
      /\ ToSet(dummy) \subseteq ToSet(after) \cup {dummy[1]} /\ dummy[1] \in Entries
      /\ Len(dummy) \in Nat
  <2>1. dummy \in Seq(Entries) /\ IsHeap(dummy)
    BY DEF Books, Heaps
  <2>. QED
    BY <2>1, AfterPopFacts
<1> HIDE DEF after
<1>5. Heaps(ts, real, after)
  BY <1>4 DEF Books, Heaps
<1>6. Scheduled(g, ts, real, after)
  <2>1. ASSUME NEW y \in DOMAIN ts, <<ts[y], y>> \notin ToSet(after) \cup ToSet(real)
        PROVE  \E x \in Handlers : g[x].held = y /\ g[x].pc \in Filling
    <3>1. CASE <<ts[y], y>> \in ToSet(dummy)
      <4>1. <<ts[y], y>> = dummy[1]
        BY <1>4, <2>1, <3>1
      <4>2. t.held = y
        BY <4>1
      <4>3. t.pc \in Filling
        BY LoadIs
      <4>. QED
        BY <1>1, <4>2, <4>3
    <3>2. CASE <<ts[y], y>> \notin ToSet(dummy)
      <4>1. PICK x \in Handlers : f[x].held = y /\ f[x].pc \in Filling
        BY <2>1, <3>2 DEF Books, Scheduled
      <4>2. y \in Keys
        BY DEF Books, Heaps, Partial
      <4>3. x # h
        BY <4>1, <4>2, LoadIs
      <4>. QED
        BY <1>1, <4>1, <4>3
    <3>. QED
      BY <3>1, <3>2
  <2>. QED
    BY <2>1 DEF Scheduled
<1>7. Balanced(g, real, after)
  <2>1. Len(after) + Cardinality(Loaded(g, "dummy")) = Len(dummy) + Cardinality(Loaded(f, "dummy"))
    BY <1>3, <1>4
  <2>. QED
    BY <1>2, <1>3, <2>1 DEF Books, Balanced
<1>. QED
  BY <1>5, <1>6, <1>7 DEF Books, after

\* A handler puts a key back into the heap of dummy keys, with a new timestamp.
LEMMA BooksBackDummy ==
  ASSUME NEW f, NEW g, NEW h \in Handlers, NEW t, Changed(g, f, h, t),
         NEW ts, NEW real, NEW dummy, Books(f, ts, real, dummy),
         Gone(t) = Gone(f[h]), StampedBy(t) = StampedBy(f[h]),
         Load(f[h]) = "dummy", Load(t) = "none",
         NEW k \in Keys, k = f[h].held, NEW n \in Nat
  PROVE  Books(g, With(ts, k, n), real, Insert(dummy, n, k))
<1> DEFINE after == Insert(dummy, n, k)  ts2 == With(ts, k, n)
<1>1. g[h] = t /\ \A x \in Handlers : x # h => g[x] = f[x]
  BY DEF Changed
<1>2. TotalOf(g) = TotalOf(f)
  <2> DEFINE none == {}
  <2> HIDE DEF none
  <2>1. Added(h, t) = Added(h, f[h]) \cup none
    BY DEF Added, none
  <2>2. TotalOf(g) = TotalOf(f) \cup none
    BY <2>1, TotalMore
  <2>. QED
    BY <2>2 DEF none
<1>3. /\ Cardinality(Loaded(g, "dummy")) + 1 = Cardinality(Loaded(f, "dummy"))
      /\ Cardinality(Loaded(g, "real")) = Cardinality(Loaded(f, "real"))
      /\ Cardinality(Loaded(g, "dummy")) \in Nat
  <2>1. Moved(f, g, h, t, "dummy") /\ Moved(f, g, h, t, "real")
    BY LoadedMoves
  <2>. QED
    BY <2>1 DEF Moved
<1>4. /\ ts2 \in Partial(Keys, Nat) /\ DOMAIN ts2 = DOMAIN ts \cup {k}
      /\ ts2[k] = n /\ \A y \in DOMAIN ts : y # k => ts2[y] = ts[y]
  <2>1. ts \in Partial(Keys, Nat)
    BY DEF Books, Heaps
  <2>2. StampedAs(ts2, ts, k, n)
    BY <2>1, StampedTyped
  <2>. QED
    BY <2>2 DEF StampedAs
<1>5. /\ after \in Seq(Entries) /\ IsHeap(after) /\ Len(after) = Len(dummy) + 1
      /\ ToSet(after) = ToSet(dummy) \cup {<<n, k>>} /\ Len(dummy) \in Nat
  <2>1. dummy \in Seq(Entries) /\ IsHeap(dummy)
    BY DEF Books, Heaps
  <2>2. /\ after \in Seq(Entries) /\ IsHeap(after) /\ Len(after) = Len(dummy) + 1
        /\ ToSet(after) = ToSet(dummy) \cup {<<n, k>>}
    BY <2>1, InsertFacts
  <2>. QED
    BY <2>1, <2>2
<1> HIDE DEF after, ts2
<1>6. Heaps(ts2, real, after)
  BY <1>4, <1>5 DEF Books, Heaps
<1>7. Scheduled(g, ts2, real, after)
  <2>1. ASSUME NEW y \in DOMAIN ts2, <<ts2[y], y>> \notin ToSet(after) \cup ToSet(real)
        PROVE  \E x \in Handlers : g[x].held = y /\ g[x].pc \in Filling
    <3>1. y # k /\ y \in DOMAIN ts /\ ts2[y] = ts[y]
      BY <1>4, <1>5, <2>1
    <3>2. PICK x \in Handlers : f[x].held = y /\ f[x].pc \in Filling
      BY <1>5, <2>1, <3>1 DEF Books, Scheduled
    <3>3. x # h
      BY <3>1, <3>2
    <3>. QED
      BY <1>1, <3>2, <3>3
  <2>. QED
    BY <2>1 DEF Scheduled
<1>8. Balanced(g, real, after)
  <2>1. Len(after) + Cardinality(Loaded(g, "dummy")) = Len(dummy) + Cardinality(Loaded(f, "dummy"))
    BY <1>3, <1>5
  <2>. QED
    BY <1>2, <1>3, <2>1 DEF Books, Balanced
<1>. QED
  BY <1>6, <1>7, <1>8 DEF Books, after, ts2

-----------------------------------------------------------------------------
\* Each step keeps the invariant.

\* What Go makes of the locals, as far as the others and the books see it.
SameBooks(h, t, m) ==
    /\ Gone(t) = Gone(m) /\ StampedBy(t) = StampedBy(m) /\ Load(t) = Load(m)
    /\ t.held = m.held /\ Added(h, t) = Added(h, m)

\* A handler goes on with new locals.
LEMMA GoStep ==
  ASSUME HandlersOk, NEW h \in Handlers, NEW local, Go(h, local),
         Good(local, failures'), failures' = 0 => failures = 0
  PROVE  HandlersOk' /\ \E t : Changed(me', me, h, t) /\ SameBooks(h, t, local)
<1> DEFINE t == Through(local)
<1>1. Good(t, failures') /\ Settled(t) /\ SameWork(t, local)
  BY GoKeeps
<1>2. me' = [me EXCEPT ![h] = t]
  <2>1. Go(h, local) <=> me' = [me EXCEPT ![h] = t]
    BY Zenon DEF Go, Through
  <2>. QED
    BY <2>1
<1> HIDE DEF t
<1>3. HandlersOk'
  BY <1>1, <1>2, HandlerStep
<1>4. Changed(me', me, h, t)
  BY <1>2 DEF HandlersOk, Changed
<1>5. SameBooks(h, t, local)
  BY <1>1 DEF SameWork, SameBooks, Gone, Added
<1>. QED
  BY <1>3, <1>4, <1>5

\* A step that the books do not notice.
LEMMA QuietStep ==
  ASSUME HandlersOk, Books(me, timestamps, realObjects, dummyObjects), UNCHANGED bst,
         NEW h \in Handlers, NEW local, Go(h, local),
         Good(local, failures'), failures' = 0 => failures = 0,
         Gone(local) = Gone(me[h]), StampedBy(local) = StampedBy(me[h]), Load(local) = Load(me[h]),
         Load(local) # "none" => local.held = me[h].held
  PROVE  HandlersOk' /\ Books(me, timestamps, realObjects, dummyObjects)'
<1>1. HandlersOk' /\ \E t : Changed(me', me, h, t) /\ SameBooks(h, t, local)
  BY GoStep
<1>2. PICK t : Changed(me', me, h, t) /\ SameBooks(h, t, local)
  BY <1>1
<1>3. /\ Gone(t) = Gone(me[h]) /\ StampedBy(t) = StampedBy(me[h]) /\ Load(t) = Load(me[h])
      /\ Load(t) # "none" => t.held = me[h].held
  BY <1>2 DEF SameBooks
<1>4. Books(me', timestamps, realObjects, dummyObjects)
  BY <1>2, <1>3, BooksSame
<1>. QED
  BY <1>1, <1>4 DEF bst

\* The same answers and the same ones to come.
LEMMA SameAnswers ==
  ASSUME NEW m, NEW fails, Answered(m, fails), NEW local,
         local.batch = m.batch, Passed(local) = Passed(m), local.cliResp = m.cliResp,
         local.dedupReqs = m.dedupReqs, Pending(local) = Pending(m)
  PROVE  Answered(local, fails)
BY DEF Answered

\* Before the first request.
LEMMA NothingYet ==
  ASSUME NEW rid, NEW batch, NEW resp, NEW dedup, NEW fails, ListOf(resp, rid) = << >>
  PROVE  AnsweredTo(rid, batch, 0, resp, dedup, {}, fails)
<1>1. ReadsBy(batch, 0, rid) = {} /\ SureBy(batch, 0, rid) = {}
  BY DEF ReadsBy, SureBy
<1>2. Waiting(dedup, {}, rid) = {} /\ {} \cap InEtcd = {}
  BY DEF Waiting
<1>3. IsFiniteSet({}) /\ Cardinality({}) = 0
  BY FS_EmptySet
<1>4. Len(<< >>) = 0 /\ ToSet(<< >>) = {}
  BY DEF ToSet
<1>5. /\ Cardinality(Waiting(dedup, {}, rid)) = 0 /\ Cardinality(Waiting(dedup, {} \cap InEtcd, rid)) = 0
      /\ Cardinality(ReadsBy(batch, 0, rid)) = 0 /\ Cardinality(SureBy(batch, 0, rid)) = 0
      /\ Len(ListOf(resp, rid)) = 0 /\ ToSet(ListOf(resp, rid)) = {} /\ IsFiniteSet(Waiting(dedup, {}, rid))
  BY <1>1, <1>2, <1>3, <1>4
<1>. QED
  BY <1>2, <1>5 DEF AnsweredTo

\* A batch arrives.
LEMMA ReceiveStep ==
  ASSUME IInv, NEW h \in Handlers, NEW b \in Batches[h], Receive(h, b)
  PROVE  IInv'
<1> DEFINE m == me[h]
           local == [m EXCEPT !.pc = "request", !.ts = b.at, !.batch = b.requests, !.todo = b.requests]
<1>1. /\ m \in Locals /\ Ordered(m) /\ Collected(m) /\ m.pc = "idle" /\ m = Idle
      /\ b.requests \in Seq(Requests) /\ b.at \in Nat /\ b.at <= MaxTime
  <2>1. b \in [at : Nat, requests : Seq(Requests)]
    BY ProxyAssumption
  <2>2. clock \in Nat /\ b.at \in clock .. MaxTime /\ MaxTime \in Nat
    BY ProxyAssumption DEF IInv, Receive
  <2>. QED
    BY <2>1, <2>2 DEF IInv, HandlersOk, Good, Receive, Ordered
<1>2. /\ local.pc = "request" /\ local.batch = b.requests /\ local.ts = b.at /\ local.todo = b.requests
      /\ local.cliResp = << >> /\ local.dedupReqs = << >> /\ local.left = {} /\ local.readBatch = {}
      /\ local.held = Blank /\ local.responses = << >> /\ local.writeBatch = << >>
  BY <1>1 DEF Idle
<1>3. local \in Locals
  BY <1>1 DEF Locals, Places
<1>4. Go(h, local) /\ failures' = failures /\ UNCHANGED <<cache, recency, bst, etcd>> /\ clock' = b.at
  BY DEF Receive
<1> HIDE DEF local
<1>5. Ordered(local)
  <2>1. PICK n \in Nat : n = Len(b.requests)
    BY <1>1
  <2>2. \A i \in 1 .. n : n - n + i = i
    BY <2>1
  <2>. QED
    BY <1>1, <1>2, <2>1, <2>2 DEF Ordered, Reading
<1>6. Collected(local)
  BY <1>1, <1>2 DEF Collected, Filling, Idle
<1>7. Passed(local) = 0 /\ Pending(local) = {}
  <2>1. PICK n \in Nat : n = Len(b.requests)
    BY <1>1
  <2>2. n - n + 0 = 0
    BY <2>1
  <2>. QED
    BY <1>2, <2>1, <2>2 DEF Passed, Pending
<1>8. Answered(local, failures)
  BY <1>2, <1>7, NothingYet DEF Answered, ListOf
<1>9. Good(local, failures')
  BY <1>3, <1>4, <1>5, <1>6, <1>8 DEF Good
<1>10. /\ Gone(local) = {} /\ Gone(m) = {} /\ StampedBy(local) = {} /\ StampedBy(m) = {}
       /\ Load(local) = "none" /\ Load(m) = "none"
  <2>1. PICK n \in Nat : n = Len(b.requests)
    BY <1>1
  <2>2. 1 .. n - n = {} /\ 1 .. 0 - 0 = {}
    BY <2>1
  <2>3. Gone(local) = {}
    BY <1>2, <2>1, <2>2 DEF Gone
  <2>4. Gone(m) = {}
    <3>1. Len(m.batch) = 0 /\ Len(m.todo) = 0
      BY <1>1 DEF Idle
    <3>. QED
      BY <2>2, <3>1 DEF Gone
  <2>5. StampedBy(local) = {} /\ StampedBy(m) = {}
    <3>1. local.pc \in Reading \cup {"idle"} /\ m.pc \in Reading \cup {"idle"}
      BY <1>1, <1>2 DEF Reading
    <3>. QED
      BY <3>1 DEF StampedBy
  <2>6. local.held = Blank /\ m.held = Blank
    BY <1>1, <1>2 DEF Idle
  <2>. QED
    BY <2>3, <2>4, <2>5, <2>6 DEF Load
<1> HIDE DEF m
<1>11. HandlersOk' /\ Books(me, timestamps, realObjects, dummyObjects)'
  BY <1>4, <1>9, <1>10, QuietStep DEF IInv, m
<1>12. CacheOk' /\ EtcdOk'
  BY <1>4 DEF IInv, CacheOk, EtcdOk
<1>. QED
  BY <1>1, <1>4, <1>11, <1>12 DEF IInv

\* The next request is gone through.
WentOn(local, m) ==
    LET a == Len(m.batch) - Len(m.todo)
        r == Head(m.todo)
    IN  /\ a \in Nat /\ Len(local.batch) - Len(local.todo) = a + 1
        /\ r = m.batch[a + 1] /\ r \in Requests
        /\ a + 1 \notin Gone(m)
        /\ Gone(local) = IF Reads(r) \/ Writes(r) THEN Gone(m) \cup {a + 1} ELSE Gone(m)

\* Passing over the head of the requests that are to be handled.
LEMMA NextRequest ==
  ASSUME NEW m \in Locals, Ordered(m), m.todo # << >>, NEW local \in Locals,
         local.batch = m.batch, local.todo = Tail(m.todo), local.pc = "request", local.ts = m.ts
  PROVE  Ordered(local) /\ WentOn(local, m)
<1>1. /\ Len(Tail(m.todo)) = Len(m.todo) - 1 /\ Len(m.batch) - Len(m.todo) \in Nat
      /\ Len(m.batch) \in Nat /\ Len(m.todo) \in Nat
      /\ \A i \in 1 .. Len(Tail(m.todo)) :
            Tail(m.todo)[i] = m.batch[Len(m.batch) - Len(Tail(m.todo)) + i]
      /\ Head(m.todo) = m.batch[Len(m.batch) - Len(m.todo) + 1] /\ Head(m.todo) \in Requests
  BY RequestFacts
<1>2. PICK x \in Nat, y \in Nat : x = Len(m.batch) /\ y = Len(m.todo)
  BY <1>1
<1>3. x - y \in Nat /\ y <= x /\ y - 1 <= x /\ x - (y - 1) = x - y + 1
  BY <1>1, <1>2
<1>4. Ordered(local)
  <2>1. Len(local.todo) <= Len(local.batch)
    BY <1>1, <1>2, <1>3
  <2>. QED
    BY <1>1, <2>1 DEF Ordered, Reading
<1>5. PICK a \in Nat : a = x - y
  BY <1>3
<1>6. Len(local.batch) - Len(local.todo) = a + 1 /\ Len(m.batch) - Len(m.todo) = a
  BY <1>1, <1>2, <1>3, <1>5
<1>7. 1 .. a + 1 = (1 .. a) \cup {a + 1} /\ a + 1 \notin 1 .. a
  BY <1>5
<1>8. a + 1 \notin Gone(m)
  BY <1>6, <1>7 DEF Gone
<1>9. Head(m.todo) = m.batch[a + 1]
  BY <1>1, <1>6
<1>10. Gone(local) = {i \in (1 .. a) \cup {a + 1} : Reads(m.batch[i]) \/ Writes(m.batch[i])}
  BY <1>6, <1>7 DEF Gone
<1>11. Gone(m) = {i \in 1 .. a : Reads(m.batch[i]) \/ Writes(m.batch[i])}
  BY <1>6 DEF Gone
<1>12. Gone(local) = IF Reads(Head(m.todo)) \/ Writes(Head(m.todo)) THEN Gone(m) \cup {a + 1} ELSE Gone(m)
  BY <1>9, <1>10, <1>11
<1>. QED
  BY <1>1, <1>4, <1>6, <1>8, <1>9, <1>12 DEF WentOn

\* Between two requests, as many have passed as are gone through.
LEMMA AtTheRequest ==
  ASSUME NEW local, NEW m, WentOn(local, m), local.pc = "request"
  PROVE  /\ Passed(local) = Len(m.batch) - Len(m.todo) + 1
         /\ m.pc # "object" => Passed(m) = Len(m.batch) - Len(m.todo)
         /\ m.pc = "object" => Passed(m) = Len(m.batch) - Len(m.todo) + 1
<1>1. PICK a \in Nat : a = Len(m.batch) - Len(m.todo)
  BY DEF WentOn
<1>2. Len(local.batch) - Len(local.todo) = a + 1
  BY <1>1 DEF WentOn
<1>3. a + 0 = a /\ (a + 1) + 0 = a + 1
  BY <1>1
<1>. QED
  BY <1>1, <1>2, <1>3 DEF Passed

\* What the invariant says of one handler.
LEMMA HandlerIs ==
  ASSUME IInv, NEW h \in Handlers
  PROVE  /\ me[h] \in Locals /\ Ordered(me[h]) /\ Collected(me[h]) /\ Answered(me[h], failures)
         /\ Settled(me[h]) /\ HandlersOk /\ Books(me, timestamps, realObjects, dummyObjects)
BY DEF IInv, HandlersOk, Good

\* A request that neither reads nor writes.
LEMMA SkipStep ==
  ASSUME IInv, NEW h \in Handlers, Skip(h)
  PROVE  IInv'
<1> DEFINE m == me[h]  local == [m EXCEPT !.todo = Tail(@)]
<1>1. /\ m \in Locals /\ Ordered(m) /\ Collected(m) /\ Answered(m, failures) /\ m.todo # << >>
      /\ m.pc = "request" /\ ~Reads(Head(m.todo)) /\ ~Writes(Head(m.todo))
  BY HandlerIs DEF Skip, Settled, At, Request
<1>2. Tail(m.todo) \in Seq(Requests)
  BY <1>1, RequestFacts
<1>3. /\ local.pc = "request" /\ local.batch = m.batch /\ local.ts = m.ts /\ local.todo = Tail(m.todo)
      /\ local.cliResp = m.cliResp /\ local.dedupReqs = m.dedupReqs /\ local.left = m.left
      /\ local.readBatch = m.readBatch /\ local.held = m.held
      /\ local.responses = m.responses /\ local.writeBatch = m.writeBatch
  BY <1>1 DEF Locals
<1>4. local \in Locals
  BY <1>1, <1>2 DEF Locals
<1>5. Go(h, local) /\ failures' = failures /\ UNCHANGED <<cache, recency, bst, etcd, clock>>
  BY DEF Skip
<1> HIDE DEF local
<1>6. Ordered(local) /\ WentOn(local, m)
  BY <1>1, <1>3, <1>4, NextRequest
<1>7. Collected(local)
  BY <1>1, <1>3 DEF Collected, Filling
<1>8. Passed(m) \in Nat /\ Passed(local) = Passed(m) + 1 /\ ~Reads(m.batch[Passed(m) + 1]) /\ Pending(local) = Pending(m)
  <2>1. PICK a \in Nat : a = Len(m.batch) - Len(m.todo)
    BY <1>6 DEF WentOn
  <2>2. Passed(m) = a /\ Passed(local) = a + 1
    BY <1>1, <1>3, <1>6, <2>1, AtTheRequest
  <2>3. Head(m.todo) = m.batch[a + 1]
    BY <1>6, <2>1 DEF WentOn
  <2>4. Pending(local) = Pending(m)
    BY <1>1, <1>3 DEF Pending
  <2>. QED
    BY <1>1, <2>2, <2>3, <2>4
<1>9. Answered(local, failures)
  <2>1. ASSUME NEW rid \in Rids
        PROVE  AnsweredTo(rid, m.batch, Passed(m) + 1, m.cliResp, m.dedupReqs, Pending(m), failures)
    <3>1. AnsweredTo(rid, m.batch, Passed(m), m.cliResp, m.dedupReqs, Pending(m), failures)
      BY <1>1 DEF Answered
    <3>. QED
      BY <1>8, <3>1, NoRead
  <2>. QED
    BY <1>3, <1>8, <2>1 DEF Answered
<1>10. Good(local, failures')
  BY <1>4, <1>5, <1>6, <1>7, <1>9 DEF Good
<1>11. /\ Gone(local) = Gone(m) /\ StampedBy(local) = StampedBy(m) /\ Load(local) = Load(m)
       /\ local.held = m.held
  <2>1. Gone(local) = Gone(m)
    BY <1>1, <1>6 DEF WentOn
  <2>. QED
    BY <1>1, <1>3, <2>1 DEF StampedBy, Load
<1> HIDE DEF m
<1>12. HandlersOk' /\ Books(me, timestamps, realObjects, dummyObjects)'
  <2>1. UNCHANGED bst /\ HandlersOk /\ Books(me, timestamps, realObjects, dummyObjects)
    BY <1>5, HandlerIs
  <2>. QED
    BY <2>1, <1>5, <1>10, <1>11, QuietStep DEF m
<1>13. CacheOk' /\ EtcdOk'
  BY <1>5 DEF IInv, CacheOk, EtcdOk
<1>. QED
  BY <1>5, <1>12, <1>13 DEF IInv

\* The request at hand, the first that has not passed.
AtHand(m, a) ==
    /\ a = Len(m.batch) - Len(m.todo)
    /\ Head(m.todo) = m.batch[a + 1] /\ Head(m.todo) = m.todo[1] /\ Head(m.todo) \in Requests
    /\ m.pc = "object" => Passed(m) = a + 1
    /\ m.pc # "object" => Passed(m) = a

\* The head of the requests that are to be handled is the next of the batch.
LEMMA RequestAtHand ==
  ASSUME NEW m \in Locals, Ordered(m), m.todo # << >>
  PROVE  \E a \in Nat : AtHand(m, a)
<1>1. /\ Len(m.batch) - Len(m.todo) \in Nat /\ Head(m.todo) = m.batch[Len(m.batch) - Len(m.todo) + 1]
      /\ Head(m.todo) = m.todo[1] /\ Head(m.todo) \in Requests
  BY RequestFacts
<1>2. PICK a \in Nat : a = Len(m.batch) - Len(m.todo)
  BY <1>1
<1>3. m.pc # "object" => Passed(m) = a
  <2>1. a + 0 = a
    BY <1>2
  <2>. QED
    BY <1>2, <2>1 DEF Passed
<1>4. m.pc = "object" => Passed(m) = a + 1
  BY <1>2 DEF Passed
<1>. QED
  BY <1>1, <1>2, <1>3, <1>4 DEF AtHand

\* The same request, at a later place.
LEMMA SameRequest ==
  ASSUME NEW m \in Locals, Ordered(m), m.todo # << >>, NEW local \in Locals,
         local.batch = m.batch, local.todo = m.todo, local.ts = m.ts
  PROVE  /\ local.pc = "put" /\ Writes(Head(m.todo)) => Ordered(local)
         /\ local.pc = "object" /\ (Reads(Head(m.todo)) \/ Writes(Head(m.todo))) => Ordered(local)
         /\ Gone(local) = Gone(m)
<1>1. Head(m.todo) = m.todo[1]
  BY RequestFacts
<1>. QED
  BY <1>1 DEF Ordered, Reading, Gone

\* A cached value is one of its key.
LEMMA CachedValue ==
  ASSUME NEW c, NEW s, Linked(c, s), NEW k \in CachedKeys(c)
  PROVE  k \in ToSet(s) /\ Value(c, k) \in Values /\ Value(c, k)[1] = k /\ k \in Keys
<1>1. s \in Seq(Keys) /\ c.entry \in [ToSet(s) -> CacheEntry]
  BY DEF Linked
<1>2. k \in ToSet(s)
  BY <1>1 DEF CachedKeys
<1>3. ToSet(s) = {s[i] : i \in 1 .. Len(s)} /\ ToSet(s) \subseteq Keys
  BY <1>1, KeysAt
<1>4. PICK i \in 1 .. Len(s) : k = s[i]
  BY <1>2, <1>3
<1>5. c.entry[k].value[1] = k
  BY <1>4 DEF Linked
<1>6. c.entry[k].value \in Values
  BY <1>1, <1>2 DEF CacheEntry
<1>. QED
  BY <1>2, <1>3, <1>5, <1>6 DEF Value

\* A key that is used again.
LEMMA UseKeeps ==
  ASSUME CacheOk, NEW k \in CachedKeys(cache), CacheUse(k)
  PROVE  CacheOk'
<1> DEFINE s2 == Used(recency, k)
<1>1. Linked(cache, recency) /\ Len(recency) <= Capacity
  BY DEF CacheOk
<1>2. k \in ToSet(recency)
  BY <1>1, CachedValue
<1>3. Linked(MoveToHead(cache, k), s2) /\ ToSet(s2) = ToSet(recency)
  BY <1>1, <1>2, MoveLinks
<1> HIDE DEF s2
<1>4. /\ s2 \in Seq(Keys) /\ Distinct(s2) /\ recency \in Seq(Keys) /\ Distinct(recency)
  BY <1>1, <1>3 DEF Linked, Distinct
<1>5. Len(s2) = Len(recency)
  <2>1. Cardinality(ToSet(s2)) = Len(s2) /\ Cardinality(ToSet(recency)) = Len(recency)
    BY <1>4, LinkedCount
  <2>. QED
    BY <1>3, <2>1
<1>6. Linked(MoveToHead(cache, k), s2) /\ Len(s2) <= Capacity
  BY <1>1, <1>3, <1>5
<1>. QED
  BY <1>6 DEF CacheOk, CacheUse, s2

\* A read that the cache serves.
LEMMA HitStep ==
  ASSUME IInv, NEW h \in Handlers, ReadRequest(h), Request(h).key \in CachedKeys(cache)
  PROVE  IInv'
<1> DEFINE m == me[h]  r == Head(m.todo)  v == Value(cache, r.key)  resp == Extend(m.cliResp, r.rid, v)
           local == [m EXCEPT !.pc = "object", !.cliResp = resp]
<1>1. /\ m \in Locals /\ Ordered(m) /\ Collected(m) /\ Answered(m, failures) /\ m.todo # << >>
      /\ m.pc = "request" /\ Reads(r) /\ r.key \in CachedKeys(cache)
  BY HandlerIs DEF ReadRequest, Settled, At, Request
<1>2. /\ Go(h, local) /\ failures' = failures /\ UNCHANGED <<bst, etcd, clock>> /\ CacheUse(r.key)
  BY DEF ReadRequest, Request
<1>3. PICK a \in Nat : AtHand(m, a)
  BY <1>1, RequestAtHand
<1>4. r.rid \in Rids /\ r.key \in Keys
  BY <1>1, <1>3, ReadsAndWrites DEF AtHand
<1>5. v \in Values /\ v[1] = r.key
  BY <1>1, CachedValue DEF IInv, CacheOk
<1>6. m.cliResp \in Partial(Rids, Seq(Values))
  BY <1>1 DEF Locals
<1> HIDE DEF v
<1>7. resp \in Partial(Rids, Seq(Values))
  BY <1>4, <1>5, <1>6, ExtendFacts
<1> HIDE DEF r, resp
<1>8. local \in Locals
  BY <1>1, <1>7 DEF Locals, Places
<1>9. /\ local.pc = "object" /\ local.batch = m.batch /\ local.ts = m.ts /\ local.todo = m.todo
      /\ local.cliResp = resp /\ local.dedupReqs = m.dedupReqs /\ local.left = m.left
      /\ local.readBatch = m.readBatch /\ local.held = m.held
      /\ local.responses = m.responses /\ local.writeBatch = m.writeBatch
  BY <1>1 DEF Locals
<1> HIDE DEF local
<1>10. Ordered(local) /\ Gone(local) = Gone(m)
  BY <1>1, <1>8, <1>9, SameRequest DEF r
<1>11. Collected(local)
  BY <1>1, <1>9 DEF Collected, Filling
<1>12. Passed(m) = a /\ Passed(local) = a + 1 /\ r = m.batch[a + 1] /\ Pending(local) = Pending(m)
  BY <1>1, <1>3, <1>9 DEF AtHand, Passed, Pending, r
<1>13. Answered(local, failures)
  <2>1. ASSUME NEW rid \in Rids
        PROVE  AnsweredTo(rid, m.batch, a + 1, resp, m.dedupReqs, Pending(m), failures)
    <3>1. AnsweredTo(rid, m.batch, a, m.cliResp, m.dedupReqs, Pending(m), failures)
      BY <1>1, <1>12 DEF Answered
    <3>. QED
      BY <1>1, <1>4, <1>5, <1>6, <1>12, <3>1, ReadHit DEF resp
  <2>. QED
    BY <1>9, <1>12, <2>1 DEF Answered
<1>14. Good(local, failures')
  BY <1>2, <1>8, <1>10, <1>11, <1>13 DEF Good
<1>15. StampedBy(local) = StampedBy(m) /\ Load(local) = Load(m) /\ local.held = m.held
  BY <1>1, <1>9 DEF StampedBy, Load, Reading, Filling
<1> HIDE DEF m
<1>16. HandlersOk' /\ Books(me, timestamps, realObjects, dummyObjects)'
  <2>1. UNCHANGED bst /\ HandlersOk /\ Books(me, timestamps, realObjects, dummyObjects)
    BY <1>2, HandlerIs
  <2>. QED
    BY <2>1, <1>2, <1>10, <1>14, <1>15, QuietStep DEF m
<1>17. CacheOk' /\ EtcdOk'
  <2>1. CacheOk'
    BY <1>1, <1>2, UseKeeps DEF IInv
  <2>. QED
    BY <2>1, <1>2 DEF IInv, EtcdOk
<1>. QED
  BY <1>2, <1>16, <1>17 DEF IInv

\* A read that has to wait for etcd.
LEMMA MissStep ==
  ASSUME IInv, NEW h \in Handlers, ReadRequest(h), Request(h).key \notin CachedKeys(cache)
  PROVE  IInv'
<1> DEFINE m == me[h]  r == Head(m.todo)  q == [rid |-> r.rid, needResp |-> TRUE]
           dedup == Extend(m.dedupReqs, r.key, q)
           local == [m EXCEPT !.pc = "object", !.dedupReqs = dedup]
<1>1. /\ m \in Locals /\ Ordered(m) /\ Collected(m) /\ Answered(m, failures) /\ m.todo # << >>
      /\ m.pc = "request" /\ Reads(r)
  BY HandlerIs DEF ReadRequest, Settled, At, Request
<1>2. /\ Go(h, local) /\ failures' = failures /\ UNCHANGED <<cache, recency, bst, etcd, clock>>
  BY DEF ReadRequest, Request, Missed
<1>3. PICK a \in Nat : AtHand(m, a)
  BY <1>1, RequestAtHand
<1>4. r.rid \in Rids /\ r.key \in Keys
  BY <1>1, <1>3, ReadsAndWrites DEF AtHand
<1>5. q \in MissedReqs /\ q.needResp /\ q.rid = r.rid
  BY <1>4 DEF MissedReqs
<1>6. m.cliResp \in Partial(Rids, Seq(Values)) /\ m.dedupReqs \in Partial(Keys, Seq(MissedReqs))
  BY <1>1 DEF Locals
<1> HIDE DEF q
<1>7. dedup \in Partial(Keys, Seq(MissedReqs)) /\ DOMAIN dedup = DOMAIN m.dedupReqs \cup {r.key}
  <2>1. dedup \in Partial(Keys, Seq(MissedReqs)) /\ Extended(dedup, m.dedupReqs, r.key, q)
    BY <1>4, <1>5, <1>6, ExtendFacts
  <2> HIDE DEF m, r, dedup
  <2>. QED
    BY <2>1 DEF Extended
<1> HIDE DEF r, dedup
<1>8. local \in Locals
  BY <1>1, <1>7 DEF Locals, Places
<1>9. /\ local.pc = "object" /\ local.batch = m.batch /\ local.ts = m.ts /\ local.todo = m.todo
      /\ local.cliResp = m.cliResp /\ local.dedupReqs = dedup /\ local.left = m.left
      /\ local.readBatch = m.readBatch /\ local.held = m.held
      /\ local.responses = m.responses /\ local.writeBatch = m.writeBatch
  BY <1>1 DEF Locals
<1> HIDE DEF local
<1>10. Ordered(local) /\ Gone(local) = Gone(m)
  BY <1>1, <1>8, <1>9, SameRequest DEF r
<1>11. Collected(local)
  <2>1. IsFiniteSet(DOMAIN m.dedupReqs)
    BY <1>1 DEF Collected
  <2>2. IsFiniteSet(DOMAIN dedup)
    BY <1>7, <2>1, FS_AddElement
  <2>. QED
    BY <1>1, <1>7, <1>9, <2>2 DEF Collected, Filling
<1>12. /\ Passed(m) = a /\ Passed(local) = a + 1 /\ r = m.batch[a + 1]
       /\ Pending(m) = DOMAIN m.dedupReqs /\ Pending(local) = DOMAIN dedup
  BY <1>1, <1>3, <1>9 DEF AtHand, Passed, Pending, r
<1>13. Answered(local, failures)
  <2>1. ASSUME NEW rid \in Rids
        PROVE  AnsweredTo(rid, m.batch, a + 1, m.cliResp, dedup, DOMAIN dedup, failures)
    <3>1. AnsweredTo(rid, m.batch, a, m.cliResp, m.dedupReqs, DOMAIN m.dedupReqs, failures)
      BY <1>1, <1>12 DEF Answered
    <3>. QED
      BY <1>1, <1>4, <1>5, <1>6, <1>12, <3>1, ReadMissed DEF dedup
  <2>. QED
    BY <1>9, <1>12, <2>1 DEF Answered
<1>14. Good(local, failures')
  BY <1>2, <1>8, <1>10, <1>11, <1>13 DEF Good
<1>15. StampedBy(local) = StampedBy(m) /\ Load(local) = Load(m) /\ local.held = m.held
  BY <1>1, <1>9 DEF StampedBy, Load, Reading, Filling
<1> HIDE DEF m
<1>16. HandlersOk' /\ Books(me, timestamps, realObjects, dummyObjects)'
  <2>1. UNCHANGED bst /\ HandlersOk /\ Books(me, timestamps, realObjects, dummyObjects)
    BY <1>2, HandlerIs
  <2>. QED
    BY <2>1, <1>2, <1>10, <1>14, <1>15, QuietStep DEF m
<1>17. CacheOk' /\ EtcdOk'
  BY <1>2 DEF IInv, EtcdOk, CacheOk
<1>. QED
  BY <1>2, <1>16, <1>17 DEF IInv

\* A write, of a key that is cached or waits for etcd without an answer.
LEMMA WriteRequestStep ==
  ASSUME IInv, NEW h \in Handlers, WriteRequest(h)
  PROVE  IInv'
<1> DEFINE m == me[h]  r == Head(m.todo)  q == [rid |-> r.rid, needResp |-> FALSE]
           dedup == IF r.key \in CachedKeys(cache) THEN m.dedupReqs ELSE Extend(m.dedupReqs, r.key, q)
           local == [m EXCEPT !.pc = "put", !.dedupReqs = dedup]
<1>1. /\ m \in Locals /\ Ordered(m) /\ Collected(m) /\ Answered(m, failures) /\ m.todo # << >>
      /\ m.pc = "request" /\ Writes(r)
  BY HandlerIs DEF WriteRequest, Settled, At, Request
<1>2. /\ Go(h, local) /\ failures' = failures /\ UNCHANGED <<cache, recency, bst, etcd, clock>>
  BY DEF WriteRequest, Request, Missed
<1>3. PICK a \in Nat : AtHand(m, a)
  BY <1>1, RequestAtHand
<1>4. r.rid \in Rids /\ r.key \in Keys
  BY <1>1, <1>3, ReadsAndWrites DEF AtHand
<1>5. q \in MissedReqs /\ ~q.needResp
  BY <1>4 DEF MissedReqs
<1>6. m.cliResp \in Partial(Rids, Seq(Values)) /\ m.dedupReqs \in Partial(Keys, Seq(MissedReqs))
  BY <1>1 DEF Locals
<1>7. IsFiniteSet(DOMAIN m.dedupReqs)
  BY <1>1 DEF Collected
<1> HIDE DEF q, m, r
<1>8. \A rid \in Rids : AnsweredTo(rid, m.batch, Passed(m), m.cliResp, m.dedupReqs, DOMAIN m.dedupReqs, failures)
  <2>1. Pending(m) = DOMAIN m.dedupReqs
    BY <1>1 DEF Pending
  <2>. QED
    BY <1>1, <2>1 DEF Answered
<1>9. /\ dedup \in Partial(Keys, Seq(MissedReqs)) /\ IsFiniteSet(DOMAIN dedup)
      /\ DOMAIN m.dedupReqs \subseteq DOMAIN dedup
      /\ \A rid \in Rids : AnsweredTo(rid, m.batch, Passed(m), m.cliResp, dedup, DOMAIN dedup, failures)
  <2>1. CASE r.key \in CachedKeys(cache)
    BY <1>6, <1>7, <1>8, <2>1
  <2>2. CASE r.key \notin CachedKeys(cache)
    <3> DEFINE d == Extend(m.dedupReqs, r.key, q)
    <3>1. d \in Partial(Keys, Seq(MissedReqs)) /\ Extended(d, m.dedupReqs, r.key, q)
      BY <1>4, <1>5, <1>6, ExtendFacts
    <3>2. ASSUME NEW rid \in Rids
          PROVE  AnsweredTo(rid, m.batch, Passed(m), m.cliResp, d, DOMAIN d, failures)
      <4>1. Passed(m) \in Nat
        BY <1>1, PassedIs
      <4>2. AnsweredTo(rid, m.batch, Passed(m), m.cliResp, m.dedupReqs, DOMAIN m.dedupReqs, failures)
        BY <1>8
      <4>. QED
        BY <1>4, <1>5, <1>6, <4>1, <4>2, WriteMissed
    <3> HIDE DEF d
    <3>3. DOMAIN d = DOMAIN m.dedupReqs \cup {r.key}
      BY <3>1 DEF Extended
    <3>4. IsFiniteSet(DOMAIN d)
      BY <1>7, <3>3, FS_AddElement
    <3>5. dedup = d
      BY <2>2 DEF d
    <3> HIDE DEF dedup
    <3>. QED
      BY <3>1, <3>2, <3>3, <3>4, <3>5
  <2>. QED
    BY <2>1, <2>2
<1> HIDE DEF dedup
<1>10. local \in Locals
  BY <1>1, <1>9 DEF Locals, Places
<1>11. /\ local.pc = "put" /\ local.batch = m.batch /\ local.ts = m.ts /\ local.todo = m.todo
       /\ local.cliResp = m.cliResp /\ local.dedupReqs = dedup /\ local.left = m.left
       /\ local.readBatch = m.readBatch /\ local.held = m.held
       /\ local.responses = m.responses /\ local.writeBatch = m.writeBatch
  BY <1>1 DEF Locals
<1>12. Go(h, local)
  BY <1>2 DEF m, r, dedup, q
<1> HIDE DEF local
<1>13. Ordered(local) /\ Gone(local) = Gone(m)
  BY <1>1, <1>10, <1>11, SameRequest DEF r
<1>14. Collected(local)
  BY <1>1, <1>9, <1>11 DEF Collected, Filling
<1>15. Passed(local) = Passed(m) /\ Pending(local) = DOMAIN dedup
  BY <1>1, <1>11 DEF Passed, Pending
<1>16. Answered(local, failures)
  BY <1>9, <1>11, <1>15 DEF Answered
<1>17. Good(local, failures')
  BY <1>2, <1>10, <1>13, <1>14, <1>16 DEF Good
<1>18. StampedBy(local) = StampedBy(m) /\ Load(local) = Load(m) /\ local.held = m.held
  BY <1>1, <1>11 DEF StampedBy, Load, Reading, Filling
<1>19. HandlersOk' /\ Books(me, timestamps, realObjects, dummyObjects)'
  <2>1. UNCHANGED bst /\ HandlersOk /\ Books(me, timestamps, realObjects, dummyObjects)
    BY <1>2, HandlerIs
  <2>. QED
    BY <2>1, <1>2, <1>12, <1>13, <1>17, <1>18, QuietStep DEF m
<1>20. CacheOk' /\ EtcdOk'
  BY <1>2 DEF IInv, EtcdOk, CacheOk
<1>. QED
  BY <1>2, <1>19, <1>20 DEF IInv

\* The value that is written goes to the cache.
LEMMA WritePutStep ==
  ASSUME IInv, NEW h \in Handlers, WritePut(h)
  PROVE  IInv'
<1> DEFINE m == me[h]  r == Head(m.todo)  local == [m EXCEPT !.pc = "object"]
<1>1. /\ m \in Locals /\ Ordered(m) /\ Collected(m) /\ Answered(m, failures) /\ m.pc = "put"
  BY HandlerIs DEF WritePut, At
<1>2. m.todo # << >> /\ Writes(m.todo[1])
  BY <1>1 DEF Ordered
<1>3. PICK a \in Nat : AtHand(m, a)
  BY <1>1, <1>2, RequestAtHand
<1>4. r = m.batch[a + 1] /\ r \in Requests /\ Writes(r)
  BY <1>2, <1>3 DEF AtHand
<1>5. r.key \in Keys /\ r.val \in Values /\ r.val[1] = r.key /\ ~Reads(r)
  BY <1>4, ReadsAndWrites
<1>6. /\ Go(h, local) /\ failures' = failures /\ UNCHANGED <<bst, etcd, clock>>
      /\ cache' = Put(cache, r.key, r.val) /\ recency' = PutOrder(recency, r.key)
  BY DEF WritePut, CachePut, Request, PutOrder
<1> HIDE DEF r
<1>7. local \in Locals
  BY <1>1 DEF Locals, Places
<1>8. /\ local.pc = "object" /\ local.batch = m.batch /\ local.ts = m.ts /\ local.todo = m.todo
      /\ local.cliResp = m.cliResp /\ local.dedupReqs = m.dedupReqs /\ local.left = m.left
      /\ local.readBatch = m.readBatch /\ local.held = m.held
      /\ local.responses = m.responses /\ local.writeBatch = m.writeBatch
  BY <1>1 DEF Locals
<1> HIDE DEF local
<1>9. Ordered(local) /\ Gone(local) = Gone(m)
  BY <1>1, <1>2, <1>4, <1>7, <1>8, SameRequest DEF r
<1>10. Collected(local)
  BY <1>1, <1>8 DEF Collected, Filling
<1>11. Passed(m) = a /\ Passed(local) = a + 1 /\ Pending(local) = Pending(m)
  BY <1>1, <1>3, <1>8 DEF AtHand, Passed, Pending
<1>12. Answered(local, failures)
  <2>1. ASSUME NEW rid \in Rids
        PROVE  AnsweredTo(rid, m.batch, a + 1, m.cliResp, m.dedupReqs, Pending(m), failures)
    <3>1. AnsweredTo(rid, m.batch, a, m.cliResp, m.dedupReqs, Pending(m), failures)
      BY <1>1, <1>11 DEF Answered
    <3>2. ~Reads(m.batch[a + 1])
      BY <1>4, <1>5
    <3>. QED
      BY <3>1, <3>2, NoRead
  <2>. QED
    BY <1>8, <1>11, <2>1 DEF Answered
<1>13. Good(local, failures')
  BY <1>6, <1>7, <1>9, <1>10, <1>12 DEF Good
<1>14. StampedBy(local) = StampedBy(m) /\ Load(local) = Load(m) /\ local.held = m.held
  BY <1>1, <1>8 DEF StampedBy, Load, Reading, Filling
<1> HIDE DEF m
<1>15. HandlersOk' /\ Books(me, timestamps, realObjects, dummyObjects)'
  <2>1. UNCHANGED bst /\ HandlersOk /\ Books(me, timestamps, realObjects, dummyObjects)
    BY <1>6, HandlerIs
  <2>. QED
    BY <2>1, <1>6, <1>9, <1>13, <1>14, QuietStep DEF m
<1>16. CacheOk'
  <2>1. Linked(Put(cache, r.key, r.val), PutOrder(recency, r.key)) /\ Len(PutOrder(recency, r.key)) <= Capacity
    BY <1>5, PutLinks DEF IInv, CacheOk
  <2>. QED
    BY <1>6, <2>1 DEF CacheOk
<1>17. EtcdOk'
  BY <1>6 DEF IInv, EtcdOk
<1>. QED
  BY <1>6, <1>15, <1>16, <1>17 DEF IInv

\* SetTimestamp, for a reason of the handler's own.
LEMMA AddStep ==
  ASSUME HandlersOk, Books(me, timestamps, realObjects, dummyObjects),
         NEW h \in Handlers, NEW local, Go(h, local), NEW k \in Keys, NEW n \in Nat,
         SetTimestamp(k, n, "real"),
         Good(local, failures'), failures' = 0 => failures = 0,
         Load(local) = "none", Load(me[h]) = "none",
         NEW e, e[1][1] = h, e \notin Added(h, me[h]), Added(h, local) = Added(h, me[h]) \cup {e}
  PROVE  HandlersOk' /\ Books(me, timestamps, realObjects, dummyObjects)'
<1>1. HandlersOk' /\ \E t : Changed(me', me, h, t) /\ SameBooks(h, t, local)
  BY GoStep
<1>2. PICK t : Changed(me', me, h, t) /\ SameBooks(h, t, local)
  BY <1>1
<1>3. Load(t) = "none" /\ Added(h, t) = Added(h, me[h]) \cup {e}
  BY <1>2 DEF SameBooks
<1>4. Books(me', With(timestamps, k, n), Insert(realObjects, n, k), dummyObjects)
  BY <1>2, <1>3, BooksAdd
<1>. QED
  BY <1>1, <1>4 DEF SetTimestamp, AddTo

\* The object of a request gets an entry.
LEMMA RegisterStep ==
  ASSUME IInv, NEW h \in Handlers, Register(h)
  PROVE  IInv'
<1> DEFINE m == me[h]  r == Head(m.todo)  local == [m EXCEPT !.pc = "request", !.todo = Tail(@)]
           n == IF r.key \in DOMAIN timestamps THEN timestamps[r.key] ELSE 0
<1>1. /\ m \in Locals /\ Ordered(m) /\ Collected(m) /\ Answered(m, failures) /\ m.pc = "object"
  BY HandlerIs DEF Register, At
<1>2. m.todo # << >> /\ (Reads(m.todo[1]) \/ Writes(m.todo[1]))
  BY <1>1 DEF Ordered
<1>3. PICK a \in Nat : AtHand(m, a)
  BY <1>1, <1>2, RequestAtHand
<1>4. r \in Requests /\ (Reads(r) \/ Writes(r))
  BY <1>2, <1>3 DEF AtHand
<1>5. r.key \in Keys
  BY <1>4, ReadsAndWrites
<1>6. /\ Go(h, local) /\ failures' = failures /\ UNCHANGED <<cache, recency, etcd, clock>>
      /\ SetTimestamp(r.key, n, "real")
  BY DEF Register, AddObject, Request
<1>7. n \in Nat
  BY DEF IInv, Books, Heaps, Partial
<1> HIDE DEF r, n
<1>8. Tail(m.todo) \in Seq(Requests)
  BY <1>1, <1>2, RequestFacts
<1>9. local \in Locals
  BY <1>1, <1>8 DEF Locals, Places
<1>10. /\ local.pc = "request" /\ local.batch = m.batch /\ local.ts = m.ts /\ local.todo = Tail(m.todo)
       /\ local.cliResp = m.cliResp /\ local.dedupReqs = m.dedupReqs /\ local.left = m.left
       /\ local.readBatch = m.readBatch /\ local.held = m.held
       /\ local.responses = m.responses /\ local.writeBatch = m.writeBatch
  BY <1>1 DEF Locals
<1> HIDE DEF local
<1>11. Ordered(local) /\ WentOn(local, m)
  BY <1>1, <1>2, <1>9, <1>10, NextRequest
<1>12. Collected(local)
  BY <1>1, <1>10 DEF Collected, Filling
<1>13. Passed(local) = Passed(m) /\ Pending(local) = Pending(m)
  <2>1. Passed(local) = Passed(m)
    BY <1>1, <1>10, <1>11, AtTheRequest
  <2>. QED
    BY <1>1, <1>10, <2>1 DEF Pending
<1>14. Answered(local, failures)
  BY <1>1, <1>10, <1>13, SameAnswers
<1>15. Good(local, failures')
  BY <1>6, <1>9, <1>11, <1>12, <1>14 DEF Good
<1> DEFINE e == <<<<h, "request">>, a + 1>>
<1>16. Load(local) = "none" /\ Load(m) = "none" /\ StampedBy(local) = {} /\ StampedBy(m) = {}
  BY <1>1, <1>10 DEF StampedBy, Load, Reading, Filling
<1>17. Gone(local) = Gone(m) \cup {a + 1} /\ a + 1 \notin Gone(m)
  BY <1>3, <1>4, <1>11 DEF WentOn, AtHand, r
<1>18. e \notin Added(h, m) /\ Added(h, local) = Added(h, m) \cup {e} /\ e[1][1] = h
  BY <1>16, <1>17 DEF Added
<1> HIDE DEF m, e
<1>19. HandlersOk' /\ Books(me, timestamps, realObjects, dummyObjects)'
  <2>1. HandlersOk /\ Books(me, timestamps, realObjects, dummyObjects)
    BY HandlerIs
  <2>. QED
    BY <2>1, <1>5, <1>6, <1>7, <1>15, <1>16, <1>18, AddStep DEF m
<1>20. CacheOk' /\ EtcdOk'
  BY <1>6 DEF IInv, EtcdOk, CacheOk
<1>. QED
  BY <1>6, <1>19, <1>20 DEF IInv

\* A missed key gets its timestamp.
LEMMA StampStep ==
  ASSUME IInv, NEW h \in Handlers, NEW k \in me[h].left, StampMissed(h, k)
  PROVE  IInv'
<1> DEFINE m == me[h]  local == [m EXCEPT !.left = @ \ {k}, !.readBatch = @ \cup {k}]
           e == <<<<h, "missed">>, k>>
<1>1. /\ m \in Locals /\ Ordered(m) /\ Collected(m) /\ Answered(m, failures) /\ m.pc = "stamp"
  BY HandlerIs DEF StampMissed, At
<1>2. k \in m.left /\ k \in Keys /\ m.ts \in Nat /\ k \in DOMAIN m.dedupReqs
  BY <1>1 DEF Locals, Collected
<1>3. /\ Go(h, local) /\ failures' = failures /\ UNCHANGED <<cache, recency, etcd, clock>>
      /\ SetTimestamp(k, m.ts, "real")
  BY DEF StampMissed
<1>4. local \in Locals
  BY <1>1, <1>2 DEF Locals
<1>5. /\ local.pc = "stamp" /\ local.batch = m.batch /\ local.ts = m.ts /\ local.todo = m.todo
      /\ local.cliResp = m.cliResp /\ local.dedupReqs = m.dedupReqs /\ local.left = m.left \ {k}
      /\ local.readBatch = m.readBatch \cup {k} /\ local.held = m.held
      /\ local.responses = m.responses /\ local.writeBatch = m.writeBatch
  BY <1>1 DEF Locals
<1> HIDE DEF local
<1>6. Ordered(local)
  BY <1>1, <1>5 DEF Ordered, Reading
<1>7. Collected(local)
  <2>1. IsFiniteSet(m.readBatch)
    BY <1>1 DEF Collected
  <2>2. IsFiniteSet(local.readBatch)
    BY <1>5, <2>1, FS_AddElement
  <2>3. DOMAIN local.dedupReqs \ local.left \subseteq local.readBatch
    BY <1>1, <1>5 DEF Collected, Filling
  <2>. QED
    BY <1>1, <1>5, <2>2, <2>3 DEF Collected, Filling
<1>8. Passed(local) = Passed(m) /\ Pending(local) = Pending(m) /\ Gone(local) = Gone(m)
  BY <1>1, <1>5 DEF Passed, Pending, Gone
<1>9. Answered(local, failures)
  BY <1>1, <1>5, <1>8, SameAnswers
<1>10. Good(local, failures')
  BY <1>3, <1>4, <1>6, <1>7, <1>9 DEF Good
<1>11. Load(local) = "none" /\ Load(m) = "none"
  BY <1>1, <1>5 DEF Load, Filling
<1>12. StampedBy(local) = StampedBy(m) \cup {k} /\ k \notin StampedBy(m)
  BY <1>1, <1>2, <1>5 DEF StampedBy, Reading
<1>13. e \notin Added(h, m) /\ Added(h, local) = Added(h, m) \cup {e} /\ e[1][1] = h
  BY <1>8, <1>12 DEF Added
<1> HIDE DEF m, e
<1>14. HandlersOk' /\ Books(me, timestamps, realObjects, dummyObjects)'
  <2>1. HandlersOk /\ Books(me, timestamps, realObjects, dummyObjects)
    BY HandlerIs
  <2>. QED
    BY <2>1, <1>2, <1>3, <1>10, <1>11, <1>13, AddStep DEF m
<1>15. CacheOk' /\ EtcdOk'
  BY <1>3 DEF IInv, EtcdOk, CacheOk
<1>. QED
  BY <1>3, <1>14, <1>15 DEF IInv

\* No key is left in the heap.
LEMMA PopNothingStep ==
  ASSUME IInv, NEW h \in Handlers, Pop(h), Heap(Kind(h)) = << >>
  PROVE  IInv'
<1> DEFINE m == me[h]  local == [m EXCEPT !.slots = @ - 1]
<1>1. /\ m \in Locals /\ Ordered(m) /\ Collected(m) /\ Answered(m, failures)
      /\ m.pc \in Filling /\ m.slots > 0 /\ m.held = Blank
  BY HandlerIs DEF Pop
<1>2. Go(h, local) /\ failures' = failures /\ UNCHANGED <<cache, recency, bst, etcd, clock>>
  BY DEF Pop
<1>3. m.slots \in Nat /\ m.slots - 1 \in Nat
  <2>1. m.slots \in Nat
    BY <1>1 DEF Locals
  <2> HIDE DEF m
  <2>. QED
    BY <1>1, <2>1
<1>4. local \in Locals
  BY <1>1, <1>3 DEF Locals
<1>5. /\ local.pc = m.pc /\ local.batch = m.batch /\ local.ts = m.ts /\ local.todo = m.todo
      /\ local.cliResp = m.cliResp /\ local.dedupReqs = m.dedupReqs /\ local.left = m.left
      /\ local.readBatch = m.readBatch /\ local.held = m.held
      /\ local.responses = m.responses /\ local.writeBatch = m.writeBatch
  BY <1>1 DEF Locals
<1> HIDE DEF local
<1>6. Ordered(local)
  BY <1>1, <1>5 DEF Ordered, Reading, Filling
<1>7. Collected(local)
  BY <1>1, <1>5 DEF Collected, Filling
<1>8. Passed(local) = Passed(m) /\ Pending(local) = Pending(m) /\ Gone(local) = Gone(m)
  BY <1>1, <1>5 DEF Passed, Pending, Gone
<1>9. Answered(local, failures)
  BY <1>1, <1>5, <1>8, SameAnswers
<1>10. Good(local, failures')
  BY <1>2, <1>4, <1>6, <1>7, <1>9 DEF Good
<1>11. StampedBy(local) = StampedBy(m) /\ Load(local) = Load(m) /\ local.held = m.held
  BY <1>1, <1>5 DEF StampedBy, Load
<1> HIDE DEF m
<1>12. HandlersOk' /\ Books(me, timestamps, realObjects, dummyObjects)'
  <2>1. UNCHANGED bst /\ HandlersOk /\ Books(me, timestamps, realObjects, dummyObjects)
    BY <1>2, HandlerIs
  <2>. QED
    BY <2>1, <1>2, <1>8, <1>10, <1>11, QuietStep DEF m
<1>13. CacheOk' /\ EtcdOk'
  BY <1>2 DEF IInv, EtcdOk, CacheOk
<1>. QED
  BY <1>2, <1>12, <1>13 DEF IInv

\* The key that is due is taken out of its heap.
LEMMA PopKeyStep ==
  ASSUME IInv, NEW h \in Handlers, Pop(h), Heap(Kind(h)) # << >>
  PROVE  IInv'
<1> DEFINE m == me[h]  k == Heap(Kind(h))[1][2]  local == [m EXCEPT !.held = k]
<1>1. /\ m \in Locals /\ Ordered(m) /\ Collected(m) /\ Answered(m, failures)
      /\ m.pc \in Filling /\ m.slots > 0 /\ m.held = Blank
  BY HandlerIs DEF Pop
<1>2. /\ Go(h, local) /\ failures' = failures /\ UNCHANGED <<cache, recency, etcd, clock>>
      /\ RemoveMin(Kind(h))
  BY DEF Pop
<1>3. HandlersOk /\ Books(me, timestamps, realObjects, dummyObjects)
  BY HandlerIs
<1>4. Heap(Kind(h)) \in Seq(Entries) /\ IsHeap(Heap(Kind(h)))
  BY <1>3 DEF Books, Heaps, Heap
<1>5. k \in Keys /\ k # Blank
  <2>1. Heap(Kind(h))[1] \in Entries
    BY <1>4, AfterPopFacts
  <2>. QED
    BY <2>1, BlankIsNoKey DEF Entries
<1> HIDE DEF k
<1>6. local \in Locals
  BY <1>1, <1>5 DEF Locals
<1>7. /\ local.pc = m.pc /\ local.batch = m.batch /\ local.ts = m.ts /\ local.todo = m.todo
      /\ local.cliResp = m.cliResp /\ local.dedupReqs = m.dedupReqs /\ local.left = m.left
      /\ local.readBatch = m.readBatch /\ local.held = k /\ local.slots = m.slots
      /\ local.responses = m.responses /\ local.writeBatch = m.writeBatch
  BY <1>1 DEF Locals
<1> HIDE DEF local
<1>8. Ordered(local)
  BY <1>1, <1>7 DEF Ordered, Reading, Filling
<1>9. Collected(local)
  BY <1>1, <1>7 DEF Collected, Filling
<1>10. Passed(local) = Passed(m) /\ Pending(local) = Pending(m) /\ Gone(local) = Gone(m)
  BY <1>1, <1>7 DEF Passed, Pending, Gone, Filling
<1>11. Answered(local, failures)
  BY <1>1, <1>7, <1>10, SameAnswers
<1>12. Good(local, failures')
  BY <1>2, <1>6, <1>8, <1>9, <1>11 DEF Good
<1>13. StampedBy(local) = StampedBy(m) /\ Load(local) = Kind(h) /\ Load(m) = "none"
  BY <1>1, <1>5, <1>7 DEF StampedBy, Load, Kind, At
<1> HIDE DEF m
<1>14. HandlersOk' /\ \E t : Changed(me', me, h, t) /\ SameBooks(h, t, local)
  BY <1>2, <1>3, <1>12, GoStep
<1>15. PICK t : Changed(me', me, h, t) /\ SameBooks(h, t, local)
  BY <1>14
<1>16. /\ Gone(t) = Gone(me[h]) /\ StampedBy(t) = StampedBy(me[h]) /\ Load(me[h]) = "none"
       /\ Load(t) = Kind(h) /\ t.held = k
  BY <1>7, <1>10, <1>13, <1>15 DEF SameBooks, m
<1>17. Books(me, timestamps, realObjects, dummyObjects)'
  <2>1. CASE Kind(h) = "real"
    <3>1. realObjects # << >> /\ t.held = realObjects[1][2] /\ Load(t) = "real"
      BY <1>16, <2>1 DEF Heap, k
    <3>2. Books(me', timestamps, AfterPop(realObjects), dummyObjects)
      BY <1>3, <1>15, <1>16, <3>1, BooksPopReal
    <3>. QED
      BY <1>2, <2>1, <3>2 DEF RemoveMin
  <2>2. CASE Kind(h) = "dummy"
    <3>1. dummyObjects # << >> /\ t.held = dummyObjects[1][2] /\ Load(t) = "dummy"
      BY <1>16, <2>2 DEF Heap, k
    <3>2. Books(me', timestamps, realObjects, AfterPop(dummyObjects))
      BY <1>3, <1>15, <1>16, <3>1, BooksPopDummy
    <3>. QED
      BY <1>2, <2>2, <3>2 DEF RemoveMin
  <2>. QED
    BY <2>1, <2>2 DEF Kind
<1>18. CacheOk' /\ EtcdOk'
  BY <1>2 DEF IInv, EtcdOk, CacheOk
<1>. QED
  BY <1>2, <1>14, <1>17, <1>18 DEF IInv

\* The key goes back with the time of the batch.
LEMMA RestampStep ==
  ASSUME IInv, NEW h \in Handlers, Restamp(h)
  PROVE  IInv'
<1> DEFINE m == me[h]  k == m.held
           checking == [m EXCEPT !.pc = "check"]
           filled == [m EXCEPT !.held = Blank, !.slots = @ - 1, !.readBatch = @ \cup {m.held}]
           local == IF Kind(h) = "real" THEN checking ELSE filled
<1>1. /\ m \in Locals /\ Ordered(m) /\ Collected(m) /\ Answered(m, failures)
      /\ m.pc \in Filling /\ k # Blank
  BY HandlerIs DEF Restamp
<1>2. /\ Go(h, local) /\ failures' = failures /\ UNCHANGED <<cache, recency, etcd, clock>>
      /\ SetTimestamp(k, m.ts, Kind(h))
  BY DEF Restamp
<1>3. HandlersOk /\ Books(me, timestamps, realObjects, dummyObjects)
  BY HandlerIs
<1>4. k \in Keys /\ m.ts \in Nat /\ m.slots \in Nat /\ m.slots > 0 /\ IsFiniteSet(m.readBatch)
  BY <1>1 DEF Locals, Collected
<1>5. m.slots - 1 \in Nat
  <2> HIDE DEF m
  <2>. QED
    BY <1>4
<1>6. IsFiniteSet(m.readBatch \cup {k})
  BY <1>4, FS_AddElement
<1>7. local \in Locals
  <2>1. checking \in Locals
    BY <1>1 DEF Locals, Places
  <2>2. filled \in Locals
    BY <1>1, <1>4, <1>5 DEF Locals
  <2>. QED
    BY <2>1, <2>2
<1>8. /\ local.batch = m.batch /\ local.ts = m.ts /\ local.todo = m.todo
      /\ local.cliResp = m.cliResp /\ local.dedupReqs = m.dedupReqs /\ local.left = m.left
      /\ local.responses = m.responses /\ local.writeBatch = m.writeBatch
      /\ Kind(h) = "real" => local.pc = "check" /\ local.held = k /\ local.readBatch = m.readBatch
                             /\ local.slots = m.slots
      /\ Kind(h) # "real" => local.pc = m.pc /\ local.held = Blank /\ local.readBatch = m.readBatch \cup {k}
  BY <1>1 DEF Locals
<1> HIDE DEF local, k
<1>9. Ordered(local)
  BY <1>1, <1>8 DEF Ordered, Reading, Filling
<1>10. Collected(local)
  <2>1. CASE Kind(h) = "real"
    BY <1>1, <1>4, <1>8, <2>1 DEF Collected, Filling
  <2>2. CASE Kind(h) # "real"
    BY <1>1, <1>4, <1>6, <1>8, <2>2 DEF Collected, Filling
  <2>. QED
    BY <2>1, <2>2
<1>11. Passed(local) = Passed(m) /\ Pending(local) = Pending(m) /\ Gone(local) = Gone(m)
  BY <1>1, <1>8 DEF Passed, Pending, Gone, Filling
<1>12. Answered(local, failures)
  BY <1>1, <1>8, <1>11, SameAnswers
<1>13. Good(local, failures')
  BY <1>2, <1>7, <1>9, <1>10, <1>12 DEF Good
<1>14. StampedBy(local) = StampedBy(m) /\ Load(local) = "none" /\ Load(m) = Kind(h)
  BY <1>1, <1>8 DEF StampedBy, Load, Kind, At, Filling, Reading, k
<1> HIDE DEF m
<1>15. HandlersOk' /\ \E t : Changed(me', me, h, t) /\ SameBooks(h, t, local)
  BY <1>2, <1>3, <1>13, GoStep
<1>16. PICK t : Changed(me', me, h, t) /\ SameBooks(h, t, local)
  BY <1>15
<1>17. /\ Gone(t) = Gone(me[h]) /\ StampedBy(t) = StampedBy(me[h]) /\ Load(me[h]) = Kind(h)
       /\ Load(t) = "none" /\ k = me[h].held
  BY <1>11, <1>14, <1>16 DEF SameBooks, m, k
<1>18. Books(me, timestamps, realObjects, dummyObjects)'
  <2>1. CASE Kind(h) = "real"
    <3>1. Load(me[h]) = "real"
      BY <1>17, <2>1
    <3>2. Books(me', With(timestamps, k, m.ts), Insert(realObjects, m.ts, k), dummyObjects)
      BY <1>3, <1>4, <1>16, <1>17, <3>1, BooksBackReal
    <3>. QED
      BY <1>2, <2>1, <3>2 DEF SetTimestamp, AddTo
  <2>2. CASE Kind(h) = "dummy"
    <3>1. Load(me[h]) = "dummy"
      BY <1>17, <2>2
    <3>2. Books(me', With(timestamps, k, m.ts), realObjects, Insert(dummyObjects, m.ts, k))
      BY <1>3, <1>4, <1>16, <1>17, <3>1, BooksBackDummy
    <3>. QED
      BY <1>2, <2>2, <3>2 DEF SetTimestamp, AddTo
  <2>. QED
    BY <2>1, <2>2 DEF Kind
<1>19. CacheOk' /\ EtcdOk'
  BY <1>2 DEF IInv, EtcdOk, CacheOk
<1>. QED
  BY <1>2, <1>15, <1>18, <1>19 DEF IInv

\* A real key is fetched unless it is cached.
LEMMA CheckStep ==
  ASSUME IInv, NEW h \in Handlers, CheckCache(h)
  PROVE  IInv'
<1> DEFINE m == me[h]  more == {m.held} \ CachedKeys(cache)
           local == [m EXCEPT !.pc = "real", !.held = Blank, !.slots = @ - 1, !.readBatch = @ \cup more]
<1>1. /\ m \in Locals /\ Ordered(m) /\ Collected(m) /\ Answered(m, failures) /\ m.pc = "check"
  BY HandlerIs DEF CheckCache, At
<1>2. Go(h, local) /\ failures' = failures /\ UNCHANGED <<cache, recency, bst, etcd, clock>>
  BY DEF CheckCache
<1>3. m.held \in Keys /\ m.slots \in Nat /\ m.slots > 0 /\ IsFiniteSet(m.readBatch)
  BY <1>1 DEF Locals, Collected
<1>4. m.slots - 1 \in Nat
  <2> HIDE DEF m
  <2>. QED
    BY <1>3
<1>5. IsFiniteSet(m.readBatch \cup more) /\ more \subseteq Keys
  <2>1. m.readBatch \cup more = m.readBatch \/ m.readBatch \cup more = m.readBatch \cup {m.held}
    OBVIOUS
  <2>2. IsFiniteSet(m.readBatch \cup {m.held})
    BY <1>3, FS_AddElement
  <2>. QED
    BY <1>3, <2>1, <2>2
<1> HIDE DEF more
<1>6. local \in Locals
  BY <1>1, <1>4, <1>5 DEF Locals, Places, Filling
<1>7. /\ local.pc = "real" /\ local.batch = m.batch /\ local.ts = m.ts /\ local.todo = m.todo
      /\ local.cliResp = m.cliResp /\ local.dedupReqs = m.dedupReqs /\ local.left = m.left
      /\ local.readBatch = m.readBatch \cup more /\ local.held = Blank
      /\ local.responses = m.responses /\ local.writeBatch = m.writeBatch
  BY <1>1 DEF Locals
<1> HIDE DEF local
<1>8. Ordered(local)
  BY <1>1, <1>7 DEF Ordered, Reading
<1>9. Collected(local)
  BY <1>1, <1>5, <1>7 DEF Collected, Filling
<1>10. Passed(local) = Passed(m) /\ Pending(local) = Pending(m) /\ Gone(local) = Gone(m)
  BY <1>1, <1>7 DEF Passed, Pending, Gone
<1>11. Answered(local, failures)
  BY <1>1, <1>7, <1>10, SameAnswers
<1>12. Good(local, failures')
  BY <1>2, <1>6, <1>8, <1>9, <1>11 DEF Good
<1>13. StampedBy(local) = StampedBy(m) /\ Load(local) = "none" /\ Load(m) = "none"
  BY <1>1, <1>7 DEF StampedBy, Load, Reading, Filling
<1> HIDE DEF m
<1>14. HandlersOk' /\ Books(me, timestamps, realObjects, dummyObjects)'
  <2>1. UNCHANGED bst /\ HandlersOk /\ Books(me, timestamps, realObjects, dummyObjects)
    BY <1>2, HandlerIs
  <2>. QED
    BY <2>1, <1>2, <1>10, <1>12, <1>13, QuietStep DEF m
<1>15. CacheOk' /\ EtcdOk'
  BY <1>2 DEF IInv, EtcdOk, CacheOk
<1>. QED
  BY <1>2, <1>14, <1>15 DEF IInv

\* Failures are counted.
LEMMA FailCounts ==
  ASSUME NEW failed, NEW calls, Fail(failed, calls), IsFiniteSet(calls), failures \in Nat
  PROVE  /\ failures' \in Nat /\ (failures' = 0 => failures = 0 /\ failed = {})
<1>1. IsFiniteSet(failed) /\ failures' = failures + Cardinality(failed)
  BY FS_Subset DEF Fail
<1>2. Cardinality(failed) \in Nat /\ (Cardinality(failed) = 0 <=> failed = {})
  BY <1>1, FS_CardinalityType, FS_EmptySet
<1>. QED
  BY <1>1, <1>2

\* etcd answers for the missed keys that it has a value for, unless a call fails.
LEMMA FetchStep ==
  ASSUME IInv, NEW h \in Handlers, NEW failed, Fetch(h, failed)
  PROVE  IInv'
<1> DEFINE m == me[h]
           got == (m.readBatch \cap DOMAIN m.dedupReqs \cap DOMAIN etcd) \ failed
           values == [k \in got |-> etcd[k]]
           local == [m EXCEPT !.pc = "respond", !.readBatch = {}, !.responses = values]
<1>1. /\ m \in Locals /\ Ordered(m) /\ Collected(m) /\ Answered(m, failures) /\ m.pc = "fetch"
  BY HandlerIs DEF Fetch, At
<1>2. /\ Go(h, local) /\ UNCHANGED <<cache, recency, bst, etcd, clock>>
      /\ Fail(failed, m.readBatch)
  BY DEF Fetch
<1>3. /\ IsFiniteSet(m.readBatch) /\ m.held = Blank /\ m.left = {} /\ m.todo = << >>
      /\ DOMAIN m.dedupReqs \subseteq m.readBatch
  BY <1>1 DEF Collected, Ordered, Filling, Reading
<1>4. failures' \in Nat /\ (failures' = 0 => failures = 0 /\ failed = {})
  BY <1>2, <1>3, FailCounts DEF IInv
<1>5. DOMAIN m.dedupReqs \subseteq Keys
  BY <1>1 DEF Locals, Partial
<1>6. /\ DOMAIN values = got /\ got \subseteq DOMAIN m.dedupReqs /\ got \subseteq Keys
      /\ \A k \in got : values[k] \in Values /\ values[k][1] = k
  BY <1>5 DEF IInv, EtcdOk
<1>7. got \cap InEtcd = DOMAIN m.dedupReqs \cap InEtcd \/ failed # {}
  BY <1>3 DEF IInv, EtcdOk
<1>8. values \in Partial(Keys, Values)
  <2>1. values \in [got -> Values] /\ got \in SUBSET Keys
    BY <1>6
  <2>. QED
    BY <2>1 DEF Partial
<1> HIDE DEF values, got
<1>9. local \in Locals
  BY <1>1, <1>8 DEF Locals, Places
<1>10. /\ local.pc = "respond" /\ local.batch = m.batch /\ local.ts = m.ts /\ local.todo = m.todo
       /\ local.cliResp = m.cliResp /\ local.dedupReqs = m.dedupReqs /\ local.left = m.left
       /\ local.readBatch = {} /\ local.held = m.held
       /\ local.responses = values /\ local.writeBatch = m.writeBatch
  BY <1>1 DEF Locals
<1> HIDE DEF local
<1>11. Ordered(local)
  BY <1>1, <1>10 DEF Ordered, Reading
<1>12. Collected(local)
  <2>1. IsFiniteSet({})
    BY FS_EmptySet
  <2>. QED
    BY <1>1, <1>3, <1>6, <1>10, <2>1 DEF Collected, Filling
<1>13. Passed(local) = Passed(m) /\ Pending(local) = got /\ Pending(m) = DOMAIN m.dedupReqs
  BY <1>1, <1>3, <1>6, <1>10, BlankIsNoKey DEF Passed, Pending
<1>14. Answered(local, failures')
  <2>1. ASSUME NEW rid \in Rids
        PROVE  AnsweredTo(rid, m.batch, Passed(m), m.cliResp, m.dedupReqs, got, failures')
    <3>1. AnsweredTo(rid, m.batch, Passed(m), m.cliResp, m.dedupReqs, DOMAIN m.dedupReqs, failures)
      BY <1>1, <1>13 DEF Answered
    <3>2. Passed(m) \in Nat /\ m.cliResp \in Partial(Rids, Seq(Values))
      BY <1>1, PassedIs DEF Locals
    <3>3. failures' = 0 => failures = 0 /\ got \cap InEtcd = DOMAIN m.dedupReqs \cap InEtcd
      BY <1>4, <1>7
    <3>4. got \in SUBSET DOMAIN m.dedupReqs
      BY <1>6
    <3> HIDE DEF m
    <3>. QED
      BY <3>1, <3>2, <3>3, <3>4, NarrowWait
  <2>. QED
    BY <1>10, <1>13, <2>1 DEF Answered
<1>15. Good(local, failures')
  BY <1>9, <1>11, <1>12, <1>14 DEF Good
<1>16. StampedBy(local) = StampedBy(m) /\ Load(local) = "none" /\ Load(m) = "none" /\ Gone(local) = Gone(m)
  BY <1>1, <1>10 DEF StampedBy, Load, Gone, Reading, Filling
<1> HIDE DEF m
<1>17. HandlersOk' /\ Books(me, timestamps, realObjects, dummyObjects)'
  <2>1. UNCHANGED bst /\ HandlersOk /\ Books(me, timestamps, realObjects, dummyObjects)
    BY <1>2, HandlerIs
  <2>. QED
    BY <2>1, <1>2, <1>4, <1>15, <1>16, QuietStep DEF m
<1>18. CacheOk' /\ EtcdOk'
  BY <1>2 DEF IInv, EtcdOk, CacheOk
<1>. QED
  BY <1>2, <1>4, <1>17, <1>18 DEF IInv

\* What is to be written to etcd keeps its type.
LEMMA ToWrite ==
  ASSUME NEW w \in Partial(Keys \X Nat, Values \cup {Blank}), IsFiniteSet(DOMAIN w),
         \A i \in DOMAIN w : i[2] <= MaxTime,
         NEW k \in Keys, NEW t \in Nat, t <= MaxTime, NEW v \in Values \cup {Blank}
  PROVE  /\ With(w, <<k, t>>, v) \in Partial(Keys \X Nat, Values \cup {Blank})
         /\ IsFiniteSet(DOMAIN With(w, <<k, t>>, v))
         /\ \A i \in DOMAIN With(w, <<k, t>>, v) : i[2] <= MaxTime
<1> DEFINE x == <<k, t>>  w2 == With(w, x, v)
<1>1. x \in Keys \X Nat /\ x[2] = t
  OBVIOUS
<1>2. PICK D \in SUBSET (Keys \X Nat) : w \in [D -> Values \cup {Blank}]
  BY DEF Partial
<1> HIDE DEF x
<1>3. w2 \in [D \cup {x} -> Values \cup {Blank}] /\ D \cup {x} \in SUBSET (Keys \X Nat)
  BY <1>1, <1>2 DEF With
<1>4. DOMAIN w2 = DOMAIN w \cup {x}
  BY <1>2 DEF With
<1> HIDE DEF w2
<1>5. w2 \in Partial(Keys \X Nat, Values \cup {Blank})
  BY <1>3 DEF Partial
<1>6. IsFiniteSet(DOMAIN w2)
  BY <1>4, FS_AddElement
<1>7. \A i \in DOMAIN w2 : i[2] <= MaxTime
  BY <1>1, <1>4
<1>. QED
  BY <1>5, <1>6, <1>7 DEF x, w2

\* One answer is handed out.
LEMMA UnlessTyped ==
  ASSUME NEW f \in Partial(Keys, Values), NEW k
  PROVE  /\ Unless(f, k) \in Partial(Keys, Values) /\ DOMAIN Unless(f, k) = DOMAIN f \ {k}
         /\ \A x \in DOMAIN f \ {k} : Unless(f, k)[x] = f[x]
<1>1. PICK D \in SUBSET Keys : f \in [D -> Values]
  BY DEF Partial
<1>2. Unless(f, k) \in [D \ {k} -> Values] /\ D \ {k} \in SUBSET Keys
  BY <1>1 DEF Unless
<1>3. Unless(f, k) \in Partial(Keys, Values)
  BY <1>2 DEF Partial
<1>. QED
  BY <1>1, <1>3 DEF Unless

\* The map and the list without elements.
LEMMA EmptyMap == \A K, S : << >> \in Partial(K, S) /\ << >> \in Seq(S) /\ DOMAIN << >> = {}
<1>1. \A K, S : << >> \in [{} -> S] /\ {} \in SUBSET K
  OBVIOUS
<1>. QED
  BY <1>1 DEF Partial

\* The last key of the cache.
LEMMA LastKey ==
  ASSUME CacheOk, cache.tail # Nil
  PROVE  /\ cache.tail \in Keys /\ Value(cache, cache.tail) \in Values
<1>1. Linked(cache, recency)
  BY DEF CacheOk
<1>2. recency # << >>
  <2>1. cache.tail = Nth(recency, Len(recency))
    BY <1>1 DEF Linked
  <2>. QED
    BY <2>1 DEF Nth
<1>3. cache.tail \in ToSet(recency)
  BY <1>1, <1>2, EvictLinks
<1>4. cache.tail \in CachedKeys(cache)
  BY <1>1, <1>3 DEF Linked, CachedKeys
<1>. QED
  BY <1>1, <1>4, CachedValue

\* Evict keeps the list.
LEMMA EvictKeeps ==
  ASSUME CacheOk, CacheEvict
  PROVE  CacheOk'
<1>1. Linked(cache, recency) /\ Len(recency) <= Capacity /\ Capacity \in Nat
  BY LruAssumption DEF CacheOk
<1>2. CASE recency = << >>
  <2>1. Evict(cache) = cache
    BY <1>1, <1>2, EvictLinks
  <2>. QED
    BY <1>1, <1>2, <2>1 DEF CacheOk, CacheEvict
<1>3. CASE recency # << >>
  <2>1. Linked(Evict(cache), Dropped(recency)) /\ Len(Dropped(recency)) = Len(recency) - 1
    BY <1>1, <1>3, EvictLinks
  <2>2. Len(recency) \in Nat
    BY <1>1, <1>3, EvictLinks
  <2>3. Len(Dropped(recency)) <= Capacity
    BY <1>1, <2>1, <2>2
  <2>. QED
    BY <1>3, <2>1, <2>3 DEF CacheOk, CacheEvict
<1>. QED
  BY <1>2, <1>3

\* A handler at a response: what the invariant says, and what the answer does.
Responding(m, k) ==
    LET answered == AnswerAll(m.cliResp, m.dedupReqs[k], m.responses[k])
    IN  /\ m.held = Blank /\ m.left = {} /\ m.todo = << >>
        /\ Pending(m) = DOMAIN m.responses /\ k \in Keys
        /\ m.responses[k] \in Values /\ m.responses[k][1] = k
        /\ answered \in Partial(Rids, Seq(Values))
        /\ \A rid \in Rids :
              AnsweredTo(rid, m.batch, Passed(m), answered, m.dedupReqs, DOMAIN m.responses \ {k}, failures)

\* The responses of a key go to the reads that wait for it, and to no other.
LEMMA RespondFacts ==
  ASSUME NEW m \in Locals, Ordered(m), Collected(m), Answered(m, failures), m.pc = "respond",
         NEW k \in DOMAIN m.responses
  PROVE  Responding(m, k)
<1> DEFINE v == m.responses[k]  answered == AnswerAll(m.cliResp, m.dedupReqs[k], v)
<1>1. m.held = Blank /\ m.left = {} /\ m.todo = << >>
  BY DEF Collected, Ordered, Filling, Reading
<1>2. /\ m.responses \in Partial(Keys, Values) /\ m.dedupReqs \in Partial(Keys, Seq(MissedReqs))
      /\ m.cliResp \in Partial(Rids, Seq(Values))
  BY DEF Locals
<1>3. k \in Keys /\ v \in Values /\ DOMAIN m.responses \subseteq Keys
  BY <1>2 DEF Partial
<1>4. v[1] = k /\ k \in DOMAIN m.dedupReqs
  BY DEF Collected
<1>5. m.dedupReqs[k] \in Seq(MissedReqs)
  BY <1>2, <1>4 DEF Partial
<1>6. Pending(m) = DOMAIN m.responses
  BY <1>1, <1>3, BlankIsNoKey DEF Pending
<1> HIDE DEF v
<1>7. answered \in Partial(Rids, Seq(Values))
  BY <1>2, <1>3, <1>5, AnswerAllFacts
<1>8. ASSUME NEW rid \in Rids
      PROVE  AnsweredTo(rid, m.batch, Passed(m), answered, m.dedupReqs, DOMAIN m.responses \ {k}, failures)
  <2>1. AnsweredTo(rid, m.batch, Passed(m), m.cliResp, m.dedupReqs, DOMAIN m.responses, failures)
    BY <1>6 DEF Answered
  <2>2. Passed(m) \in Nat
    BY PassedIs
  <2>3. k \in DOMAIN m.responses \cap DOMAIN m.dedupReqs
    BY <1>4
  <2>. QED
    BY <1>2, <1>3, <1>4, <2>1, <2>2, <2>3, WaitAnswered
<1> HIDE DEF answered
<1>. QED
  BY <1>1, <1>3, <1>4, <1>6, <1>7, <1>8 DEF Responding, answered, v

\* The answer for a real key: it takes the place of the last key.
LEMMA RespondRealStep ==
  ASSUME IInv, NEW h \in Handlers, NEW k, Respond(h, k), k \in RealKeys
  PROVE  IInv'
<1> DEFINE m == me[h]  last == cache.tail
           answered == AnswerAll(m.cliResp, m.dedupReqs[k], m.responses[k])
           writes == IF last = Nil THEN m.writeBatch ELSE With(m.writeBatch, <<last, m.ts>>, Value(cache, last))
           local == [m EXCEPT !.pc = "refill", !.held = k, !.cliResp = answered, !.writeBatch = writes]
<1>1. /\ m \in Locals /\ Ordered(m) /\ Collected(m) /\ Answered(m, failures) /\ m.pc = "respond"
      /\ k \in DOMAIN m.responses
  BY HandlerIs DEF Respond, At
<1>2. /\ Go(h, local) /\ failures' = failures /\ UNCHANGED <<bst, etcd, clock>> /\ CacheEvict
  BY DEF Respond, Index
<1> HIDE DEF m
<1>3. Responding(m, k)
  BY <1>1, RespondFacts
<1> HIDE DEF answered
<1>4. /\ m.held = Blank /\ m.left = {} /\ m.todo = << >> /\ Pending(m) = DOMAIN m.responses
      /\ k \in Keys /\ answered \in Partial(Rids, Seq(Values))
      /\ \A rid \in Rids :
            AnsweredTo(rid, m.batch, Passed(m), answered, m.dedupReqs, DOMAIN m.responses \ {k}, failures)
  BY <1>3 DEF Responding, answered
<1>5. /\ writes \in Partial(Keys \X Nat, Values \cup {Blank}) /\ IsFiniteSet(DOMAIN writes)
      /\ \A i \in DOMAIN writes : i[2] <= MaxTime
  <2>1. /\ m.writeBatch \in Partial(Keys \X Nat, Values \cup {Blank}) /\ IsFiniteSet(DOMAIN m.writeBatch)
        /\ \A i \in DOMAIN m.writeBatch : i[2] <= MaxTime
        /\ m.ts \in Nat /\ m.ts <= MaxTime
    BY <1>1 DEF Locals, Collected, Ordered
  <2>2. CASE last = Nil
    BY <2>1, <2>2
  <2>3. CASE last # Nil
    <3> DEFINE v == Value(cache, last)
    <3>1. last \in Keys /\ v \in Values \cup {Blank}
      BY <2>3, LastKey DEF IInv
    <3> HIDE DEF last, v
    <3>2. writes = With(m.writeBatch, <<last, m.ts>>, v)
      BY <2>3 DEF v
    <3> HIDE DEF writes
    <3>. QED
      BY <2>1, <3>1, <3>2, ToWrite
  <2>. QED
    BY <2>2, <2>3
<1> HIDE DEF writes
<1>6. local \in Locals
  BY <1>1, <1>4, <1>5 DEF Locals, Places
<1>7. /\ local.pc = "refill" /\ local.batch = m.batch /\ local.ts = m.ts /\ local.todo = m.todo
      /\ local.cliResp = answered /\ local.dedupReqs = m.dedupReqs /\ local.left = m.left
      /\ local.readBatch = m.readBatch /\ local.held = k
      /\ local.responses = m.responses /\ local.writeBatch = writes
  BY <1>1 DEF Locals
<1>8. Go(h, local)
  BY <1>2 DEF answered, writes
<1> HIDE DEF local
<1>9. Ordered(local)
  BY <1>1, <1>7 DEF Ordered, Reading
<1>10. Collected(local)
  <2>1. "refill" \notin Filling \cup {"stamp", "check", "fetch"} /\ "refill" \notin Filling \cup {"check"}
    BY DEF Filling
  <2>2. local.held # Blank /\ local.held \in DOMAIN local.responses
    BY <1>1, <1>4, <1>7, BlankIsNoKey
  <2>3. /\ IsFiniteSet(DOMAIN local.dedupReqs) /\ IsFiniteSet(local.readBatch)
        /\ local.left = {} /\ DOMAIN local.responses \subseteq DOMAIN local.dedupReqs
        /\ \A x \in DOMAIN local.responses : local.responses[x][1] = x
    BY <1>1, <1>4, <1>7 DEF Collected
  <2>. QED
    BY <1>5, <1>7, <2>1, <2>2, <2>3 DEF Collected
<1>11. Passed(local) = Passed(m) /\ Pending(local) = DOMAIN m.responses \ {k}
  BY <1>1, <1>7 DEF Passed, Pending
<1>12. Answered(local, failures)
  BY <1>4, <1>7, <1>11 DEF Answered
<1>13. Good(local, failures')
  BY <1>2, <1>6, <1>9, <1>10, <1>12 DEF Good
<1>14. StampedBy(local) = StampedBy(m) /\ Load(local) = "none" /\ Load(m) = "none" /\ Gone(local) = Gone(m)
  BY <1>1, <1>7 DEF StampedBy, Load, Gone, Reading, Filling
<1>15. HandlersOk' /\ Books(me, timestamps, realObjects, dummyObjects)'
  <2>1. UNCHANGED bst /\ HandlersOk /\ Books(me, timestamps, realObjects, dummyObjects)
    BY <1>2, HandlerIs
  <2>. QED
    BY <2>1, <1>2, <1>8, <1>13, <1>14, QuietStep DEF m
<1>16. CacheOk' /\ EtcdOk'
  <2>1. CacheOk'
    BY <1>2, EvictKeeps DEF IInv
  <2>. QED
    BY <2>1, <1>2 DEF IInv, EtcdOk
<1>. QED
  BY <1>2, <1>15, <1>16 DEF IInv

\* The answer for a dummy.
LEMMA RespondDummyStep ==
  ASSUME IInv, NEW h \in Handlers, NEW k, Respond(h, k), k \notin RealKeys
  PROVE  IInv'
<1> DEFINE m == me[h]
           answered == AnswerAll(m.cliResp, m.dedupReqs[k], m.responses[k])
           writes == With(m.writeBatch, <<k, m.ts>>, Blank)
           others == Unless(m.responses, k)
           local == [m EXCEPT !.responses = others, !.cliResp = answered, !.writeBatch = writes]
<1>1. /\ m \in Locals /\ Ordered(m) /\ Collected(m) /\ Answered(m, failures) /\ m.pc = "respond"
      /\ k \in DOMAIN m.responses
  BY HandlerIs DEF Respond, At
<1>2. /\ Go(h, local) /\ failures' = failures /\ UNCHANGED <<cache, recency, bst, etcd, clock>>
  BY DEF Respond, Index
<1> HIDE DEF m
<1>3. Responding(m, k)
  BY <1>1, RespondFacts
<1> HIDE DEF answered
<1>4. /\ m.held = Blank /\ m.left = {} /\ m.todo = << >> /\ Pending(m) = DOMAIN m.responses
      /\ k \in Keys /\ answered \in Partial(Rids, Seq(Values))
      /\ \A rid \in Rids :
            AnsweredTo(rid, m.batch, Passed(m), answered, m.dedupReqs, DOMAIN m.responses \ {k}, failures)
  BY <1>3 DEF Responding, answered
<1>5. /\ writes \in Partial(Keys \X Nat, Values \cup {Blank}) /\ IsFiniteSet(DOMAIN writes)
      /\ \A i \in DOMAIN writes : i[2] <= MaxTime
  <2>1. /\ m.writeBatch \in Partial(Keys \X Nat, Values \cup {Blank}) /\ IsFiniteSet(DOMAIN m.writeBatch)
        /\ \A i \in DOMAIN m.writeBatch : i[2] <= MaxTime
        /\ m.ts \in Nat /\ m.ts <= MaxTime
    BY <1>1 DEF Locals, Collected, Ordered
  <2>2. Blank \in Values \cup {Blank}
    OBVIOUS
  <2>. QED
    BY <1>4, <2>1, <2>2, ToWrite
<1>6. /\ others \in Partial(Keys, Values) /\ DOMAIN others = DOMAIN m.responses \ {k}
      /\ \A x \in DOMAIN m.responses \ {k} : others[x] = m.responses[x]
  BY <1>1, UnlessTyped DEF Locals
<1> HIDE DEF writes, others
<1>7. local \in Locals
  BY <1>1, <1>4, <1>5, <1>6 DEF Locals
<1>8. /\ local.pc = "respond" /\ local.batch = m.batch /\ local.ts = m.ts /\ local.todo = m.todo
      /\ local.cliResp = answered /\ local.dedupReqs = m.dedupReqs /\ local.left = m.left
      /\ local.readBatch = m.readBatch /\ local.held = m.held
      /\ local.responses = others /\ local.writeBatch = writes
  BY <1>1 DEF Locals
<1>9. Go(h, local)
  BY <1>2 DEF answered, writes, others
<1> HIDE DEF local
<1>10. Ordered(local)
  BY <1>1, <1>8 DEF Ordered, Reading
<1>11. Collected(local)
  BY <1>1, <1>4, <1>5, <1>6, <1>8 DEF Collected, Filling
<1>12. Passed(local) = Passed(m) /\ Pending(local) = DOMAIN m.responses \ {k}
  <2>1. DOMAIN m.responses \subseteq Keys
    BY <1>1 DEF Locals, Partial
  <2>. QED
    BY <1>1, <1>4, <1>6, <1>8, <2>1, BlankIsNoKey DEF Passed, Pending
<1>13. Answered(local, failures)
  BY <1>4, <1>8, <1>12 DEF Answered
<1>14. Good(local, failures')
  BY <1>2, <1>7, <1>10, <1>11, <1>13 DEF Good
<1>15. StampedBy(local) = StampedBy(m) /\ Load(local) = "none" /\ Load(m) = "none" /\ Gone(local) = Gone(m)
  BY <1>1, <1>8 DEF StampedBy, Load, Gone, Reading, Filling
<1>16. HandlersOk' /\ Books(me, timestamps, realObjects, dummyObjects)'
  <2>1. UNCHANGED bst /\ HandlersOk /\ Books(me, timestamps, realObjects, dummyObjects)
    BY <1>2, HandlerIs
  <2>. QED
    BY <2>1, <1>2, <1>9, <1>14, <1>15, QuietStep DEF m
<1>17. CacheOk' /\ EtcdOk'
  BY <1>2 DEF IInv, EtcdOk, CacheOk
<1>. QED
  BY <1>2, <1>16, <1>17 DEF IInv

\* The key that was fetched goes to the cache.
LEMMA RefillStep ==
  ASSUME IInv, NEW h \in Handlers, Refill(h)
  PROVE  IInv'
<1> DEFINE m == me[h]  k == m.held  v == m.responses[k]
           others == Unless(m.responses, k)
           local == [m EXCEPT !.pc = "respond", !.held = Blank, !.responses = others]
<1>1. /\ m \in Locals /\ Ordered(m) /\ Collected(m) /\ Answered(m, failures) /\ m.pc = "refill"
  BY HandlerIs DEF Refill, At
<1>2. /\ Go(h, local) /\ failures' = failures /\ UNCHANGED <<bst, etcd, clock>>
      /\ cache' = Put(cache, k, v) /\ recency' = PutOrder(recency, k)
  BY DEF Refill, CachePut, PutOrder
<1> HIDE DEF m
<1>3. k \in DOMAIN m.responses /\ v[1] = k
  BY <1>1 DEF Collected
<1>4. k \in Keys /\ v \in Values /\ m.responses \in Partial(Keys, Values) /\ DOMAIN m.responses \subseteq Keys
  BY <1>1, <1>3 DEF Locals, Partial
<1>5. /\ others \in Partial(Keys, Values) /\ DOMAIN others = DOMAIN m.responses \ {k}
      /\ \A x \in DOMAIN m.responses \ {k} : others[x] = m.responses[x]
  BY <1>4, UnlessTyped
<1> HIDE DEF v, others
<1>6. local \in Locals
  BY <1>1, <1>5 DEF Locals, Places
<1>7. /\ local.pc = "respond" /\ local.batch = m.batch /\ local.ts = m.ts /\ local.todo = m.todo
      /\ local.cliResp = m.cliResp /\ local.dedupReqs = m.dedupReqs /\ local.left = m.left
      /\ local.readBatch = m.readBatch /\ local.held = Blank
      /\ local.responses = others /\ local.writeBatch = m.writeBatch
  BY <1>1 DEF Locals
<1>8. Go(h, local)
  BY <1>2 DEF others
<1> HIDE DEF local
<1>9. Ordered(local)
  BY <1>1, <1>7 DEF Ordered, Reading
<1>10. Collected(local)
  BY <1>1, <1>5, <1>7 DEF Collected, Filling
<1>11. Passed(local) = Passed(m) /\ Pending(local) = Pending(m)
  BY <1>1, <1>4, <1>5, <1>7, BlankIsNoKey DEF Passed, Pending
<1>12. Answered(local, failures)
  BY <1>1, <1>7, <1>11, SameAnswers
<1>13. Good(local, failures')
  BY <1>2, <1>6, <1>9, <1>10, <1>12 DEF Good
<1>14. StampedBy(local) = StampedBy(m) /\ Load(local) = "none" /\ Load(m) = "none" /\ Gone(local) = Gone(m)
  BY <1>1, <1>7 DEF StampedBy, Load, Gone, Reading, Filling
<1>15. HandlersOk' /\ Books(me, timestamps, realObjects, dummyObjects)'
  <2>1. UNCHANGED bst /\ HandlersOk /\ Books(me, timestamps, realObjects, dummyObjects)
    BY <1>2, HandlerIs
  <2>. QED
    BY <2>1, <1>2, <1>8, <1>13, <1>14, QuietStep DEF m
<1>16. CacheOk'
  <2>1. Linked(Put(cache, k, v), PutOrder(recency, k)) /\ Len(PutOrder(recency, k)) <= Capacity
    BY <1>3, <1>4, PutLinks DEF IInv, CacheOk
  <2>. QED
    BY <1>2, <2>1 DEF CacheOk
<1>17. EtcdOk'
  BY <1>2 DEF IInv, EtcdOk
<1>. QED
  BY <1>2, <1>15, <1>16, <1>17 DEF IInv

\* The batch is written, the handler returns.
LEMMA WriteStep ==
  ASSUME IInv, NEW h \in Handlers, NEW failed, Write(h, failed)
  PROVE  IInv'
<1> DEFINE m == me[h]
           t == [Idle EXCEPT !.pc = "done", !.batch = m.batch, !.dedupReqs = m.dedupReqs, !.cliResp = m.cliResp]
           written == DOMAIN m.writeBatch \ failed
<1>1. /\ m \in Locals /\ Ordered(m) /\ Collected(m) /\ Answered(m, failures) /\ m.pc = "respond"
      /\ m.responses = << >>
  BY HandlerIs DEF Write, At
<1>2. /\ me' = [me EXCEPT ![h] = t] /\ UNCHANGED <<cache, recency, bst, clock>>
      /\ Fail(failed, DOMAIN m.writeBatch)
      /\ etcd' = [i \in DOMAIN etcd \cup written |-> IF i \in written THEN m.writeBatch[i] ELSE etcd[i]]
  BY DEF Write
<1>3. /\ IsFiniteSet(DOMAIN m.writeBatch) /\ m.left = {} /\ m.todo = << >> /\ m.held = Blank
  BY <1>1 DEF Collected, Ordered, Filling, Reading
<1>4. failures' \in Nat /\ (failures' = 0 => failures = 0)
  BY <1>2, <1>3, FailCounts DEF IInv
<1>5. /\ t.pc = "done" /\ t.batch = m.batch /\ t.ts = 0 /\ t.todo = << >> /\ t.cliResp = m.cliResp
      /\ t.dedupReqs = m.dedupReqs /\ t.left = {} /\ t.readBatch = {} /\ t.slots = 0 /\ t.held = Blank
      /\ t.responses = << >> /\ t.writeBatch = << >>
  BY DEF Idle
<1>6. t \in Locals
  <2>1. << >> \in Partial(Keys, Values) /\ << >> \in Partial(Keys \X Nat, Values \cup {Blank})
        /\ << >> \in Seq(Requests)
    BY EmptyMap
  <2>. QED
    BY <1>1, <2>1 DEF Idle, Locals, Places
<1> HIDE DEF t, m
<1>7. Ordered(t)
  <2>1. Len(t.todo) = 0 /\ Len(t.batch) \in Nat /\ MaxTime \in Nat
    BY <1>1, <1>5, ProxyAssumption DEF Locals
  <2>. QED
    BY <1>5, <2>1 DEF Ordered, Reading
<1>8. Collected(t)
  <2>1. IsFiniteSet({}) /\ DOMAIN << >> = {}
    BY FS_EmptySet
  <2>. QED
    BY <1>1, <1>5, <2>1 DEF Collected, Filling
<1>9. Passed(t) = Passed(m) /\ Pending(t) = {} /\ Pending(m) = {} /\ Gone(t) = Gone(m)
  BY <1>1, <1>3, <1>5 DEF Passed, Pending, Gone
<1>10. Answered(t, failures')
  <2>1. ASSUME NEW rid \in Rids
        PROVE  AnsweredTo(rid, m.batch, Passed(m), m.cliResp, m.dedupReqs, {}, failures')
    <3>1. AnsweredTo(rid, m.batch, Passed(m), m.cliResp, m.dedupReqs, {}, failures)
      BY <1>1, <1>9 DEF Answered
    <3>. QED
      BY <1>4, <3>1 DEF AnsweredTo
  <2>. QED
    BY <1>5, <1>9, <2>1 DEF Answered
<1>11. Good(t, failures') /\ Settled(t)
  BY <1>5, <1>6, <1>7, <1>8, <1>10 DEF Good, Settled
<1>12. HandlersOk /\ Books(me, timestamps, realObjects, dummyObjects)
  BY HandlerIs
<1>13. HandlersOk'
  BY <1>2, <1>4, <1>11, <1>12, HandlerStep
<1>14. Changed(me', me, h, t)
  BY <1>2, <1>12 DEF HandlersOk, Changed
<1>15. StampedBy(t) = StampedBy(m) /\ Load(t) = "none" /\ Load(m) = "none"
  BY <1>1, <1>3, <1>5 DEF StampedBy, Load, Reading, Filling
<1>16. Books(me', timestamps, realObjects, dummyObjects)
  BY <1>9, <1>12, <1>14, <1>15, BooksSame DEF m
<1>17. EtcdOk'
  <2>1. ASSUME NEW i \in written PROVE i \notin Keys
    <3>1. i \in Keys \X Nat /\ i[2] <= MaxTime
      BY <1>1, <2>1 DEF Locals, Collected, Partial
    <3>2. i = <<i[1], i[2]>> /\ i[1] \in Keys /\ i[2] \in 0 .. MaxTime
      BY <3>1, ProxyAssumption
    <3>. QED
      BY <3>2, ProxyAssumption
  <2>2. DOMAIN etcd' = DOMAIN etcd \cup written /\ \A i \in DOMAIN etcd \cap Keys : etcd'[i] = etcd[i]
    BY <1>2, <2>1
  <2>3. DOMAIN etcd' \cap Keys = DOMAIN etcd \cap Keys
    BY <2>1, <2>2
  <2>. QED
    BY <2>2, <2>3 DEF IInv, EtcdOk
<1>18. CacheOk'
  BY <1>2 DEF IInv, CacheOk
<1>. QED
  BY <1>2, <1>4, <1>13, <1>16, <1>17, <1>18 DEF IInv, bst

-----------------------------------------------------------------------------
\* The beginning.

\* A finite set as a sequence.
LEMMA SetToSeqLists ==
  ASSUME NEW S, IsFiniteSet(S)
  PROVE  /\ Cardinality(S) \in Nat /\ DOMAIN SetToSeq(S) = 1 .. Cardinality(S)
         /\ {SetToSeq(S)[n] : n \in 1 .. Cardinality(S)} = S
<1> DEFINE q == SetToSeq(S)
           D == 1 .. Cardinality(S)
<1>1. Cardinality(S) \in Nat /\ ExistsBijection(D, S)
  BY FS_CardinalityType
<1>2. \E f \in [D -> S] : IsInjective(f)
  BY <1>1 DEF ExistsBijection, Bijection, Injection
<1>3. q \in [D -> S] /\ IsInjective(q)
  BY <1>2 DEF SetToSeq
<1> HIDE DEF q
<1>4. q \in Injection(D, S)
  BY <1>3 DEF Injection
<1>5. Cardinality(D) = Cardinality(S) /\ IsFiniteSet(D)
  BY <1>1, FS_Interval
<1>6. q \in Surjection(D, S)
  BY <1>4, <1>5, FS_Injection
<1>. QED
  BY <1>1, <1>3, <1>6 DEF Surjection, q

\* The dummies, one after the other into their heap.
AllDummies == FoldLeft(LAMBDA h, k : Insert(h, 0, k), << >>, SetToSeq(Dummies))

\* The heap of the dummies that createCache fills.
LEMMA DummiesScheduled ==
  /\ AllDummies \in Seq(Entries) /\ IsHeap(AllDummies) /\ Len(AllDummies) = Cardinality(Dummies)
  /\ ToSet(AllDummies) = {<<0, k>> : k \in Dummies}
<1> DEFINE q == SetToSeq(Dummies)
           Held(n) == {g \in Seq(Entries) : /\ IsHeap(g) /\ Len(g) = n
                                            /\ ToSet(g) = {<<0, q[i]>> : i \in 1 .. n}}
<1>1. PICK L \in Nat : L = Cardinality(Dummies)
  BY SetToSeqLists, ProxyAssumption
<1>2. DOMAIN q = 1 .. L /\ {q[n] : n \in 1 .. L} = Dummies
  BY <1>1, SetToSeqLists, ProxyAssumption
<1> HIDE DEF q
<1> DEFINE Ok == [n \in 0 .. L |-> Held(n)]
<1>3. << >> \in Ok[0]
  <2>1. << >> \in Seq(Entries) /\ Len(<< >>) = 0 /\ ToSet(<< >>) = {} /\ 2 .. 0 = {}
    BY DEF ToSet
  <2>2. IsHeap(<< >>)
    BY <2>1 DEF IsHeap
  <2>3. {<<0, q[i]>> : i \in 1 .. 0} = {}
    OBVIOUS
  <2>. QED
    BY <2>1, <2>2, <2>3
<1>4. ASSUME NEW n \in 1 .. L, NEW g \in Ok[n - 1] PROVE Scheduling(g, q[n]) \in Ok[n]
  <2>1. n - 1 \in 0 .. L /\ n \in 0 .. L /\ 1 .. n = (1 .. n - 1) \cup {n} /\ n - 1 + 1 = n
    OBVIOUS
  <2>2. /\ g \in Seq(Entries) /\ IsHeap(g) /\ Len(g) = n - 1
        /\ ToSet(g) = {<<0, q[i]>> : i \in 1 .. n - 1}
    BY <1>4, <2>1
  <2>3. q[n] \in Keys
    BY <1>2 DEF Keys
  <2> DEFINE g2 == Insert(g, 0, q[n])
  <2>4. /\ g2 \in Seq(Entries) /\ IsHeap(g2) /\ Len(g2) = Len(g) + 1
        /\ ToSet(g2) = ToSet(g) \cup {<<0, q[n]>>}
    <3>1. 0 \in Nat
      OBVIOUS
    <3>. QED
      BY <2>2, <2>3, <3>1, InsertFacts
  <2> HIDE DEF g2
  <2>5. Len(g2) = n
    BY <2>1, <2>2, <2>4
  <2>6. ToSet(g2) = {<<0, q[i]>> : i \in 1 .. n}
    BY <2>1, <2>2, <2>4
  <2>7. g2 \in Ok[n]
    BY <2>1, <2>4, <2>5, <2>6
  <2>. QED
    BY <2>7 DEF Scheduling, g2
<1>5. Dummied!Fold(<< >>, q) \in Ok[L]
  <2> HIDE DEF Ok
  <2>. QED
    BY <1>2, <1>3, <1>4, Dummied!FoldStays
<1>6. AllDummies = Dummied!Fold(<< >>, q)
  BY DEF AllDummies, q, Scheduling, Dummied!Fold, FoldLeft, Dummied!MapThenFoldSet, MapThenFoldSet, Max, Dummied!Latest
<1> HIDE DEF AllDummies
<1>7. AllDummies \in Held(L)
  BY <1>5, <1>6
<1>8. {<<0, q[i]>> : i \in 1 .. L} = {<<0, k>> : k \in Dummies}
  BY <1>2
<1>. QED
  BY <1>1, <1>7, <1>8

\* Handlers that have nothing to do yet.
LEMMA IdleIsGood ==
  /\ Good(Idle, 0) /\ Settled(Idle)
  /\ Gone(Idle) = {} /\ StampedBy(Idle) = {} /\ Load(Idle) = "none"
<1>1. /\ Idle.pc = "idle" /\ Idle.batch = << >> /\ Idle.ts = 0 /\ Idle.todo = << >> /\ Idle.cliResp = << >>
      /\ Idle.dedupReqs = << >> /\ Idle.left = {} /\ Idle.readBatch = {} /\ Idle.slots = 0
      /\ Idle.held = Blank /\ Idle.responses = << >> /\ Idle.writeBatch = << >>
  BY DEF Idle
<1>2. Idle \in Locals
  <2>1. /\ << >> \in Partial(Keys, Values) /\ << >> \in Partial(Keys \X Nat, Values \cup {Blank})
        /\ << >> \in Seq(Requests) /\ << >> \in Partial(Rids, Seq(Values))
        /\ << >> \in Partial(Keys, Seq(MissedReqs))
    BY EmptyMap
  <2>. QED
    BY <2>1 DEF Idle, Locals, Places
<1>3. Len(<< >>) = 0 /\ DOMAIN << >> = {} /\ IsFiniteSet({}) /\ MaxTime \in Nat /\ 1 .. 0 - 0 = {}
  BY FS_EmptySet, ProxyAssumption
<1>4. Ordered(Idle)
  BY <1>1, <1>3 DEF Ordered, Reading
<1>5. Collected(Idle)
  BY <1>1, <1>3 DEF Collected, Filling
<1>6. Passed(Idle) = 0 /\ Pending(Idle) = {}
  <2>1. Len(Idle.batch) - Len(Idle.todo) = 0
    BY <1>1, <1>3
  <2>. QED
    BY <1>1, <1>3, <2>1 DEF Passed, Pending
<1>7. Answered(Idle, 0)
  BY <1>1, <1>3, <1>6, NothingYet DEF Answered, ListOf
<1>8. Gone(Idle) = {}
  BY <1>1, <1>3 DEF Gone
<1>. QED
  BY <1>1, <1>2, <1>4, <1>5, <1>7, <1>8 DEF Good, Settled, StampedBy, Load

\* The state that the program starts in.
LEMMA InitHolds ==
  ASSUME Init
  PROVE  IInv
<1>1. /\ cache = EmptyCache /\ recency = << >> /\ timestamps = [k \in Dummies |-> 0] /\ realObjects = << >>
      /\ dummyObjects = AllDummies /\ etcd = [k \in InEtcd |-> InitialValue(k)]
      /\ clock = 1 /\ failures = 0 /\ me = [h \in Handlers |-> Idle]
  BY Zenon DEF Init, AllDummies
<1>2. Len(<< >>) = 0 /\ ToSet(<< >>) = {} /\ << >> \in Seq(Keys) /\ << >> \in Seq(Entries)
  BY DEF ToSet
<1>3. CacheOk
  <2>1. cache.entry = << >> /\ cache.head = Nil /\ cache.tail = Nil
        /\ cache = [entry |-> cache.entry, head |-> cache.head, tail |-> cache.tail]
    BY <1>1 DEF EmptyCache
  <2>2. << >> \in [{} -> CacheEntry]
    OBVIOUS
  <2>3. Nth(<< >>, 1) = Nil /\ Nth(<< >>, Len(<< >>)) = Nil
    BY <1>2 DEF Nth
  <2>4. Linked(cache, << >>)
    BY <1>2, <2>1, <2>2, <2>3 DEF Linked
  <2>. QED
    BY <1>1, <1>2, <2>4, LruAssumption DEF CacheOk
<1>4. EtcdOk
  BY <1>1, ProxyAssumption DEF EtcdOk, InitialValue, Values
<1>5. HandlersOk
  BY <1>1, IdleIsGood DEF HandlersOk, Good
<1>6. Heaps(timestamps, realObjects, dummyObjects)
  <2>1. timestamps \in [Dummies -> Nat] /\ Dummies \in SUBSET Keys
    BY <1>1 DEF Keys
  <2>2. timestamps \in Partial(Keys, Nat)
    BY <2>1 DEF Partial
  <2>3. IsHeap(<< >>)
    BY <1>2 DEF IsHeap
  <2>. QED
    BY <1>1, <1>2, <2>2, <2>3, DummiesScheduled DEF Heaps
<1>7. Scheduled(me, timestamps, realObjects, dummyObjects)
  BY <1>1, DummiesScheduled DEF Scheduled
<1>8. Balanced(me, realObjects, dummyObjects)
  <2>1. TotalOf(me) = {} /\ Loaded(me, "dummy") = {} /\ Loaded(me, "real") = {}
    BY <1>1, IdleIsGood DEF TotalOf, Added, Loaded
  <2>2. Cardinality({}) = 0 /\ IsFiniteSet({}) /\ Cardinality(Dummies) \in Nat
    BY FS_EmptySet, FS_CardinalityType, ProxyAssumption
  <2>3. Len(dummyObjects) = Cardinality(Dummies) /\ Len(realObjects) = 0
    BY <1>1, <1>2, DummiesScheduled
  <2>4. \A n \in Nat : n + 0 = n
    OBVIOUS
  <2>. QED
    BY <2>1, <2>2, <2>3, <2>4 DEF Balanced
<1>. QED
  BY <1>1, <1>3, <1>4, <1>5, <1>6, <1>7, <1>8 DEF IInv, Books

-----------------------------------------------------------------------------
\* The proxy keeps its invariant.

\* Every step, of any handler.
LEMMA NextHolds ==
  ASSUME IInv, [Next]_vars
  PROVE  IInv'
<1>1. CASE UNCHANGED vars
  BY <1>1 DEF vars, IInv, CacheOk, EtcdOk, HandlersOk
<1>2. CASE Next
  <2>1. PICK h \in Handlers :
           \/ \E b \in Batches[h] : Receive(h, b)
           \/ Skip(h) \/ ReadRequest(h) \/ WriteRequest(h) \/ WritePut(h) \/ Register(h)
           \/ Pop(h) \/ Restamp(h) \/ CheckCache(h)
           \/ \E k \in me[h].left : StampMissed(h, k)
           \/ \E failed \in SUBSET me[h].readBatch : Fetch(h, failed)
           \/ \E k \in DOMAIN me[h].responses : Respond(h, k)
           \/ \E failed \in SUBSET DOMAIN me[h].writeBatch : Write(h, failed)
           \/ Refill(h)
    BY <1>2 DEF Next
  <2>2. CASE \E b \in Batches[h] : Receive(h, b)
    BY <2>2, ReceiveStep
  <2>3. CASE Skip(h)
    BY <2>3, SkipStep
  <2>4. CASE ReadRequest(h)
    BY <2>4, HitStep, MissStep
  <2>5. CASE WriteRequest(h)
    BY <2>5, WriteRequestStep
  <2>6. CASE WritePut(h)
    BY <2>6, WritePutStep
  <2>7. CASE Register(h)
    BY <2>7, RegisterStep
  <2>8. CASE Pop(h)
    BY <2>8, PopNothingStep, PopKeyStep
  <2>9. CASE Restamp(h)
    BY <2>9, RestampStep
  <2>10. CASE CheckCache(h)
    BY <2>10, CheckStep
  <2>11. CASE \E k \in me[h].left : StampMissed(h, k)
    BY <2>11, StampStep
  <2>12. CASE \E failed \in SUBSET me[h].readBatch : Fetch(h, failed)
    BY <2>12, FetchStep
  <2>13. CASE \E k \in DOMAIN me[h].responses : Respond(h, k)
    BY <2>13, RespondRealStep, RespondDummyStep
  <2>14. CASE \E failed \in SUBSET DOMAIN me[h].writeBatch : Write(h, failed)
    BY <2>14, WriteStep
  <2>15. CASE Refill(h)
    BY <2>15, RefillStep
  <2>. QED
    BY <2>1, <2>2, <2>3, <2>4, <2>5, <2>6, <2>7, <2>8, <2>9, <2>10, <2>11, <2>12, <2>13, <2>14, <2>15
<1>. QED
  BY <1>1, <1>2

\* The inductive invariant holds for ever: the list of the cache, etcd, the
\* handlers and the books of the heaps are as they should be.
THEOREM Invariance == Spec => []IInv
<1>1. Init => IInv
  BY InitHolds
<1>2. IInv /\ [Next]_vars => IInv'
  BY NextHolds
<1>. QED
  BY <1>1, <1>2, PTL DEF Spec

\* Type correctness: the locals of every handler, the cache, the heaps and the
\* timestamps have their types.
LocalsTyped ==
    /\ me \in [Handlers -> Locals] /\ recency \in Seq(Keys) /\ cache.entry \in [ToSet(recency) -> CacheEntry]
    /\ timestamps \in Partial(Keys, Nat) /\ realObjects \in Seq(Entries) /\ dummyObjects \in Seq(Entries)

\* Every reachable state is well typed.
THEOREM Typed == Spec => []LocalsTyped
<1>1. IInv => LocalsTyped
  BY DEF IInv, CacheOk, HandlersOk, Books, Heaps, Linked, LocalsTyped
<1>. QED
  BY <1>1, Invariance, PTL

\* The list of the cache links the cached keys both ways in order of last use.
THEOREM CacheOrdered == Spec => []CacheKeepsOrderOfUse
<1>1. IInv => CacheKeepsOrderOfUse
  BY LinkedOrder DEF IInv, CacheOk, CacheKeepsOrderOfUse
<1>. QED
  BY <1>1, Invariance, PTL

\* The heaps of MinHeap stay in heap order.
THEOREM HeapsStayOrdered == Spec => []HeapsOrdered
<1>1. IInv => HeapsOrdered
  BY BooksShow DEF IInv
<1>. QED
  BY <1>1, Invariance, PTL

\* No key with a timestamp drops out of its heap.
THEOREM KeysStayScheduled == Spec => []EveryKeyScheduled
<1>1. IInv => EveryKeyScheduled
  BY BooksShow DEF IInv
<1>. QED
  BY <1>1, Invariance, PTL

\* No entry of a heap is lost or doubled.
THEOREM EntriesBalance == Spec => []EntriesAccounted
<1>1. IInv => EntriesAccounted
  BY BooksShow DEF IInv
<1>. QED
  BY <1>1, Invariance, PTL

\* A handler that is done has answered each of its reads once.
AnsweredOnce(h, rid) ==
    /\ Len(AnswersTo(h, rid)) <= Cardinality(ReadsOf(h, rid))
    /\ failures = 0 =>
          Len(AnswersTo(h, rid)) >= Cardinality({i \in ReadsOf(h, rid) : me[h].batch[i].key \in InEtcd})
    /\ \A v \in ToSet(AnswersTo(h, rid)) : \E i \in ReadsOf(h, rid) : v[1] = me[h].batch[i].key

\* What the invariant says of the answers of a handler that is done.
LEMMA DoneIsAnswered ==
  ASSUME IInv, NEW h \in Handlers, me[h].pc = "done", NEW rid \in {r.rid : r \in ToSet(me[h].batch)}
  PROVE  AnsweredOnce(h, rid)
<1> DEFINE m == me[h]
<1>1. m \in Locals /\ Ordered(m) /\ Answered(m, failures)
  BY HandlerIs
<1>2. m.batch \in Seq(Requests) /\ m.todo = << >> /\ m.cliResp \in Partial(Rids, Seq(Values))
  BY <1>1 DEF Locals, Ordered, Reading
<1>3. rid \in Rids
  BY <1>2, ReadsAndWrites DEF ToSet
<1>4. PICK n \in Nat : n = Len(m.batch) /\ DOMAIN m.batch = 1 .. n
  BY <1>2
<1>5. Passed(m) = n /\ Pending(m) = {}
  <2>1. Len(m.todo) = 0 /\ n - 0 + 0 = n
    BY <1>2
  <2>. QED
    BY <1>4, <2>1 DEF Passed, Pending
<1>6. ReadsOf(h, rid) = ReadsBy(m.batch, n, rid) /\ AnswersTo(h, rid) = ListOf(m.cliResp, rid)
  BY <1>4 DEF ReadsOf, ReadsBy, AnswersTo, ListOf
<1>7. AnsweredTo(rid, m.batch, n, m.cliResp, m.dedupReqs, {}, failures)
  BY <1>1, <1>3, <1>5 DEF Answered
<1>8. /\ Cardinality(Waiting(m.dedupReqs, {}, rid)) = 0
      /\ Cardinality(Waiting(m.dedupReqs, {} \cap InEtcd, rid)) = 0
  <2>1. Waiting(m.dedupReqs, {}, rid) = {} /\ {} \cap InEtcd = {}
    BY DEF Waiting
  <2>. QED
    BY <2>1, FS_EmptySet
<1>9. Len(ListOf(m.cliResp, rid)) \in Nat
  BY <1>2, ListTyped
<1> HIDE DEF m
<1>10. /\ Len(ListOf(m.cliResp, rid)) <= Cardinality(ReadsBy(m.batch, n, rid))
       /\ failures = 0 => Len(ListOf(m.cliResp, rid)) >= Cardinality(SureBy(m.batch, n, rid))
       /\ \A v \in ToSet(ListOf(m.cliResp, rid)) : \E i \in ReadsBy(m.batch, n, rid) : v[1] = m.batch[i].key
  <2>1. \A x \in Nat : x + 0 = x
    OBVIOUS
  <2>. QED
    BY <1>7, <1>8, <1>9, <2>1 DEF AnsweredTo
<1>. QED
  BY <1>6, <1>10 DEF SureBy, AnsweredOnce, m

\* A finished batch holds one answer for each of its reads.
THEOREM ReadsAreAnswered == Spec => []ReadsAnsweredOnce
<1>1. IInv => ReadsAnsweredOnce
  BY DoneIsAnswered DEF ReadsAnsweredOnce, AnsweredOnce
<1>. QED
  BY <1>1, Invariance, PTL
=============================================================================
