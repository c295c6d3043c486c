----------------------------- MODULE HirbProofs -----------------------------
(***************************************************************************)
(* What TLAPS proves of the HIRB tree, for any labels, heights and calls:  *)
(* between calls it is the one tree of its map, and it answers as a map.   *)
(***************************************************************************)
EXTENDS Hirb, SequenceTheorems, FiniteSetTheorems, TLAPS

\* Induction along the loops.
Rounds == INSTANCE FoldSteps WITH Op <- DummyRound
Climbs == INSTANCE FoldSteps WITH Op <- Promote

-----------------------------------------------------------------------------
\* Sequences.
LEMMA CutFacts ==
  ASSUME NEW S, NEW s \in Seq(S), NEW a \in 1 .. Len(s) + 1, NEW b \in a - 1 .. Len(s)
  PROVE  /\ SubSeq(s, a, b) \in Seq(S) /\ Len(SubSeq(s, a, b)) = b - a + 1
         /\ \A j \in 1 .. b - a + 1 : SubSeq(s, a, b)[j] = s[a + j - 1]
<1>1. Len(s) \in Nat /\ a \in Int /\ b \in Int
  BY LenProperties
<1>2. \A i \in a .. b : s[i] \in S
  BY <1>1, ElementOfSeq
<1>3. /\ SubSeq(s, a, b) \in Seq(S) /\ Len(SubSeq(s, a, b)) = IF a <= b THEN b - a + 1 ELSE 0
      /\ \A j \in 1 .. b - a + 1 : SubSeq(s, a, b)[j] = s[a + j - 1]
  BY <1>1, <1>2, SubSeqProperties
<1>. QED
  BY <1>1, <1>3

LEMMA InsertFacts ==
  ASSUME NEW S, NEW s \in Seq(S), NEW i \in 1 .. Len(s) + 1, NEW e \in S
  PROVE  /\ InsertAt(s, i, e) \in Seq(S) /\ Len(InsertAt(s, i, e)) = Len(s) + 1
         /\ \A j \in 1 .. Len(s) + 1 :
               InsertAt(s, i, e)[j] = IF j < i THEN s[j] ELSE IF j = i THEN e ELSE s[j - 1]
<1> DEFINE L == Len(s)  a == SubSeq(s, 1, i - 1)  b == SubSeq(s, i, L)  m == <<e>>
<1>1. L \in Nat
  BY LenProperties
<1>2. a \in Seq(S) /\ Len(a) = i - 1 /\ \A j \in 1 .. i - 1 : a[j] = s[j]
  <2>1. /\ a \in Seq(S) /\ Len(a) = (i - 1) - 1 + 1
        /\ \A j \in 1 .. (i - 1) - 1 + 1 : a[j] = s[1 + j - 1]
    BY <1>1, CutFacts
  <2> HIDE DEF a
  <2>. QED
    BY <1>1, <2>1
<1>3. b \in Seq(S) /\ Len(b) = L - i + 1 /\ \A j \in 1 .. L - i + 1 : b[j] = s[i + j - 1]
  BY <1>1, CutFacts
<1>4. m \in Seq(S) /\ Len(m) = 1 /\ m[1] = e
  OBVIOUS
<1> HIDE DEF a, b, m
<1>5. /\ a \o m \in Seq(S) /\ Len(a \o m) = i
      /\ \A j \in 1 .. i : (a \o m)[j] = IF j < i THEN a[j] ELSE e
  <2>1. /\ a \o m \in Seq(S) /\ Len(a \o m) = Len(a) + Len(m)
        /\ \A j \in 1 .. Len(a) + Len(m) : (a \o m)[j] = IF j <= Len(a) THEN a[j] ELSE m[j - Len(a)]
    BY <1>2, <1>4, ConcatProperties
  <2> DEFINE t == a \o m
  <2> HIDE DEF t, L
  <2>. QED
    BY <1>1, <1>2, <1>4, <2>1 DEF t
<1> DEFINE t == a \o m
<1> HIDE DEF t
<1>6. /\ t \o b \in Seq(S) /\ Len(t \o b) = Len(t) + Len(b)
      /\ \A j \in 1 .. Len(t) + Len(b) : (t \o b)[j] = IF j <= Len(t) THEN t[j] ELSE b[j - Len(t)]
  <2>1. t \in Seq(S)
    BY <1>5 DEF t
  <2>. QED
    BY <1>3, <2>1, ConcatProperties
<1>7. InsertAt(s, i, e) = t \o b
  BY DEF InsertAt, t, a, b, m
<1> DEFINE u == t \o b
<1> HIDE DEF u, L
<1>8. Len(t) = i /\ Len(u) = L + 1
  BY <1>1, <1>3, <1>5, <1>6 DEF t, u
<1>9. ASSUME NEW j \in 1 .. L + 1 PROVE u[j] = IF j < i THEN s[j] ELSE IF j = i THEN e ELSE s[j - 1]
  <2>1. u[j] = IF j <= i THEN t[j] ELSE b[j - i]
    BY <1>1, <1>3, <1>6, <1>8 DEF u
  <2>2. CASE j <= i
    BY <1>1, <1>2, <1>5, <2>1, <2>2 DEF t
  <2>3. CASE j > i
    <3>1. j - i \in 1 .. L - i + 1 /\ i + (j - i) - 1 = j - 1
      BY <1>1, <2>3
    <3>2. b[j - i] = s[j - 1]
      BY <1>3, <3>1
    <3>. QED
      BY <1>1, <2>1, <2>3, <3>2
  <2>. QED
    BY <1>1, <2>2, <2>3
<1>. QED
  BY <1>6, <1>7, <1>8, <1>9 DEF L, u

LEMMA InsertValue ==
  ASSUME NEW s \in Seq(Values), NEW i \in 1 .. Len(s) + 1, NEW v \in Values
  PROVE  /\ InsertAt(s, i, v) \in Seq(Values) /\ Len(InsertAt(s, i, v)) = Len(s) + 1
         /\ \A j \in 1 .. Len(s) + 1 :
               InsertAt(s, i, v)[j] = IF j < i THEN s[j] ELSE IF j = i THEN v ELSE s[j - 1]
BY InsertFacts

LEMMA InsertNumber ==
  ASSUME NEW s \in Seq(Nat), NEW i \in 1 .. Len(s) + 1, NEW x \in Nat
  PROVE  /\ InsertAt(s, i, x) \in Seq(Nat) /\ Len(InsertAt(s, i, x)) = Len(s) + 1
         /\ \A j \in 1 .. Len(s) + 1 :
               InsertAt(s, i, x)[j] = IF j < i THEN s[j] ELSE IF j = i THEN x ELSE s[j - 1]
<1> DEFINE S == Nat
<1>1. s \in Seq(S) /\ x \in S
  OBVIOUS
<1> HIDE DEF S
<1>. QED
  BY <1>1, InsertFacts

LEMMA RemoveFacts ==
  ASSUME NEW S, NEW s \in Seq(S), NEW i \in 1 .. Len(s)
  PROVE  /\ RemoveAt(s, i) \in Seq(S) /\ Len(RemoveAt(s, i)) = Len(s) - 1
         /\ \A j \in 1 .. Len(s) - 1 : RemoveAt(s, i)[j] = IF j < i THEN s[j] ELSE s[j + 1]
<1> DEFINE L == Len(s)  a == SubSeq(s, 1, i - 1)  b == SubSeq(s, i + 1, L)
<1>1. L \in Nat
  BY LenProperties
<1>2. a \in Seq(S) /\ Len(a) = i - 1 /\ \A j \in 1 .. i - 1 : a[j] = s[j]
  <2>1. /\ a \in Seq(S) /\ Len(a) = (i - 1) - 1 + 1
        /\ \A j \in 1 .. (i - 1) - 1 + 1 : a[j] = s[1 + j - 1]
    BY <1>1, CutFacts
  <2> HIDE DEF a
  <2>. QED
    BY <1>1, <2>1
<1>3. b \in Seq(S) /\ Len(b) = L - i /\ \A j \in 1 .. L - i : b[j] = s[i + j]
  <2>1. /\ b \in Seq(S) /\ Len(b) = L - (i + 1) + 1
        /\ \A j \in 1 .. L - (i + 1) + 1 : b[j] = s[(i + 1) + j - 1]
    BY <1>1, CutFacts
  <2> HIDE DEF b, L
  <2>. QED
    BY <1>1, <2>1 DEF L
<1> HIDE DEF a, b
<1>4. /\ a \o b \in Seq(S) /\ Len(a \o b) = Len(a) + Len(b)
      /\ \A j \in 1 .. Len(a) + Len(b) : (a \o b)[j] = IF j <= Len(a) THEN a[j] ELSE b[j - Len(a)]
  BY <1>2, <1>3, ConcatProperties
<1>5. RemoveAt(s, i) = a \o b
  BY DEF RemoveAt, a, b
<1> DEFINE u == a \o b
<1> HIDE DEF u, L
<1>6. Len(u) = L - 1
  BY <1>1, <1>2, <1>3, <1>4 DEF u, L
<1>7. ASSUME NEW j \in 1 .. L - 1 PROVE u[j] = IF j < i THEN s[j] ELSE s[j + 1]
  <2>0. i \in 1 .. L
    BY DEF L
  <2>1. u[j] = IF j <= i - 1 THEN a[j] ELSE b[j - (i - 1)]
    BY <1>1, <1>2, <1>3, <1>4, <2>0, SMTT(30) DEF u
  <2>2. CASE j < i
    BY <1>1, <1>2, <2>0, <2>1, <2>2
  <2>3. CASE j >= i
    <3>1. j - (i - 1) \in 1 .. L - i /\ i + (j - (i - 1)) = j + 1
      BY <1>1, <2>0, <2>3
    <3>2. b[j - (i - 1)] = s[j + 1]
      BY <1>3, <3>1
    <3>. QED
      BY <1>1, <2>0, <2>1, <2>3, <3>2
  <2>. QED
    BY <1>1, <2>0, <2>2, <2>3
<1>. QED
  BY <1>4, <1>5, <1>6, <1>7 DEF L, u

-----------------------------------------------------------------------------
\* Ascending lists of numbers.
Increasing(s) == \A i, j \in 1 .. Len(s) : i < j => s[i] < s[j]

LEMMA SizeOfFirst ==
  ASSUME NEW m \in Nat
  PROVE  IsFiniteSet(1 .. m) /\ Cardinality(1 .. m) = m
<1>1. 1 \in Int /\ m \in Int
  OBVIOUS
<1>. QED
  BY <1>1, FS_Interval

\* A set of positions that has all that come before is counted by its last.
LEMMA FirstOnes ==
  ASSUME NEW L \in Nat, NEW T \in SUBSET (1 .. L), \A i, j \in 1 .. L : i < j /\ j \in T => i \in T
  PROVE  Cardinality(T) \in 0 .. L /\ \A i \in 1 .. L : i \in T <=> i <= Cardinality(T)
<1> DEFINE out == {i \in Nat : i # 0 /\ i \notin T}
<1>1. L + 1 \in out
  OBVIOUS
<1>2. PICK m \in out : \A y \in out : m <= y
  <2>1. out \in SUBSET Nat /\ out # {}
    BY <1>1
  <2> HIDE DEF out
  <2>. QED
    BY <2>1, Rounds!Least
<1>3. T = 1 .. m - 1
  <2>1. ASSUME NEW i \in 1 .. m - 1 PROVE i \in T
    BY <1>2
  <2>2. ASSUME NEW i \in T PROVE i \in 1 .. m - 1
    BY <1>2
  <2>. QED
    BY <2>1, <2>2
<1>4. m - 1 \in Nat /\ m - 1 <= L
  BY <1>1, <1>2
<1>5. Cardinality(T) = m - 1
  BY <1>3, <1>4, SizeOfFirst
<1>. QED
  BY <1>3, <1>4, <1>5

LEMMA BisectFacts ==
  ASSUME NEW n, n.keys \in Seq(Nat), Increasing(n.keys), NEW l \in Nat
  PROVE  /\ BisectLeft(n, l) \in 0 .. Len(n.keys)
         /\ \A i \in 1 .. Len(n.keys) : n.keys[i] < l <=> i <= BisectLeft(n, l)
         /\ BisectRight(n, l) \in 0 .. Len(n.keys)
         /\ \A i \in 1 .. Len(n.keys) : n.keys[i] <= l <=> i <= BisectRight(n, l)
<1> DEFINE s == n.keys  L == Len(s)
<1>1. L \in Nat /\ DOMAIN s = 1 .. L /\ \A i \in 1 .. L : s[i] \in Nat
  BY LenProperties, ElementOfSeq
<1>2. \A i, j \in 1 .. L : i < j => s[i] < s[j]
  BY DEF Increasing
<1> DEFINE below == {i \in DOMAIN s : s[i] < l}  upto == {i \in DOMAIN s : s[i] <= l}
<1>3. BisectLeft(n, l) = Cardinality(below) /\ BisectRight(n, l) = Cardinality(upto)
  BY DEF BisectLeft, BisectRight
<1> HIDE DEF s, L
<1>4. below \in SUBSET (1 .. L) /\ \A i, j \in 1 .. L : i < j /\ j \in below => i \in below
  BY <1>1, <1>2
<1>5. upto \in SUBSET (1 .. L) /\ \A i, j \in 1 .. L : i < j /\ j \in upto => i \in upto
  BY <1>1, <1>2
<1>6. \A i \in 1 .. L : (i \in below <=> s[i] < l) /\ (i \in upto <=> s[i] <= l)
  BY <1>1
<1> HIDE DEF below, upto
<1>7. Cardinality(below) \in 0 .. L /\ \A i \in 1 .. L : i \in below <=> i <= Cardinality(below)
  BY <1>1, <1>4, FirstOnes
<1>8. Cardinality(upto) \in 0 .. L /\ \A i \in 1 .. L : i \in upto <=> i <= Cardinality(upto)
  BY <1>1, <1>5, FirstOnes
<1>. QED
  BY <1>3, <1>6, <1>7, <1>8 DEF s, L

\* What the two bisections say of a label that is there, and of one that is not.
LEMMA HasFacts ==
  ASSUME NEW n, n.keys \in Seq(Nat), Increasing(n.keys), NEW l \in Nat
  PROVE  /\ Has(n, l) <=> l \in ToSet(n.keys)
         /\ l \in ToSet(n.keys) => /\ BisectRight(n, l) = BisectLeft(n, l) + 1
                                   /\ BisectRight(n, l) \in 1 .. Len(n.keys)
                                   /\ n.keys[BisectRight(n, l)] = l
         /\ l \notin ToSet(n.keys) => BisectRight(n, l) = BisectLeft(n, l)
<1> DEFINE s == n.keys  L == Len(s)  a == BisectLeft(n, l)  b == BisectRight(n, l)
<1>1. /\ L \in Nat /\ DOMAIN s = 1 .. L /\ \A i \in 1 .. L : s[i] \in Nat
      /\ \A i, j \in 1 .. L : i < j => s[i] < s[j]
  BY LenProperties, ElementOfSeq DEF Increasing
<1>2. /\ a \in 0 .. L /\ \A i \in 1 .. L : s[i] < l <=> i <= a
      /\ b \in 0 .. L /\ \A i \in 1 .. L : s[i] <= l <=> i <= b
  BY BisectFacts
<1>3. Has(n, l) <=> a < b
  BY DEF Has
<1>4. l \in ToSet(s) <=> \E i \in 1 .. L : s[i] = l
  BY <1>1 DEF ToSet
<1> HIDE DEF s, L, a, b
<1>5. ASSUME NEW i \in 1 .. L, s[i] = l PROVE b = a + 1 /\ b = i
  <2>1. i <= b /\ ~(i <= a)
    BY <1>1, <1>2, <1>5
  <2>2. ~(i < b)
    <3> SUFFICES ASSUME i < b PROVE FALSE
      OBVIOUS
    <3>1. i + 1 \in 1 .. L /\ s[i + 1] <= l
      BY <1>1, <1>2
    <3>. QED
      BY <1>1, <1>5, <3>1
  <2>3. ~(a < i - 1)
    <3> SUFFICES ASSUME a < i - 1 PROVE FALSE
      OBVIOUS
    <3>1. i - 1 \in 1 .. L /\ ~(s[i - 1] < l)
      BY <1>1, <1>2
    <3>. QED
      BY <1>1, <1>5, <3>1
  <2>. QED
    BY <1>1, <1>2, <2>1, <2>2, <2>3
<1>6. ASSUME \A i \in 1 .. L : s[i] # l PROVE b = a
  <2>1. ASSUME NEW i \in 1 .. L PROVE i <= a <=> i <= b
    <3>1. s[i] # l /\ s[i] \in Nat /\ (s[i] < l <=> i <= a) /\ (s[i] <= l <=> i <= b)
      BY <1>1, <1>2, <1>6
    <3>. QED
      BY <3>1
  <2>2. a \in 0 .. L /\ b \in 0 .. L
    BY <1>2
  <2>3. ~(a < b)
    <3> SUFFICES ASSUME a < b PROVE FALSE
      OBVIOUS
    <3>1. b \in 1 .. L
      BY <1>1, <2>2
    <3>. QED
      BY <2>1, <2>2, <3>1
  <2>4. ~(b < a)
    <3> SUFFICES ASSUME b < a PROVE FALSE
      OBVIOUS
    <3>1. a \in 1 .. L
      BY <1>1, <2>2
    <3>. QED
      BY <2>1, <2>2, <3>1
  <2>. QED
    BY <1>1, <2>2, <2>3, <2>4
<1>. QED
  BY <1>1, <1>2, <1>3, <1>4, <1>5, <1>6, SMTT(30) DEF s, L, a, b

\* An ascending list is the one that its set determines.
LEMMA AscendingIs ==
  ASSUME NEW s \in Seq(Nat), Increasing(s)
  PROVE  Ascending(ToSet(s)) = s
<1> DEFINE L == Len(s)  S == ToSet(s)
<1>1. /\ L \in Nat /\ DOMAIN s = 1 .. L /\ \A i \in 1 .. L : s[i] \in Nat /\ s \in [1 .. L -> Nat]
      /\ \A i, j \in 1 .. L : i < j => s[i] < s[j]
  BY LenProperties, ElementOfSeq DEF Increasing
<1>2. S = {s[i] : i \in 1 .. L}
  BY <1>1 DEF ToSet
<1> HIDE DEF L, S
<1>3. \A i, j \in 1 .. L : s[i] < s[j] <=> i < j
  BY <1>1
<1>4. ASSUME NEW T \in SUBSET (1 .. L) PROVE Cardinality({s[i] : i \in T}) = Cardinality(T)
  <2> DEFINE f == [i \in T |-> s[i]]  R == {s[i] : i \in T}
  <2>1. f \in Bijection(T, R)
    <3>1. f \in [T -> R] /\ \A y \in R : \E i \in T : f[i] = y
      OBVIOUS
    <3>2. \A i, j \in T : f[i] = f[j] => i = j
      BY <1>1, <1>3
    <3> HIDE DEF f, R
    <3>. QED
      BY <3>1, <3>2 DEF Bijection, Injection, Surjection, IsInjective
  <2>2. IsFiniteSet(T)
    BY <1>1, SizeOfFirst, FS_Subset
  <2> HIDE DEF f, R
  <2>3. ExistsBijection(T, R)
    BY <2>1 DEF ExistsBijection
  <2>4. Cardinality(R) = Cardinality(T)
    BY <2>2, <2>3, FS_Bijection
  <2>. QED
    BY <2>4 DEF R
<1>5. Cardinality(S) = L
  <2>1. 1 .. L \in SUBSET (1 .. L)
    OBVIOUS
  <2>. QED
    BY <1>1, <1>2, <1>4, <2>1, SizeOfFirst
<1>6. ASSUME NEW i \in 1 .. L PROVE Cardinality({j \in S : j < s[i]}) = i - 1
  <2>1. {j \in S : j < s[i]} = {s[j] : j \in 1 .. i - 1}
    BY <1>1, <1>2, <1>3
  <2>2. 1 .. i - 1 \in SUBSET (1 .. L) /\ i - 1 \in Nat
    BY <1>1
  <2>3. Cardinality(1 .. i - 1) = i - 1
    BY <2>2, SizeOfFirst
  <2>. QED
    BY <1>4, <2>1, <2>2, <2>3
<1>7. ASSUME NEW i \in 1 .. L PROVE (CHOOSE k \in S : Cardinality({j \in S : j < k}) = i - 1) = s[i]
  <2>1. s[i] \in S /\ Cardinality({j \in S : j < s[i]}) = i - 1
    BY <1>2, <1>6
  <2>2. ASSUME NEW k \in S, Cardinality({j \in S : j < k}) = i - 1 PROVE k = s[i]
    <3>1. PICK m \in 1 .. L : k = s[m]
      BY <1>2
    <3>2. m - 1 = i - 1
      BY <1>6, <2>2, <3>1
    <3>. QED
      BY <1>1, <3>1, <3>2
  <2>. QED
    BY <2>1, <2>2
<1>8. Ascending(S) = [i \in 1 .. L |-> s[i]]
  BY <1>5, <1>7 DEF Ascending
<1>. QED
  BY <1>1, <1>8 DEF S

-----------------------------------------------------------------------------
\* A node with the labels M of the map d, at level l, to the right of left.
Ids == [level : 0 .. MaxHeight, left : {0} \cup Labels, turn : 0 .. 1]
NodeRecs == [keys : Seq(Labels), vals : Seq(Values), kids : Seq(Ids)]

IsAt(id, l, left) == id.level = l /\ id.left = left

Spells(n, M, d, l, left) ==
    /\ n \in NodeRecs
    /\ Increasing(n.keys) /\ ToSet(n.keys) = M
    /\ Len(n.vals) = Len(n.keys) /\ \A i \in 1 .. Len(n.keys) : n.vals[i] = d[n.keys[i]]
    /\ IF l = 0 THEN n.kids = << >>
       ELSE /\ Len(n.kids) = Len(n.keys) + 1
            /\ \A i \in 1 .. Len(n.kids) : IsAt(n.kids[i], l - 1, IF i = 1 THEN left ELSE n.keys[i - 1])

LEMMA SpellsFacts ==
  ASSUME NEW n, NEW M, NEW d, NEW l, NEW left, Spells(n, M, d, l, left)
  PROVE  LET L == Len(n.keys)
         IN  /\ n = [keys |-> n.keys, vals |-> n.vals, kids |-> n.kids]
             /\ n.keys \in Seq(Labels) /\ n.keys \in Seq(Nat) /\ n.vals \in Seq(Values) /\ n.kids \in Seq(Ids)
             /\ Increasing(n.keys) /\ ToSet(n.keys) = M
             /\ L \in Nat /\ DOMAIN n.keys = 1 .. L /\ DOMAIN n.vals = 1 .. L
             /\ Len(n.keys) = L /\ Len(n.vals) = L
             /\ \A i \in 1 .. L : n.keys[i] \in Labels /\ n.keys[i] \in Nat \ {0} /\ n.keys[i] \in M
             /\ \A i \in 1 .. L : n.vals[i] = d[n.keys[i]] /\ n.vals[i] \in Values
             /\ \A m \in M : \E i \in 1 .. L : m = n.keys[i]
             /\ \A i, j \in 1 .. L : i < j => n.keys[i] < n.keys[j]
             /\ M \subseteq Labels /\ M \subseteq Nat \ {0}
             /\ l = 0 => n.kids = << >>
             /\ l # 0 => /\ Len(n.kids) = L + 1 /\ DOMAIN n.kids = 1 .. L + 1
                         /\ \A i \in 1 .. L + 1 : /\ n.kids[i] \in Ids
                                                  /\ IsAt(n.kids[i], l - 1, IF i = 1 THEN left ELSE n.keys[i - 1])
<1> DEFINE L == Len(n.keys)
<1>1. /\ n = [keys |-> n.keys, vals |-> n.vals, kids |-> n.kids]
      /\ n.keys \in Seq(Labels) /\ n.vals \in Seq(Values) /\ n.kids \in Seq(Ids)
  BY DEF Spells, NodeRecs
<1>2. Labels \subseteq Nat \ {0}
  BY HirbAssumption
<1>3. n.keys \in Seq(Nat)
  <2>1. Labels \subseteq Nat
    BY <1>2
  <2>. QED
    BY <1>1, <2>1, SeqMonotonic
<1>4. L \in Nat /\ DOMAIN n.keys = 1 .. L /\ \A i \in 1 .. L : n.keys[i] \in Labels
  BY <1>1, LenProperties, ElementOfSeq
<1>5. Len(n.vals) = L /\ DOMAIN n.vals = 1 .. L /\ \A i \in 1 .. L : n.vals[i] \in Values
  BY <1>1, <1>4, LenProperties, ElementOfSeq DEF Spells
<1>6. M = {n.keys[i] : i \in 1 .. L}
  BY <1>4 DEF Spells, ToSet
<1>7. l # 0 => /\ Len(n.kids) = L + 1 /\ DOMAIN n.kids = 1 .. L + 1
               /\ \A i \in 1 .. L + 1 : n.kids[i] \in Ids
  BY <1>1, <1>4, LenProperties, ElementOfSeq DEF Spells
<1>. QED
  BY <1>1, <1>2, <1>3, <1>4, <1>5, <1>6, <1>7 DEF Spells, Increasing

LEMMA NodeExcept ==
  ASSUME NEW n \in NodeRecs, NEW y
  PROVE  /\ [n EXCEPT !.kids = y] = [keys |-> n.keys, vals |-> n.vals, kids |-> y]
         /\ [n EXCEPT !.vals = y] = [keys |-> n.keys, vals |-> y, kids |-> n.kids]
<1>1. [n EXCEPT !.kids = y] = [keys |-> n.keys, vals |-> n.vals, kids |-> y]
  BY DEF NodeRecs
<1>2. [n EXCEPT !.vals = y] = [keys |-> n.keys, vals |-> y, kids |-> n.kids]
  <2> DEFINE t == [n EXCEPT !.vals = y]
  <2>1. DOMAIN t = {"keys", "vals", "kids"}
    BY DEF NodeRecs
  <2>2. t = [f \in {"keys", "vals", "kids"} |-> t[f]]
    BY <2>1
  <2>3. t.keys = n.keys /\ t.vals = y /\ t.kids = n.kids
    BY DEF NodeRecs
  <2> HIDE DEF t
  <2>4. t = [keys |-> n.keys, vals |-> y, kids |-> n.kids]
    BY <2>2, <2>3
  <2>. QED
    BY <2>4 DEF t
<1>. QED
  BY <1>1, <1>2

LEMMA KeysExcept ==
  ASSUME NEW n \in NodeRecs, NEW y, NEW z
  PROVE  [n EXCEPT !.keys = y, !.vals = z] = [keys |-> y, vals |-> z, kids |-> n.kids]
<1> DEFINE t == [n EXCEPT !.keys = y, !.vals = z]
<1>1. DOMAIN t = {"keys", "vals", "kids"}
  BY DEF NodeRecs
<1>2. t = [f \in {"keys", "vals", "kids"} |-> t[f]]
  BY <1>1
<1>3. t.keys = y /\ t.vals = z /\ t.kids = n.kids
  BY DEF NodeRecs
<1> HIDE DEF t
<1>4. t = [keys |-> y, vals |-> z, kids |-> n.kids]
  BY <1>2, <1>3
<1>. QED
  BY <1>4 DEF t

\* Between calls a node that spells its members is the one __init__ would build.
LEMMA SpellsNodeAt ==
  ASSUME NEW n, NEW d, NEW h, NEW l \in Nat, NEW left, Spells(n, Members(d, h, l, left), d, l, left)
  PROVE  Unnamed(n) = NodeAt(d, h, l, left)
<1> DEFINE M == Members(d, h, l, left)  L == Len(n.keys)  keys == n.keys
<1>1. Spells(n, M, d, l, left)
  OBVIOUS
<1> HIDE DEF M
<1>2. /\ n = [keys |-> n.keys, vals |-> n.vals, kids |-> n.kids]
      /\ n.keys \in Seq(Nat) /\ Increasing(n.keys) /\ ToSet(n.keys) = M
      /\ L \in Nat /\ DOMAIN n.keys = 1 .. L /\ DOMAIN n.vals = 1 .. L /\ n.vals \in Seq(Values)
      /\ \A i \in 1 .. L : n.vals[i] = d[n.keys[i]]
      /\ l = 0 => n.kids = << >>
      /\ l # 0 => /\ DOMAIN n.kids = 1 .. L + 1
                  /\ \A i \in 1 .. L + 1 : /\ n.kids[i] \in Ids
                                           /\ IsAt(n.kids[i], l - 1, IF i = 1 THEN left ELSE n.keys[i - 1])
  BY <1>1, SpellsFacts
<1>3. Ascending(M) = keys
  BY <1>2, AscendingIs
<1>4. n.vals = [i \in DOMAIN keys |-> d[keys[i]]]
  <2>1. n.vals \in [1 .. Len(n.vals) -> Values] /\ DOMAIN n.vals = 1 .. Len(n.vals)
    BY <1>2, LenProperties
  <2>2. n.vals = [i \in DOMAIN n.vals |-> n.vals[i]]
    BY <2>1
  <2>. QED
    BY <1>2, <2>2
<1> DEFINE kids == [i \in 0 .. L |-> Place(l - 1, IF i = 0 THEN left ELSE keys[i])]
           tidy == [i \in DOMAIN n.kids |-> PlaceOf(n.kids[i])]
<1>5. tidy = IF l = 0 THEN << >> ELSE [i \in 1 .. L + 1 |-> kids[i - 1]]
  <2>1. CASE l = 0
    BY <1>2, <2>1
  <2>2. CASE l # 0
    <3>1. ASSUME NEW i \in 1 .. L + 1 PROVE PlaceOf(n.kids[i]) = kids[i - 1]
      <4>1. n.kids[i] \in Ids /\ IsAt(n.kids[i], l - 1, IF i = 1 THEN left ELSE keys[i - 1])
        BY <1>2, <2>2
      <4>2. PlaceOf(n.kids[i]) = Place(l - 1, IF i = 1 THEN left ELSE keys[i - 1])
        BY <4>1 DEF PlaceOf, Place, IsAt, Ids
      <4>3. i - 1 \in 0 .. L /\ (i = 1 <=> i - 1 = 0)
        BY <1>2
      <4>. QED
        BY <4>2, <4>3
    <3>. QED
      BY <1>2, <2>2, <3>1
  <2>. QED
    BY <2>1, <2>2
<1>6. Unnamed(n) = [keys |-> keys, vals |-> n.vals, kids |-> tidy]
  <2>1. n \in NodeRecs
    BY <1>1 DEF Spells
  <2> HIDE DEF keys
  <2>2. Unnamed(n) = [n EXCEPT !.kids = tidy]
    BY DEF Unnamed
  <2> HIDE DEF tidy
  <2>. QED
    BY <2>1, <2>2, NodeExcept DEF keys
<1>7. NodeAt(d, h, l, left) = Node(keys, [i \in DOMAIN keys |-> d[keys[i]]],
                                   IF l = 0 THEN << >> ELSE [i \in 1 .. L + 1 |-> kids[i - 1]])
  BY <1>3 DEF NodeAt, M
<1>. QED
  BY <1>4, <1>5, <1>6, <1>7 DEF Node

\* The values matter only where there are labels.
LEMMA SpellsOther ==
  ASSUME NEW n, NEW M, NEW d, NEW e, NEW l, NEW left, Spells(n, M, d, l, left), \A m \in M : d[m] = e[m]
  PROVE  Spells(n, M, e, l, left)
<1>1. /\ \A i \in 1 .. Len(n.keys) : n.vals[i] = d[n.keys[i]] /\ n.keys[i] \in M
      /\ n.vals \in Seq(Values)
  BY SpellsFacts
<1>2. \A i \in 1 .. Len(n.keys) : n.vals[i] = e[n.keys[i]]
  BY <1>1
<1>. QED
  BY <1>2 DEF Spells

\* The search in a node.
LEMMA SpellsSearch ==
  ASSUME NEW n, NEW M, NEW d, NEW l, NEW left, Spells(n, M, d, l, left), NEW x \in Nat
  PROVE  /\ BisectLeft(n, x) \in 0 .. Len(n.keys)
         /\ \A i \in 1 .. Len(n.keys) : n.keys[i] < x <=> i <= BisectLeft(n, x)
         /\ BisectRight(n, x) \in 0 .. Len(n.keys)
         /\ \A i \in 1 .. Len(n.keys) : n.keys[i] <= x <=> i <= BisectRight(n, x)
         /\ Has(n, x) <=> x \in M
         /\ x \in M => /\ BisectRight(n, x) = BisectLeft(n, x) + 1
                       /\ BisectRight(n, x) \in 1 .. Len(n.keys)
                       /\ n.keys[BisectRight(n, x)] = x
                       /\ ValueIn(n, x) = d[x]
         /\ x \notin M => BisectRight(n, x) = BisectLeft(n, x)
<1>1. n.keys \in Seq(Nat) /\ Increasing(n.keys) /\ ToSet(n.keys) = M
      /\ \A i \in 1 .. Len(n.keys) : n.vals[i] = d[n.keys[i]]
  BY SpellsFacts
<1>. QED
  BY <1>1, BisectFacts, HasFacts, ZenonT(60) DEF ValueIn

\* The nodes that the methods make of nodes.
LEMMA SpellsMade ==
  ASSUME NEW keys \in Seq(Labels), NEW vals \in Seq(Values), NEW kids \in Seq(Ids), NEW M, NEW d, NEW l, NEW left,
         \A i, j \in 1 .. Len(keys) : i < j => keys[i] < keys[j],
         \A i \in 1 .. Len(keys) : keys[i] \in M, \A m \in M : \E i \in 1 .. Len(keys) : m = keys[i],
         Len(vals) = Len(keys), \A i \in 1 .. Len(keys) : vals[i] = d[keys[i]],
         l = 0 => kids = << >>,
         l # 0 => /\ Len(kids) = Len(keys) + 1
                  /\ \A i \in 1 .. Len(keys) + 1 : IsAt(kids[i], l - 1, IF i = 1 THEN left ELSE keys[i - 1])
  PROVE  Spells([keys |-> keys, vals |-> vals, kids |-> kids], M, d, l, left)
<1>1. DOMAIN keys = 1 .. Len(keys)
  BY LenProperties
<1>2. ToSet(keys) = M
  BY <1>1, SMTT(30) DEF ToSet
<1>. QED
  BY <1>2 DEF Spells, NodeRecs, Increasing

LEMMA SpellsUpdate ==
  ASSUME NEW n, NEW M, NEW d, NEW l, NEW left, Spells(n, M, d, l, left), NEW x \in M, NEW v \in Values,
         M \subseteq DOMAIN d
  PROVE  Spells(Update(n, x, v), M, With(d, x, v), l, left) /\ Update(n, x, v).kids = n.kids
<1> DEFINE L == Len(n.keys)  b == BisectRight(n, x)  vals == [n.vals EXCEPT ![b] = v]
<1>1. /\ n \in NodeRecs /\ n.vals \in Seq(Values) /\ L \in Nat /\ Len(n.vals) = L
      /\ \A i \in 1 .. L : n.vals[i] = d[n.keys[i]] /\ n.keys[i] \in M
      /\ \A i, j \in 1 .. L : i < j => n.keys[i] < n.keys[j]
      /\ \A i \in 1 .. L : n.keys[i] \in Nat
  <2>1. n \in NodeRecs
    BY DEF Spells
  <2>. QED
    BY <2>1, SpellsFacts
<1>2. b \in 1 .. L /\ n.keys[b] = x
  <2>1. x \in Nat
    BY SpellsFacts
  <2>. QED
    BY <2>1, SpellsSearch
<1>3. Update(n, x, v) = [keys |-> n.keys, vals |-> vals, kids |-> n.kids]
  <2>1. Update(n, x, v) = [n EXCEPT !.vals = vals]
    BY DEF Update
  <2> HIDE DEF vals
  <2>. QED
    BY <1>1, <2>1, NodeExcept
<1> HIDE DEF b
<1>4. vals \in Seq(Values) /\ Len(vals) = L /\ \A j \in 1 .. L : vals[j] = IF j = b THEN v ELSE n.vals[j]
  BY <1>1, <1>2, ExceptSeq
<1>5. \A j \in 1 .. L : n.keys[j] = x => j = b
  BY <1>1, <1>2
<1>6. \A k \in M : With(d, x, v)[k] = IF k = x THEN v ELSE d[k]
  BY DEF With
<1>7. \A j \in 1 .. L : vals[j] = With(d, x, v)[n.keys[j]]
  BY <1>1, <1>2, <1>4, <1>5, <1>6
<1>8. /\ n.keys \in Seq(Labels) /\ n.kids \in Seq(Ids)
      /\ \A m \in M : \E i \in 1 .. L : m = n.keys[i]
      /\ l = 0 => n.kids = << >>
      /\ l # 0 => /\ Len(n.kids) = L + 1
                  /\ \A i \in 1 .. L + 1 : IsAt(n.kids[i], l - 1, IF i = 1 THEN left ELSE n.keys[i - 1])
  BY SpellsFacts
<1> HIDE DEF vals
<1>9. Spells([keys |-> n.keys, vals |-> vals, kids |-> n.kids], M, With(d, x, v), l, left)
  BY <1>1, <1>4, <1>7, <1>8, SpellsMade
<1>. QED
  BY <1>3, <1>9

\* The list that has one more element, at position p.
LEMMA InsertKeys ==
  ASSUME NEW s \in Seq(Nat), Increasing(s), NEW x \in Nat, NEW p \in 1 .. Len(s) + 1,
         \A j \in 1 .. Len(s) : s[j] < x <=> j < p, \A j \in 1 .. Len(s) : s[j] # x
  PROVE  /\ Increasing(InsertAt(s, p, x))
         /\ ToSet(InsertAt(s, p, x)) = ToSet(s) \cup {x}
<1> DEFINE L == Len(s)  t == InsertAt(s, p, x)
<1>0. t \in Seq(Nat) /\ Len(t) = L + 1 /\ \A j \in 1 .. L + 1 : t[j] = IF j < p THEN s[j] ELSE IF j = p THEN x ELSE s[j - 1]
  BY InsertNumber
<1>1. L \in Nat /\ \A j \in 1 .. L : s[j] \in Nat
  BY LenProperties, ElementOfSeq
<1>2. \A j, k \in 1 .. L : j < k => s[j] < s[k]
  BY DEF Increasing
<1> HIDE DEF L, t
<1>3. /\ \A j \in 1 .. L : j < p => t[j] = s[j]
      /\ t[p] = x /\ p \in 1 .. L + 1
      /\ \A j \in 1 .. L + 1 : j > p => t[j] = s[j - 1] /\ j - 1 \in 1 .. L /\ j - 1 >= p
      /\ \A j \in 1 .. L : j >= p => t[j + 1] = s[j] /\ j + 1 \in 1 .. L + 1
  <2>1. p \in 1 .. L + 1
    BY DEF L
  <2>2. ASSUME NEW j \in 1 .. L, j < p PROVE t[j] = s[j]
    <3>1. j \in 1 .. L + 1
      BY <1>1
    <3>. QED
      BY <1>0, <2>2, <3>1
  <2>3. t[p] = x
    BY <1>0, <1>1, <2>1
  <2>4. ASSUME NEW j \in 1 .. L + 1, j > p PROVE t[j] = s[j - 1] /\ j - 1 \in 1 .. L /\ j - 1 >= p
    <3>1. ~(j < p) /\ j # p /\ j - 1 \in 1 .. L /\ j - 1 >= p
      BY <1>1, <2>1, <2>4
    <3>. QED
      BY <1>0, <3>1
  <2>5. ASSUME NEW j \in 1 .. L, j >= p PROVE t[j + 1] = s[j] /\ j + 1 \in 1 .. L + 1
    <3>1. j + 1 \in 1 .. L + 1 /\ ~(j + 1 < p) /\ j + 1 # p /\ (j + 1) - 1 = j
      BY <1>1, <2>1, <2>5
    <3>2. t[j + 1] = s[(j + 1) - 1]
      BY <1>0, <3>1
    <3>. QED
      BY <3>1, <3>2
  <2>. QED
    BY <2>1, <2>2, <2>3, <2>4, <2>5
<1>4. \A j \in 1 .. L : (s[j] < x <=> j < p) /\ s[j] # x
  BY DEF L
<1>5. ASSUME NEW j \in 1 .. L + 1 PROVE t[j] \in Nat /\ (t[j] < x <=> j < p) /\ (t[j] = x <=> j = p)
  <2>1. CASE j < p
    <3>1. j \in 1 .. L
      BY <1>1, <1>3, <2>1
    <3>2. t[j] = s[j] /\ s[j] \in Nat /\ (s[j] < x <=> j < p) /\ s[j] # x
      BY <1>1, <1>3, <1>4, <2>1, <3>1
    <3>. QED
      BY <2>1, <3>2
  <2>2. CASE j = p
    BY <1>3, <2>2
  <2>3. CASE j > p
    <3>1. j - 1 \in 1 .. L /\ t[j] = s[j - 1] /\ ~(j - 1 < p)
      BY <1>1, <1>3, <2>3
    <3>2. s[j - 1] \in Nat /\ (s[j - 1] < x <=> j - 1 < p) /\ s[j - 1] # x
      BY <1>1, <1>4, <3>1
    <3>. QED
      BY <2>3, <3>1, <3>2
  <2>. QED
    BY <1>3, <2>1, <2>2, <2>3
<1>6. ASSUME NEW j \in 1 .. L + 1, NEW k \in 1 .. L + 1, j < k PROVE t[j] < t[k]
  <2>1. CASE k < p
    BY <1>1, <1>2, <1>3, <1>6, <2>1
  <2>2. CASE k >= p /\ j < p
    <3>1. t[j] < x /\ ~(t[k] < x) /\ t[j] \in Nat /\ t[k] \in Nat
      BY <1>3, <1>5, <2>2
    <3>. QED
      BY <3>1
  <2>3. CASE j >= p
    <3>1. CASE j = p
      <4>1. t[j] = x /\ ~(t[k] < x) /\ t[k] # x /\ t[k] \in Nat
        BY <1>3, <1>5, <1>6, <3>1
      <4>. QED
        BY <4>1
    <3>2. CASE j > p
      <4>1. t[j] = s[j - 1] /\ t[k] = s[k - 1] /\ j - 1 \in 1 .. L /\ k - 1 \in 1 .. L /\ j - 1 < k - 1
        BY <1>3, <1>6, <3>2
      <4>. QED
        BY <1>2, <4>1
    <3>. QED
      BY <1>3, <2>3, <3>1, <3>2
  <2>. QED
    BY <1>3, <2>1, <2>2, <2>3
<1>7. ASSUME NEW j \in 1 .. L PROVE \E k \in 1 .. L + 1 : t[k] = s[j]
  BY <1>1, <1>3
<1>8. DOMAIN s = 1 .. L /\ DOMAIN t = 1 .. L + 1
  BY <1>0, LenProperties DEF L
<1>9. ASSUME NEW j \in 1 .. L + 1 PROVE t[j] \in ToSet(s) \cup {x}
  <2>1. j < p => j \in 1 .. L
    BY <1>1, <1>3
  <2>2. t[j] = x \/ (j < p /\ t[j] = s[j]) \/ (j > p /\ t[j] = s[j - 1] /\ j - 1 \in 1 .. L)
    BY <1>3, <2>1
  <2>. QED
    BY <1>8, <2>1, <2>2 DEF ToSet
<1>10. ToSet(t) = ToSet(s) \cup {x}
  <2>1. ToSet(t) = {t[j] : j \in 1 .. L + 1} /\ ToSet(s) = {s[j] : j \in 1 .. L}
    BY <1>8 DEF ToSet
  <2>2. ToSet(t) \subseteq ToSet(s) \cup {x}
    BY <1>9, <2>1
  <2>3. ToSet(s) \subseteq ToSet(t)
    BY <1>7, <2>1
  <2>4. x \in ToSet(t)
    BY <1>3, <2>1
  <2>. QED
    BY <2>2, <2>3, <2>4
<1>. QED
  BY <1>0, <1>6, <1>10 DEF t, Increasing

\* The child of the labels just before x.
Before(c, S, x) == c.left \in S /\ c.left < x /\ \A k \in S : k < x => k <= c.left

LEMMA SpellsKids ==
  ASSUME NEW n, NEW M, NEW d, NEW l, NEW left, Spells(n, M, d, l, left), l # 0,
         left \in Nat, \A m \in M : left < m
  PROVE  /\ DOMAIN n.kids = 1 .. Len(n.keys) + 1
         /\ \A c \in ToSet(n.kids) : c \in Ids /\ c.level = l - 1 /\ c.left \in {left} \cup M
         /\ \A k \in {left} \cup M : \E c \in ToSet(n.kids) : c.left = k
         /\ \A i, j \in 1 .. Len(n.keys) + 1 : n.kids[i].left = n.kids[j].left => i = j
         /\ \A c, e \in ToSet(n.kids) : c.left = e.left => c = e
<1> DEFINE L == Len(n.keys)  kids == n.kids
<1>1. /\ L \in Nat /\ \A i \in 1 .. L : n.keys[i] \in M /\ n.keys[i] \in Nat
      /\ \A i, j \in 1 .. L : i < j => n.keys[i] < n.keys[j]
      /\ \A m \in M : \E i \in 1 .. L : m = n.keys[i]
  BY SpellsFacts
<1>2. DOMAIN kids = 1 .. L + 1 /\ \A i \in 1 .. L + 1 : kids[i] \in Ids
  BY SpellsFacts
<1>3. \A i \in 1 .. L + 1 : kids[i].level = l - 1 /\ kids[i].left = IF i = 1 THEN left ELSE n.keys[i - 1]
  BY SpellsFacts DEF IsAt
<1> HIDE DEF L, kids
<1>4. ToSet(kids) = {kids[i] : i \in 1 .. L + 1}
  BY <1>2 DEF ToSet
<1>5. \A i \in 1 .. L + 1 : i # 1 => i - 1 \in 1 .. L /\ kids[i].left = n.keys[i - 1] /\ kids[i].left \in M
  BY <1>1, <1>3
<1>6. 1 \in 1 .. L + 1 /\ kids[1].left = left
  BY <1>1, <1>3
<1>7. ASSUME NEW i \in 1 .. L + 1, NEW j \in 1 .. L + 1, i < j PROVE kids[i].left < kids[j].left
  <2>1. j - 1 \in 1 .. L /\ kids[j].left = n.keys[j - 1] /\ kids[j].left \in M
    BY <1>1, <1>5, <1>7
  <2>2. CASE i = 1
    BY <1>6, <2>1, <2>2
  <2>3. CASE i # 1
    <3>1. i - 1 \in 1 .. L /\ i - 1 < j - 1 /\ kids[i].left = n.keys[i - 1]
      BY <1>5, <1>7, <2>3
    <3>. QED
      BY <1>1, <2>1, <3>1
  <2>. QED
    BY <2>2, <2>3
<1>8. \A i \in 1 .. L + 1 : kids[i].left \in Nat
  <2> SUFFICES ASSUME NEW i \in 1 .. L + 1 PROVE kids[i].left \in Nat
    OBVIOUS
  <2>1. CASE i = 1
    BY <1>6, <2>1
  <2>2. CASE i # 1
    <3>1. i - 1 \in 1 .. L /\ kids[i].left = n.keys[i - 1]
      BY <1>5, <2>2
    <3>. QED
      BY <1>1, <3>1
  <2>. QED
    BY <2>1, <2>2
<1>9. \A i, j \in 1 .. L + 1 : kids[i].left = kids[j].left => i = j
  BY <1>1, <1>7, <1>8
<1>10. ASSUME NEW m \in M PROVE \E c \in ToSet(kids) : c.left = m
  <2>1. PICK i \in 1 .. L : m = n.keys[i]
    BY <1>1
  <2>2. i + 1 \in 1 .. L + 1 /\ i + 1 # 1 /\ (i + 1) - 1 = i
    BY <1>1
  <2>3. kids[i + 1].left = m
    BY <1>5, <2>1, <2>2
  <2>. QED
    BY <1>4, <2>2, <2>3
<1>. QED
  BY <1>2, <1>3, <1>4, <1>5, <1>6, <1>9, <1>10 DEF L, kids

LEMMA SpellsBefore ==
  ASSUME NEW n, NEW M, NEW d, NEW l, NEW left, Spells(n, M, d, l, left), l # 0,
         left \in Nat, \A m \in M : left < m, NEW x \in Nat, left < x
  PROVE  LET i == BisectLeft(n, x) + 1
         IN  i \in 1 .. Len(n.kids) /\ n.kids[i] \in ToSet(n.kids) /\ Before(n.kids[i], {left} \cup M, x)
<1> DEFINE L == Len(n.keys)  a == BisectLeft(n, x)  c == n.kids[a + 1]
<1>1. /\ L \in Nat /\ \A i \in 1 .. L : n.keys[i] \in M /\ n.keys[i] \in Nat
      /\ \A i, j \in 1 .. L : i < j => n.keys[i] < n.keys[j]
      /\ \A m \in M : \E i \in 1 .. L : m = n.keys[i]
  BY SpellsFacts
<1>2. DOMAIN n.kids = 1 .. L + 1 /\ Len(n.kids) = L + 1
  BY SpellsFacts
<1>3. \A i \in 1 .. L + 1 : n.kids[i].left = IF i = 1 THEN left ELSE n.keys[i - 1]
  BY SpellsFacts DEF IsAt
<1>4. a \in 0 .. L /\ \A i \in 1 .. L : n.keys[i] < x <=> i <= a
  BY SpellsSearch
<1>5. a + 1 \in 1 .. L + 1 /\ c.left = IF a = 0 THEN left ELSE n.keys[a]
  <2> HIDE DEF L, a
  <2>1. a + 1 \in 1 .. L + 1 /\ (a + 1 = 1 <=> a = 0) /\ (a + 1) - 1 = a
    BY <1>1, <1>4
  <2>. QED
    BY <1>3, <2>1
<1>6. c \in ToSet(n.kids)
  BY <1>2, <1>5 DEF ToSet
<1> HIDE DEF L, a, c
<1>7. a # 0 => a \in 1 .. L /\ n.keys[a] < x /\ n.keys[a] \in M
  BY <1>1, <1>4
<1>8. c.left \in {left} \cup M /\ c.left < x /\ c.left \in Nat
  BY <1>1, <1>5, <1>7
<1>9. left <= c.left
  BY <1>5, <1>7, <1>8
<1>10. ASSUME NEW m \in M, m < x PROVE m <= c.left
  <2>1. PICK i \in 1 .. L : m = n.keys[i]
    BY <1>1
  <2>2. i <= a /\ a # 0
    BY <1>4, <1>10, <2>1
  <2>3. i = a \/ i < a
    BY <1>4, <2>2
  <2>. QED
    BY <1>1, <1>5, <1>7, <2>1, <2>2, <2>3
<1>. QED
  BY <1>2, <1>5, <1>6, <1>8, <1>9, <1>10 DEF Before, a, c, L

\* pregen() changes the name of one child only.
LEMMA SpellsRename ==
  ASSUME NEW n, NEW M, NEW d, NEW l, NEW left, Spells(n, M, d, l, left), l # 0,
         left \in Nat, \A m \in M : left < m, NEW i \in 1 .. Len(n.kids)
  PROVE  /\ Spells(Rename(n, i), M, d, l, left)
         /\ ToSet(Rename(n, i).kids) = (ToSet(n.kids) \ {n.kids[i]}) \cup {Renamed(n.kids[i])}
         /\ Rename(n, i).keys = n.keys
<1> DEFINE L == Len(n.keys)  c == n.kids[i]  kids == [n.kids EXCEPT ![i] = Renamed(c)]
<1>1. /\ n \in NodeRecs /\ n.keys \in Seq(Labels) /\ n.vals \in Seq(Values) /\ n.kids \in Seq(Ids) /\ L \in Nat
      /\ Len(n.kids) = L + 1 /\ DOMAIN n.kids = 1 .. L + 1
  <2>1. n \in NodeRecs
    BY DEF Spells
  <2>. QED
    BY <2>1, SpellsFacts
<1>2. \A j \in 1 .. L + 1 : IsAt(n.kids[j], l - 1, IF j = 1 THEN left ELSE n.keys[j - 1]) /\ n.kids[j] \in Ids
  BY SpellsFacts
<1>3. Rename(n, i) = [keys |-> n.keys, vals |-> n.vals, kids |-> kids]
  <2>1. Rename(n, i) = [n EXCEPT !.kids = kids]
    BY DEF Rename
  <2> HIDE DEF kids
  <2>. QED
    BY <1>1, <2>1, NodeExcept
<1>4. c \in Ids /\ Renamed(c) \in Ids /\ Renamed(c).level = c.level /\ Renamed(c).left = c.left
  <2>1. c \in Ids
    BY <1>1, <1>2
  <2>. QED
    BY <2>1 DEF Renamed, Ids
<1>5. kids \in Seq(Ids) /\ Len(kids) = L + 1 /\ \A j \in 1 .. L + 1 : kids[j] = IF j = i THEN Renamed(c) ELSE n.kids[j]
  BY <1>1, <1>4, ExceptSeq
<1>6. DOMAIN kids = 1 .. L + 1
  BY <1>5, LenProperties
<1>7. \A j, k \in 1 .. L + 1 : n.kids[j].left = n.kids[k].left => j = k
  BY SpellsKids
<1>8. i \in 1 .. L + 1
  BY <1>1
<1> HIDE DEF kids, c
<1>9. ToSet(kids) = (ToSet(n.kids) \ {c}) \cup {Renamed(c)}
  <2>1. ToSet(kids) = {kids[j] : j \in 1 .. L + 1} /\ ToSet(n.kids) = {n.kids[j] : j \in 1 .. L + 1}
    BY <1>1, <1>6 DEF ToSet
  <2>2. \A j \in 1 .. L + 1 : n.kids[j] = c <=> j = i
    BY <1>7, <1>8 DEF c
  <2> HIDE DEF L
  <2>. QED
    BY <1>5, <1>8, <2>1, <2>2
<1>10. \A j \in 1 .. L + 1 : IsAt(kids[j], l - 1, IF j = 1 THEN left ELSE n.keys[j - 1])
  <2>1. \A j \in 1 .. L + 1 : kids[j].level = n.kids[j].level /\ kids[j].left = n.kids[j].left
    BY <1>4, <1>5 DEF c
  <2>. QED
    BY <1>2, <2>1 DEF IsAt
<1>11. Spells([keys |-> n.keys, vals |-> n.vals, kids |-> kids], M, d, l, left)
  <2>1. Increasing(n.keys) /\ ToSet(n.keys) = M /\ Len(n.vals) = L /\ \A j \in 1 .. L : n.vals[j] = d[n.keys[j]]
    BY DEF Spells
  <2>. QED
    BY <1>1, <1>5, <1>10, <2>1 DEF Spells, NodeRecs
<1>. QED
  BY <1>3, <1>9, <1>11 DEF c

\* The child to the right of x, but for leaves.
StepAt(step, l, x) == l # 0 => step \in Ids /\ IsAt(step, l - 1, x)

\* The node that gets a new label, and a child to the right of it.
Inserted(n, M, d, l, left, x, v, step) ==
    LET i == BisectLeft(n, x)
        m == Insert(n, x, v)
        f == [m EXCEPT !.kids = InsertAt(@, i + 2, step)]
    IN  /\ m \in NodeRecs /\ Increasing(m.keys) /\ Len(m.vals) = Len(m.keys) /\ m.kids = n.kids
        /\ l = 0 => Spells(m, M \cup {x}, With(d, x, v), l, left)
        /\ l # 0 => /\ Spells(f, M \cup {x}, With(d, x, v), l, left)
                    /\ ToSet(f.kids) = ToSet(n.kids) \cup {step}
                    /\ i + 1 \in 1 .. Len(f.kids) /\ f.kids[i + 1] = n.kids[i + 1]

LEMMA SpellsInsert ==
  ASSUME NEW n, NEW M, NEW d, NEW l, NEW left, Spells(n, M, d, l, left), NEW x \in Labels \ M, NEW v \in Values,
         NEW step, StepAt(step, l, x), M \subseteq DOMAIN d
  PROVE  Inserted(n, M, d, l, left, x, v, step)
<1> USE DEF StepAt
<1> DEFINE L == Len(n.keys)  i == BisectLeft(n, x)  m == Insert(n, x, v)  p == i + 1  q == i + 2
           keys == InsertAt(n.keys, p, x)  vals == InsertAt(n.vals, p, v)
           kids == InsertAt(n.kids, q, step)  e == With(d, x, v)
<1>1. /\ n \in NodeRecs /\ n.keys \in Seq(Labels) /\ n.vals \in Seq(Values) /\ n.kids \in Seq(Ids)
      /\ L \in Nat /\ Len(n.vals) = L
      /\ l # 0 => Len(n.kids) = L + 1
  <2>1. n \in NodeRecs
    BY DEF Spells
  <2>. QED
    BY <2>1, SpellsFacts
<1>2. /\ \A j \in 1 .. L : n.vals[j] = d[n.keys[j]] /\ n.keys[j] \in M /\ n.keys[j] \in Nat
      /\ \A k \in M : \E j \in 1 .. L : k = n.keys[j]
      /\ n.keys \in Seq(Nat) /\ Increasing(n.keys) /\ ToSet(n.keys) = M
  BY SpellsFacts
<1>3. /\ l = 0 => n.kids = << >>
      /\ l # 0 => \A j \in 1 .. L + 1 : IsAt(n.kids[j], l - 1, IF j = 1 THEN left ELSE n.keys[j - 1])
  BY SpellsFacts
<1>4. x \in Nat
  BY HirbAssumption
<1>5. i \in 0 .. L /\ \A j \in 1 .. L : n.keys[j] < x <=> j <= i
  BY <1>4, SpellsSearch
<1>6. m = [keys |-> keys, vals |-> vals, kids |-> n.kids]
  <2>1. m = [n EXCEPT !.keys = keys, !.vals = vals]
    BY DEF Insert
  <2> HIDE DEF keys, vals, m
  <2>2. DOMAIN m = {"keys", "vals", "kids"} /\ m.keys = keys /\ m.vals = vals /\ m.kids = n.kids
    BY <1>1, <2>1 DEF NodeRecs
  <2>3. m = [f \in {"keys", "vals", "kids"} |-> m[f]]
    BY <2>1, <2>2
  <2>. QED
    BY <2>2, <2>3
<1> HIDE DEF i, p, q, e
<1>7. /\ p \in 1 .. Len(n.keys) + 1 /\ p \in 1 .. Len(n.vals) + 1 /\ x \in Labels
      /\ (l # 0 => q \in 1 .. Len(n.kids) + 1) /\ p \in 1 .. L + 1 /\ q = p + 1
  <2>1. /\ i \in 0 .. L /\ L \in Nat /\ Len(n.keys) = L /\ Len(n.vals) = L /\ (l # 0 => Len(n.kids) = L + 1)
        /\ p = i + 1 /\ q = i + 2
    BY <1>1, <1>5 DEF p, q
  <2>2. x \in Labels
    OBVIOUS
  <2> HIDE DEF L
  <2>. QED
    BY <2>1, <2>2
<1>8. /\ keys \in Seq(Labels) /\ Len(keys) = L + 1
      /\ \A j \in 1 .. L + 1 : keys[j] = IF j < p THEN n.keys[j] ELSE IF j = p THEN x ELSE n.keys[j - 1]
  <2>1. n.keys \in Seq(Labels)
    BY <1>1
  <2>. QED
    BY <1>7, <2>1, InsertFacts, SMTT(30)
<1>9. /\ vals \in Seq(Values) /\ Len(vals) = L + 1
      /\ \A j \in 1 .. L + 1 : vals[j] = IF j < p THEN n.vals[j] ELSE IF j = p THEN v ELSE n.vals[j - 1]
  <2>1. n.vals \in Seq(Values) /\ Len(n.vals) = L
    BY <1>1
  <2>3. n.vals \in Seq(Values) /\ p \in 1 .. Len(n.vals) + 1 /\ v \in Values
    BY <1>1, <1>7
  <2>2. /\ vals \in Seq(Values) /\ Len(vals) = Len(n.vals) + 1
        /\ \A j \in 1 .. Len(n.vals) + 1 : vals[j] = IF j < p THEN n.vals[j] ELSE IF j = p THEN v ELSE n.vals[j - 1]
    <3> DEFINE s == n.vals
    <3>1. s \in Seq(Values) /\ p \in 1 .. Len(s) + 1 /\ v \in Values
      BY <2>3
    <3> HIDE DEF s, p
    <3>2. /\ InsertAt(s, p, v) \in Seq(Values) /\ Len(InsertAt(s, p, v)) = Len(s) + 1
          /\ \A j \in 1 .. Len(s) + 1 : InsertAt(s, p, v)[j] = IF j < p THEN s[j] ELSE IF j = p THEN v ELSE s[j - 1]
      BY <3>1, InsertValue
    <3>. QED
      BY <3>2 DEF s, vals
  <2> HIDE DEF vals, L
  <2>. QED
    BY <2>1, <2>2
<1>10. l # 0 => /\ kids \in Seq(Ids) /\ Len(kids) = L + 2
               /\ \A j \in 1 .. L + 2 : kids[j] = IF j < q THEN n.kids[j] ELSE IF j = q THEN step ELSE n.kids[j - 1]
  <2> SUFFICES ASSUME l # 0 PROVE /\ kids \in Seq(Ids) /\ Len(kids) = L + 2
               /\ \A j \in 1 .. L + 2 : kids[j] = IF j < q THEN n.kids[j] ELSE IF j = q THEN step ELSE n.kids[j - 1]
    OBVIOUS
  <2>1. n.kids \in Seq(Ids) /\ Len(n.kids) + 1 = L + 2
    BY <1>1
  <2>2. q \in 1 .. Len(n.kids) + 1 /\ step \in Ids /\ n.kids \in Seq(Ids)
    BY <1>1, <1>7
  <2>3. /\ kids \in Seq(Ids) /\ Len(kids) = Len(n.kids) + 1
        /\ \A j \in 1 .. Len(n.kids) + 1 : kids[j] = IF j < q THEN n.kids[j] ELSE IF j = q THEN step ELSE n.kids[j - 1]
    <3> DEFINE s == n.kids
    <3>1. s \in Seq(Ids) /\ q \in 1 .. Len(s) + 1 /\ step \in Ids
      BY <2>2
    <3> HIDE DEF s, q
    <3>2. /\ InsertAt(s, q, step) \in Seq(Ids) /\ Len(InsertAt(s, q, step)) = Len(s) + 1
          /\ \A j \in 1 .. Len(s) + 1 : InsertAt(s, q, step)[j] = IF j < q THEN s[j] ELSE IF j = q THEN step ELSE s[j - 1]
      BY <3>1, InsertFacts
    <3>. QED
      BY <3>2 DEF s, kids
  <2> HIDE DEF kids, L
  <2>. QED
    BY <2>1, <2>3
<1> HIDE DEF keys, vals, kids
<1>11. Increasing(keys) /\ ToSet(keys) = M \cup {x}
  <2>1. \A j \in 1 .. Len(n.keys) : (n.keys[j] < x <=> j < p) /\ n.keys[j] # x
    <3>1. \A j \in 1 .. L : j <= i <=> j < p
      BY <1>5 DEF p
    <3>. QED
      BY <1>2, <1>5, <3>1
  <2>2. n.keys \in Seq(Nat) /\ Increasing(n.keys) /\ p \in 1 .. Len(n.keys) + 1
    BY <1>2, <1>7
  <2>. QED
    <3> DEFINE s == n.keys
    <3> DEFINE t == InsertAt(s, p, x)
    <3>1. /\ s \in Seq(Nat) /\ Increasing(s) /\ p \in 1 .. Len(s) + 1
          /\ \A j \in 1 .. Len(s) : s[j] < x <=> j < p
          /\ \A j \in 1 .. Len(s) : s[j] # x
      BY <2>1, <2>2
    <3> HIDE DEF s
    <3>2. Increasing(t) /\ ToSet(t) = ToSet(s) \cup {x}
      BY <1>4, <3>1, InsertKeys
    <3>. QED
      BY <1>2, <3>2 DEF s, keys
<1> HIDE DEF L
<1>12. \A j \in 1 .. L + 1 : vals[j] = e[keys[j]]
  <2> SUFFICES ASSUME NEW j \in 1 .. L + 1 PROVE vals[j] = e[keys[j]]
    OBVIOUS
  <2>0. e[x] = v /\ \A k \in M : e[k] = d[k]
    BY DEF With, e
  <2>1. CASE j < p
    <3>1. j \in 1 .. L
      BY <1>1, <1>7, <2>1
    <3>2. keys[j] = n.keys[j] /\ vals[j] = n.vals[j]
      BY <1>8, <1>9, <2>1
    <3>3. n.vals[j] = d[n.keys[j]] /\ n.keys[j] \in M
      BY <1>2, <3>1
    <3>. QED
      BY <2>0, <3>2, <3>3
  <2>2. CASE j = p
    BY <1>8, <1>9, <2>0, <2>2
  <2>3. CASE j > p
    <3>1. j - 1 \in 1 .. L /\ ~(j < p) /\ j # p
      BY <1>1, <1>7, <2>3
    <3>2. keys[j] = n.keys[j - 1] /\ vals[j] = n.vals[j - 1]
      BY <1>8, <1>9, <3>1
    <3>3. n.vals[j - 1] = d[n.keys[j - 1]] /\ n.keys[j - 1] \in M
      BY <1>2, <3>1
    <3>. QED
      BY <2>0, <3>2, <3>3
  <2>. QED
    BY <1>7, <2>1, <2>2, <2>3
<1>13. Len(keys) = L + 1 /\ Len(vals) = Len(keys)
  BY <1>8, <1>9
<1>14. l # 0 => \A j \in 1 .. (L + 1) + 1 : IsAt(kids[j], l - 1, IF j = 1 THEN left ELSE keys[j - 1])
  <2> SUFFICES ASSUME l # 0, NEW j \in 1 .. (L + 1) + 1 PROVE IsAt(kids[j], l - 1, IF j = 1 THEN left ELSE keys[j - 1])
    OBVIOUS
  <2>0. j \in 1 .. L + 2
    BY <1>1
  <2>1. CASE j < q
    <3>1. j \in 1 .. L + 1 /\ (j # 1 => j - 1 \in 1 .. L + 1 /\ j - 1 < p)
      BY <1>1, <1>7, <2>0, <2>1
    <3>2. j # 1 => keys[j - 1] = n.keys[j - 1]
      BY <1>8, <3>1
    <3>3. kids[j] = n.kids[j]
      BY <1>10, <2>0, <2>1
    <3>. QED
      BY <1>3, <3>1, <3>2, <3>3
  <2>2. CASE j = q
    <3>1. kids[j] = step
      BY <1>10, <2>0, <2>2
    <3>2. j # 1 /\ j - 1 = p
      BY <1>7, <2>2
    <3>3. keys[p] = x
      BY <1>7, <1>8
    <3>. QED
      BY <3>1, <3>2, <3>3
  <2>3. CASE j > q
    <3>1. /\ j - 1 \in 1 .. L + 1 /\ j # 1 /\ j - 1 # 1
          /\ ~(j < q) /\ j # q /\ ~(j - 1 < p) /\ j - 1 # p
      BY <1>1, <1>7, <2>0, <2>3
    <3>2. kids[j] = n.kids[j - 1]
      BY <1>10, <2>0, <3>1
    <3>3. keys[j - 1] = n.keys[(j - 1) - 1]
      BY <1>8, <3>1
    <3>. QED
      BY <1>3, <3>1, <3>2, <3>3
  <2>. QED
    BY <1>7, <2>0, <2>1, <2>2, <2>3
<1>15. m \in NodeRecs /\ m.keys = keys /\ m.vals = vals /\ m.kids = n.kids
  BY <1>1, <1>6, <1>8, <1>9 DEF NodeRecs
<1>16. l = 0 => Spells([keys |-> keys, vals |-> vals, kids |-> n.kids], M \cup {x}, e, l, left)
  <2> SUFFICES ASSUME l = 0 PROVE Spells([keys |-> keys, vals |-> vals, kids |-> n.kids], M \cup {x}, e, l, left)
    OBVIOUS
  <2>1. n.kids \in Seq(Ids) /\ n.kids = << >>
    BY <1>1, <1>3
  <2>. QED
    BY <1>8, <1>9, <1>11, <1>12, <1>13, <2>1 DEF Spells, NodeRecs
<1>17. l # 0 => Spells([keys |-> keys, vals |-> vals, kids |-> kids], M \cup {x}, e, l, left)
  <2> SUFFICES ASSUME l # 0 PROVE Spells([keys |-> keys, vals |-> vals, kids |-> kids], M \cup {x}, e, l, left)
    OBVIOUS
  <2>1. Len(kids) = (L + 1) + 1 /\ kids \in Seq(Ids)
    BY <1>1, <1>10
  <2>. QED
    BY <1>8, <1>9, <1>11, <1>12, <1>13, <1>14, <2>1 DEF Spells, NodeRecs
<1> DEFINE f == [m EXCEPT !.kids = InsertAt(@, q, step)]
<1>18. f = [keys |-> keys, vals |-> vals, kids |-> kids]
  <2>1. f = [m EXCEPT !.kids = kids]
    <3>1. m.kids = n.kids
      BY <1>15
    <3>. QED
      BY <3>1 DEF kids
  <2> HIDE DEF m, f
  <2>. QED
    BY <1>15, <2>1, NodeExcept
<1>19. l # 0 => ToSet(kids) = ToSet(n.kids) \cup {step} /\ p \in 1 .. Len(kids) /\ kids[p] = n.kids[p]
  <2> SUFFICES ASSUME l # 0 PROVE ToSet(kids) = ToSet(n.kids) \cup {step} /\ p \in 1 .. Len(kids) /\ kids[p] = n.kids[p]
    OBVIOUS
  <2>1. DOMAIN kids = 1 .. L + 2 /\ DOMAIN n.kids = 1 .. L + 1
    BY <1>1, <1>10, LenProperties
  <2>2. p \in 1 .. L + 2 /\ p < q /\ q \in 1 .. L + 2
    BY <1>1, <1>7
  <2>3. \A j \in 1 .. L + 2 : kids[j] = IF j < q THEN n.kids[j] ELSE IF j = q THEN step ELSE n.kids[j - 1]
    BY <1>10
  <2>4. ASSUME NEW j \in 1 .. L + 2 PROVE kids[j] \in ToSet(n.kids) \cup {step}
    <3>1. j < q => j \in 1 .. L + 1
      BY <1>1, <2>2
    <3>2. j > q => j - 1 \in 1 .. L + 1
      BY <1>1, <2>2
    <3>3. j < q \/ j = q \/ j > q
      BY <2>2
    <3>4. kids[j] = IF j < q THEN n.kids[j] ELSE IF j = q THEN step ELSE n.kids[j - 1]
      BY <2>3
    <3>. QED
      BY <2>1, <2>2, <3>1, <3>2, <3>3, <3>4 DEF ToSet
  <2>5. ASSUME NEW j \in 1 .. L + 1 PROVE \E k \in 1 .. L + 2 : kids[k] = n.kids[j]
    <3>1. CASE j < q
      BY <1>1, <2>3, <3>1
    <3>2. CASE j >= q
      <4>1. j + 1 \in 1 .. L + 2 /\ ~(j + 1 < q) /\ j + 1 # q /\ (j + 1) - 1 = j
        BY <1>1, <2>2, <3>2
      <4>2. kids[j + 1] = n.kids[j]
        BY <2>3, <4>1
      <4>. QED
        BY <4>1, <4>2
    <3>. QED
      BY <2>2, <3>1, <3>2
  <2>6. kids[q] = step
    BY <2>2, <2>3
  <2>7. ToSet(kids) = ToSet(n.kids) \cup {step}
    BY <2>1, <2>2, <2>4, <2>5, <2>6, SMTT(30) DEF ToSet
  <2>. QED
    BY <1>10, <2>2, <2>3, <2>7
<1> HIDE DEF m, f
<1>20. Increasing(m.keys) /\ Len(m.vals) = Len(m.keys)
  BY <1>11, <1>13, <1>15
<1>21. f.kids = kids
  BY <1>18
<1>. QED
  BY <1>6, <1>15, <1>16, <1>17, <1>18, <1>19, <1>20, <1>21 DEF i, m, f, e, p, q, Inserted

LEMMA RemoveDistinct ==
  ASSUME NEW S, NEW s \in Seq(S), NEW p \in 1 .. Len(s), \A i, j \in 1 .. Len(s) : s[i] = s[j] => i = j
  PROVE  ToSet(RemoveAt(s, p)) = ToSet(s) \ {s[p]}
<1> DEFINE L == Len(s)  t == RemoveAt(s, p)
<1>1. L \in Nat /\ DOMAIN s = 1 .. L
  BY LenProperties
<1>2. t \in Seq(S) /\ Len(t) = L - 1 /\ \A j \in 1 .. L - 1 : t[j] = IF j < p THEN s[j] ELSE s[j + 1]
  BY RemoveFacts
<1>3. DOMAIN t = 1 .. L - 1
  BY <1>2, LenProperties
<1>4. \A i, j \in 1 .. L : s[i] = s[j] => i = j
  OBVIOUS
<1>5. p \in 1 .. L
  OBVIOUS
<1> HIDE DEF L, t
<1>6. ASSUME NEW j \in 1 .. L - 1 PROVE \E i \in 1 .. L : i # p /\ t[j] = s[i]
  <2>1. CASE j < p
    <3>1. j \in 1 .. L /\ t[j] = s[j]
      BY <1>1, <1>2, <2>1
    <3>. QED
      BY <2>1, <3>1
  <2>2. CASE ~(j < p)
    <3>1. j + 1 \in 1 .. L /\ t[j] = s[j + 1] /\ j + 1 # p
      BY <1>1, <1>2, <1>5, <2>2
    <3>. QED
      BY <3>1
  <2>. QED
    BY <2>1, <2>2
<1>7. ASSUME NEW i \in 1 .. L, i # p PROVE \E j \in 1 .. L - 1 : t[j] = s[i]
  <2>1. CASE i < p
    <3>1. i \in 1 .. L - 1
      BY <1>1, <1>5, <2>1
    <3>2. t[i] = s[i]
      BY <1>2, <2>1, <3>1
    <3>. QED
      BY <3>1, <3>2
  <2>2. CASE i > p
    <3>1. i - 1 \in 1 .. L - 1 /\ ~(i - 1 < p) /\ (i - 1) + 1 = i
      BY <1>1, <1>5, <2>2
    <3>2. t[i - 1] = s[(i - 1) + 1]
      BY <1>2, <3>1
    <3>. QED
      BY <3>1, <3>2
  <2>. QED
    BY <1>5, <1>7, <2>1, <2>2
<1>8. ToSet(t) = {t[j] : j \in 1 .. L - 1} /\ ToSet(s) = {s[i] : i \in 1 .. L}
  BY <1>1, <1>3 DEF ToSet
<1>9. \A i \in 1 .. L : i # p => s[i] # s[p]
  BY <1>4, <1>5
<1>10. ToSet(t) = ToSet(s) \ {s[p]}
  BY <1>6, <1>7, <1>8, <1>9, SMTT(30)
<1>. QED
  BY <1>10 DEF t

LEMMA RemoveKey ==
  ASSUME NEW s \in Seq(Nat), Increasing(s), NEW p \in 1 .. Len(s)
  PROVE  Increasing(RemoveAt(s, p)) /\ ToSet(RemoveAt(s, p)) = ToSet(s) \ {s[p]}
<1> DEFINE L == Len(s)  t == RemoveAt(s, p)
<1>1. L \in Nat /\ p \in 1 .. L /\ \A i \in 1 .. L : s[i] \in Nat
  BY LenProperties, ElementOfSeq
<1>2. \A i, j \in 1 .. L : i < j => s[i] < s[j]
  BY DEF Increasing
<1>3. Len(t) = L - 1 /\ \A j \in 1 .. L - 1 : t[j] = IF j < p THEN s[j] ELSE s[j + 1]
  <2> DEFINE S == Nat
  <2>1. s \in Seq(S)
    OBVIOUS
  <2> HIDE DEF S
  <2>. QED
    BY <2>1, RemoveFacts
<1> HIDE DEF L, t
<1>4. ASSUME NEW i \in 1 .. L, NEW j \in 1 .. L, s[i] = s[j] PROVE i = j
  <2>1. s[i] \in Nat /\ s[j] \in Nat
    BY <1>1
  <2>2. ~(i < j) /\ ~(j < i)
    BY <1>2, <1>4, <2>1
  <2>. QED
    BY <2>2
<1>5. ToSet(t) = ToSet(s) \ {s[p]}
  <2> DEFINE S == Nat
  <2>1. s \in Seq(S)
    OBVIOUS
  <2> HIDE DEF S
  <2>. QED
    BY <1>4, <2>1, RemoveDistinct DEF t, L
<1>6. ASSUME NEW i \in 1 .. L - 1, NEW j \in 1 .. L - 1, i < j PROVE t[i] < t[j]
  <2> DEFINE a == IF i < p THEN i ELSE i + 1  b == IF j < p THEN j ELSE j + 1
  <2>1. a \in 1 .. L /\ b \in 1 .. L /\ a < b
    BY <1>1, <1>6
  <2>2. t[i] = s[a] /\ t[j] = s[b]
    BY <1>3
  <2> HIDE DEF a, b
  <2>. QED
    BY <1>2, <2>1, <2>2
<1>. QED
  BY <1>3, <1>5, <1>6 DEF t, Increasing

\* The node that loses a label, and the child to the right of it.
Deleted(n, M, d, l, left, x) ==
    LET i == BisectLeft(n, x)
        m == Delete(n, x)
        f == [m EXCEPT !.kids = RemoveAt(@, i + 2)]
    IN  /\ m \in NodeRecs /\ Increasing(m.keys) /\ Len(m.vals) = Len(m.keys) /\ m.kids = n.kids
        /\ l = 0 => Spells(m, M \ {x}, Without(d, x), l, left)
        /\ l # 0 => /\ Spells(f, M \ {x}, Without(d, x), l, left)
                    /\ n.kids[i + 2] \in ToSet(n.kids) /\ IsAt(n.kids[i + 2], l - 1, x)
                    /\ ToSet(f.kids) = ToSet(n.kids) \ {n.kids[i + 2]}
                    /\ i + 1 \in 1 .. Len(f.kids) /\ f.kids[i + 1] = n.kids[i + 1]

LEMMA SpellsDelete ==
  ASSUME NEW n, NEW M, NEW d, NEW l, NEW left, Spells(n, M, d, l, left), NEW x \in M, M \subseteq DOMAIN d,
         left \in Nat, \A k \in M : left < k
  PROVE  Deleted(n, M, d, l, left, x)
<1> DEFINE L == Len(n.keys)  i == BisectLeft(n, x)  m == Delete(n, x)  p == i + 1  q == i + 2
           keys == RemoveAt(n.keys, p)  vals == RemoveAt(n.vals, p)
           kids == RemoveAt(n.kids, q)  e == Without(d, x)
<1>1. /\ n \in NodeRecs /\ n.keys \in Seq(Labels) /\ n.vals \in Seq(Values) /\ n.kids \in Seq(Ids)
      /\ L \in Nat /\ Len(n.vals) = L
      /\ l # 0 => Len(n.kids) = L + 1
  <2>1. n \in NodeRecs
    BY DEF Spells
  <2>. QED
    BY <2>1, SpellsFacts
<1>2. /\ \A j \in 1 .. L : n.vals[j] = d[n.keys[j]] /\ n.keys[j] \in M /\ n.keys[j] \in Nat
      /\ n.keys \in Seq(Nat) /\ Increasing(n.keys) /\ ToSet(n.keys) = M
  BY SpellsFacts
<1>3. /\ l = 0 => n.kids = << >>
      /\ l # 0 => \A j \in 1 .. L + 1 : IsAt(n.kids[j], l - 1, IF j = 1 THEN left ELSE n.keys[j - 1])
  BY SpellsFacts
<1>4. x \in Nat
  BY SpellsFacts
<1>5. i \in 0 .. L /\ BisectRight(n, x) = p /\ p \in 1 .. L /\ n.keys[p] = x
  <2> DEFINE b == BisectRight(n, x)
  <2>1. b = i + 1 /\ b \in 1 .. L /\ n.keys[b] = x
    BY <1>4, SpellsSearch
  <2>2. i \in 0 .. L
    BY <1>4, SpellsSearch
  <2> HIDE DEF b, i, L
  <2>3. b = p
    BY <2>1
  <2>. QED
    BY <2>1, <2>2, <2>3 DEF b
<1>6. m = [keys |-> keys, vals |-> vals, kids |-> n.kids]
  <2>1. m = [n EXCEPT !.keys = keys, !.vals = vals]
    BY <1>5 DEF Delete
  <2> HIDE DEF keys, vals, m
  <2>2. DOMAIN m = {"keys", "vals", "kids"} /\ m.keys = keys /\ m.vals = vals /\ m.kids = n.kids
    BY <1>1, <2>1 DEF NodeRecs
  <2>3. m = [f \in {"keys", "vals", "kids"} |-> m[f]]
    BY <2>1, <2>2
  <2>. QED
    BY <2>2, <2>3
<1> HIDE DEF i, p, q, e
<1>7. /\ p \in 1 .. Len(n.keys) /\ p \in 1 .. Len(n.vals) /\ p \in 1 .. L /\ q = p + 1
      /\ (l # 0 => q \in 1 .. Len(n.kids))
  <2>1. /\ i \in 0 .. L /\ L \in Nat /\ Len(n.keys) = L /\ Len(n.vals) = L /\ (l # 0 => Len(n.kids) = L + 1)
        /\ p = i + 1 /\ q = i + 2 /\ p \in 1 .. L
    BY <1>1, <1>5 DEF p, q
  <2> HIDE DEF L
  <2>. QED
    BY <2>1
<1>8. /\ keys \in Seq(Labels) /\ Len(keys) = L - 1
      /\ \A j \in 1 .. L - 1 : keys[j] = IF j < p THEN n.keys[j] ELSE n.keys[j + 1]
  <2> DEFINE s == n.keys
  <2>1. s \in Seq(Labels) /\ p \in 1 .. Len(s) /\ Len(s) = L
    BY <1>1, <1>7
  <2> HIDE DEF s, L
  <2>2. /\ RemoveAt(s, p) \in Seq(Labels) /\ Len(RemoveAt(s, p)) = Len(s) - 1
        /\ \A j \in 1 .. Len(s) - 1 : RemoveAt(s, p)[j] = IF j < p THEN s[j] ELSE s[j + 1]
    BY <2>1, RemoveFacts, SMTT(30)
  <2>. QED
    BY <2>1, <2>2 DEF s
<1>9. /\ vals \in Seq(Values) /\ Len(vals) = L - 1
      /\ \A j \in 1 .. L - 1 : vals[j] = IF j < p THEN n.vals[j] ELSE n.vals[j + 1]
  <2> DEFINE s == n.vals
  <2>1. s \in Seq(Values) /\ p \in 1 .. Len(s) /\ Len(s) = L
    BY <1>1, <1>7
  <2> HIDE DEF s, L
  <2>2. /\ RemoveAt(s, p) \in Seq(Values) /\ Len(RemoveAt(s, p)) = Len(s) - 1
        /\ \A j \in 1 .. Len(s) - 1 : RemoveAt(s, p)[j] = IF j < p THEN s[j] ELSE s[j + 1]
    BY <2>1, RemoveFacts
  <2>. QED
    BY <2>1, <2>2 DEF s
<1>10. l # 0 => /\ kids \in Seq(Ids) /\ Len(kids) = L
                /\ \A j \in 1 .. L : kids[j] = IF j < q THEN n.kids[j] ELSE n.kids[j + 1]
  <2> SUFFICES ASSUME l # 0 PROVE /\ kids \in Seq(Ids) /\ Len(kids) = L
                /\ \A j \in 1 .. L : kids[j] = IF j < q THEN n.kids[j] ELSE n.kids[j + 1]
    OBVIOUS
  <2> DEFINE s == n.kids
  <2>1. s \in Seq(Ids) /\ q \in 1 .. Len(s) /\ Len(s) - 1 = L
    BY <1>1, <1>7
  <2> HIDE DEF s, L
  <2>2. /\ RemoveAt(s, q) \in Seq(Ids) /\ Len(RemoveAt(s, q)) = Len(s) - 1
        /\ \A j \in 1 .. Len(s) - 1 : RemoveAt(s, q)[j] = IF j < q THEN s[j] ELSE s[j + 1]
    BY <2>1, RemoveFacts
  <2>. QED
    BY <2>1, <2>2 DEF s
<1> HIDE DEF keys, vals, kids
<1>11. Increasing(keys) /\ ToSet(keys) = M \ {x}
  <2> DEFINE s == n.keys
  <2>1. s \in Seq(Nat) /\ Increasing(s) /\ p \in 1 .. Len(s) /\ s[p] = x
    BY <1>2, <1>5, <1>7
  <2> HIDE DEF s
  <2>2. Increasing(RemoveAt(s, p)) /\ ToSet(RemoveAt(s, p)) = ToSet(s) \ {s[p]}
    BY <2>1, RemoveKey
  <2>. QED
    BY <1>2, <2>1, <2>2 DEF s, keys
<1> HIDE DEF L
<1>12. \A j \in 1 .. L - 1 : vals[j] = e[keys[j]]
  <2> SUFFICES ASSUME NEW j \in 1 .. L - 1 PROVE vals[j] = e[keys[j]]
    OBVIOUS
  <2> DEFINE a == IF j < p THEN j ELSE j + 1
  <2>1. a \in 1 .. L
    BY <1>1
  <2>2. keys[j] = n.keys[a] /\ vals[j] = n.vals[a]
    BY <1>8, <1>9
  <2>3. keys[j] \in M \ {x}
    <3>1. DOMAIN keys = 1 .. L - 1
      BY <1>8, LenProperties
    <3>. QED
      BY <1>11, <3>1 DEF ToSet
  <2> HIDE DEF a
  <2>4. n.vals[a] = d[n.keys[a]]
    BY <1>2, <2>1
  <2>5. \A k \in M \ {x} : e[k] = d[k]
    BY DEF e, Without
  <2>. QED
    BY <2>2, <2>3, <2>4, <2>5
<1>13. Len(keys) = L - 1 /\ Len(vals) = Len(keys)
  BY <1>8, <1>9
<1>14. l # 0 => \A j \in 1 .. L : IsAt(kids[j], l - 1, IF j = 1 THEN left ELSE keys[j - 1])
  <2> SUFFICES ASSUME l # 0, NEW j \in 1 .. L PROVE IsAt(kids[j], l - 1, IF j = 1 THEN left ELSE keys[j - 1])
    OBVIOUS
  <2>1. CASE j < q
    <3>1. j \in 1 .. L + 1 /\ (j # 1 => j - 1 \in 1 .. L - 1 /\ j - 1 < p)
      BY <1>1, <1>7, <2>1
    <3>2. j # 1 => keys[j - 1] = n.keys[j - 1]
      BY <1>8, <3>1
    <3>3. kids[j] = n.kids[j]
      BY <1>10, <2>1
    <3>. QED
      BY <1>3, <3>1, <3>2, <3>3
  <2>2. CASE ~(j < q)
    <3>1. /\ j + 1 \in 1 .. L + 1 /\ j # 1 /\ j + 1 # 1 /\ j - 1 \in 1 .. L - 1 /\ ~(j - 1 < p)
          /\ (j + 1) - 1 = (j - 1) + 1
      BY <1>1, <1>7, <2>2
    <3>2. kids[j] = n.kids[j + 1]
      BY <1>10, <2>2
    <3>3. keys[j - 1] = n.keys[(j - 1) + 1]
      BY <1>8, <3>1
    <3>. QED
      BY <1>3, <3>1, <3>2, <3>3
  <2>. QED
    BY <2>1, <2>2
<1>15. m \in NodeRecs /\ m.keys = keys /\ m.vals = vals /\ m.kids = n.kids
  BY <1>1, <1>6, <1>8, <1>9 DEF NodeRecs
<1>16. l = 0 => Spells([keys |-> keys, vals |-> vals, kids |-> n.kids], M \ {x}, e, l, left)
  <2> SUFFICES ASSUME l = 0 PROVE Spells([keys |-> keys, vals |-> vals, kids |-> n.kids], M \ {x}, e, l, left)
    OBVIOUS
  <2>1. n.kids \in Seq(Ids) /\ n.kids = << >>
    BY <1>1, <1>3
  <2>. QED
    BY <1>8, <1>9, <1>11, <1>12, <1>13, <2>1 DEF Spells, NodeRecs
<1>17. l # 0 => Spells([keys |-> keys, vals |-> vals, kids |-> kids], M \ {x}, e, l, left)
  <2> SUFFICES ASSUME l # 0 PROVE Spells([keys |-> keys, vals |-> vals, kids |-> kids], M \ {x}, e, l, left)
    OBVIOUS
  <2>1. Len(kids) = L /\ kids \in Seq(Ids) /\ (L - 1) + 1 = L
    BY <1>1, <1>10
  <2>. QED
    BY <1>8, <1>9, <1>11, <1>12, <1>13, <1>14, <2>1 DEF Spells, NodeRecs
<1> DEFINE f == [m EXCEPT !.kids = RemoveAt(@, q)]
<1>18. f = [keys |-> keys, vals |-> vals, kids |-> kids]
  <2>1. f = [m EXCEPT !.kids = kids]
    <3>1. m.kids = n.kids
      BY <1>15
    <3>. QED
      BY <3>1 DEF kids
  <2> HIDE DEF m, f
  <2>. QED
    BY <1>15, <2>1, NodeExcept
<1>19. l # 0 => /\ ToSet(kids) = ToSet(n.kids) \ {n.kids[q]} /\ n.kids[q] \in ToSet(n.kids)
                /\ p \in 1 .. Len(kids) /\ kids[p] = n.kids[p] /\ IsAt(n.kids[q], l - 1, x)
  <2> SUFFICES ASSUME l # 0
               PROVE  /\ ToSet(kids) = ToSet(n.kids) \ {n.kids[q]} /\ n.kids[q] \in ToSet(n.kids)
                      /\ p \in 1 .. Len(kids) /\ kids[p] = n.kids[p] /\ IsAt(n.kids[q], l - 1, x)
    OBVIOUS
  <2>1. DOMAIN n.kids = 1 .. L + 1 /\ Len(n.kids) = L + 1
    BY <1>1, LenProperties
  <2>2. p \in 1 .. L /\ p < q /\ q \in 1 .. L + 1 /\ q # 1 /\ q - 1 = p
    BY <1>1, <1>7
  <2>3. \A j, k \in 1 .. L + 1 : n.kids[j] = n.kids[k] => j = k
    <3>1. \A j, k \in 1 .. Len(n.keys) + 1 : n.kids[j].left = n.kids[k].left => j = k
      BY SpellsKids
    <3>. QED
      BY <3>1 DEF L
  <2>4. ToSet(kids) = ToSet(n.kids) \ {n.kids[q]}
    <3> DEFINE s == n.kids
    <3>1. s \in Seq(Ids) /\ q \in 1 .. Len(s) /\ \A j, k \in 1 .. Len(s) : s[j] = s[k] => j = k
      BY <1>1, <2>1, <2>2, <2>3
    <3> HIDE DEF s
    <3>2. ToSet(RemoveAt(s, q)) = ToSet(s) \ {s[q]}
      BY <3>1, RemoveDistinct
    <3>. QED
      BY <3>2 DEF s, kids
  <2>5. kids[p] = n.kids[p] /\ p \in 1 .. Len(kids)
    BY <1>10, <2>2
  <2>6. IsAt(n.kids[q], l - 1, x)
    BY <1>3, <1>5, <2>2
  <2>7. n.kids[q] \in ToSet(n.kids)
    BY <2>1, <2>2 DEF ToSet
  <2>. QED
    BY <2>4, <2>5, <2>6, <2>7
<1> HIDE DEF m, f
<1>20. Increasing(m.keys) /\ Len(m.vals) = Len(m.keys)
  BY <1>11, <1>13, <1>15
<1>21. f.kids = kids
  BY <1>18
<1>. QED
  BY <1>6, <1>15, <1>16, <1>17, <1>18, <1>19, <1>20, <1>21 DEF i, m, f, e, p, q, Deleted

LEMMA CutSet ==
  ASSUME NEW S, NEW s \in Seq(S), NEW a \in 1 .. Len(s) + 1, NEW b \in a - 1 .. Len(s)
  PROVE  ToSet(SubSeq(s, a, b)) = {s[j] : j \in a .. b}
<1> DEFINE t == SubSeq(s, a, b)  L == Len(s)
<1>1. t \in Seq(S) /\ Len(t) = b - a + 1 /\ \A j \in 1 .. b - a + 1 : t[j] = s[a + j - 1]
  BY CutFacts
<1>2. L \in Nat /\ a \in 1 .. L + 1 /\ b \in a - 1 .. L
  BY LenProperties
<1>3. DOMAIN t = 1 .. b - a + 1
  BY <1>1, LenProperties
<1> HIDE DEF t, L
<1>4. ASSUME NEW j \in a .. b PROVE \E k \in 1 .. b - a + 1 : t[k] = s[j]
  <2>1. j - a + 1 \in 1 .. b - a + 1 /\ a + (j - a + 1) - 1 = j
    BY <1>2
  <2>2. t[j - a + 1] = s[a + (j - a + 1) - 1]
    BY <1>1, <2>1
  <2>. QED
    BY <2>1, <2>2
<1>5. ASSUME NEW k \in 1 .. b - a + 1 PROVE \E j \in a .. b : t[k] = s[j]
  <2>1. a + k - 1 \in a .. b /\ t[k] = s[a + k - 1]
    BY <1>1, <1>2
  <2>. QED
    BY <2>1
<1>6. ToSet(t) = {t[k] : k \in 1 .. b - a + 1}
  BY <1>3 DEF ToSet
<1>7. ToSet(t) = {s[j] : j \in a .. b}
  <2>1. ASSUME NEW y \in ToSet(t) PROVE y \in {s[j] : j \in a .. b}
    <3>1. PICK k \in 1 .. b - a + 1 : y = t[k]
      BY <1>6
    <3>2. PICK j \in a .. b : t[k] = s[j]
      BY <1>5
    <3>. QED
      BY <3>1, <3>2
  <2>2. ASSUME NEW y \in {s[j] : j \in a .. b} PROVE y \in ToSet(t)
    <3>1. PICK j \in a .. b : y = s[j]
      OBVIOUS
    <3>2. PICK k \in 1 .. b - a + 1 : t[k] = s[j]
      BY <1>4
    <3>. QED
      BY <1>6, <3>1, <3>2
  <2>. QED
    BY <2>1, <2>2
<1>. QED
  BY <1>7 DEF t

LEMMA CutKey ==
  ASSUME NEW s \in Seq(Nat), Increasing(s), NEW a \in 1 .. Len(s) + 1, NEW b \in a - 1 .. Len(s)
  PROVE  Increasing(SubSeq(s, a, b)) /\ ToSet(SubSeq(s, a, b)) = {s[j] : j \in a .. b}
<1> DEFINE t == SubSeq(s, a, b)  L == Len(s)  S == Nat
<1>1. s \in Seq(S)
  OBVIOUS
<1> HIDE DEF S
<1>2. Len(t) = b - a + 1 /\ \A j \in 1 .. b - a + 1 : t[j] = s[a + j - 1]
  BY <1>1, CutFacts
<1>3. ToSet(t) = {s[j] : j \in a .. b}
  BY <1>1, CutSet
<1>4. L \in Nat /\ a \in 1 .. L + 1 /\ b \in a - 1 .. L
  BY LenProperties
<1>5. \A i, j \in 1 .. L : i < j => s[i] < s[j]
  BY DEF Increasing
<1> HIDE DEF t, L
<1>6. ASSUME NEW i \in 1 .. b - a + 1, NEW j \in 1 .. b - a + 1, i < j PROVE t[i] < t[j]
  <2>1. a + i - 1 \in 1 .. L /\ a + j - 1 \in 1 .. L /\ a + i - 1 < a + j - 1
    BY <1>4, <1>6
  <2>2. t[i] = s[a + i - 1] /\ t[j] = s[a + j - 1]
    BY <1>2
  <2>. QED
    BY <1>5, <2>1, <2>2
<1>. QED
  BY <1>2, <1>3, <1>6 DEF t, Increasing

\* What is left of x in a node.
LeftOf(n, M, d, l, left, x) ==
    LET a == SplitLeft(n, x)
    IN  /\ Spells(a, {k \in M : k < x}, d, l, left)
        /\ Len(a.keys) = BisectLeft(n, x)
        /\ l # 0 => /\ ToSet(a.kids) = {c \in ToSet(n.kids) : c.left < x}
                    /\ Len(a.keys) + 1 \in 1 .. Len(a.kids)
                    /\ a.kids[Len(a.keys) + 1] = n.kids[BisectLeft(n, x) + 1]

LEMMA SpellsLeft ==
  ASSUME NEW n, NEW M, NEW d, NEW l, NEW left, Spells(n, M, d, l, left), NEW x \in Nat,
         left \in Nat, left < x
  PROVE  LeftOf(n, M, d, l, left, x)
<1> DEFINE L == Len(n.keys)  i == BisectLeft(n, x)  p == i + 1
           keys == SubSeq(n.keys, 1, i)  vals == SubSeq(n.vals, 1, i)
           kids == SubSeq(n.kids, 1, p)  N == {k \in M : k < x}
<1>1. /\ n.keys \in Seq(Labels) /\ n.vals \in Seq(Values) /\ n.kids \in Seq(Ids)
      /\ L \in Nat /\ Len(n.vals) = L /\ Len(n.keys) = L
      /\ l # 0 => Len(n.kids) = L + 1
      /\ l = 0 => n.kids = << >>
  BY SpellsFacts
<1>2. /\ \A j \in 1 .. L : n.vals[j] = d[n.keys[j]] /\ n.keys[j] \in M /\ n.keys[j] \in Nat
      /\ \A m \in M : \E j \in 1 .. L : m = n.keys[j]
      /\ n.keys \in Seq(Nat) /\ Increasing(n.keys)
  BY SpellsFacts
<1>3. l # 0 => \A j \in 1 .. L + 1 : IsAt(n.kids[j], l - 1, IF j = 1 THEN left ELSE n.keys[j - 1])
  BY SpellsFacts
<1>4. i \in 0 .. L /\ \A j \in 1 .. L : n.keys[j] < x <=> j <= i
  BY SpellsSearch
<1> HIDE DEF i, p, L, N
<1>5. p = i + 1 /\ 1 \in 1 .. L + 1 /\ i \in 1 - 1 .. L /\ (i - 1) + 1 = i /\ p \in 1 .. L + 1 /\ p - 1 + 1 = p
  BY <1>1, <1>4 DEF p
<1>6. keys \in Seq(Labels) /\ Len(keys) = i /\ \A j \in 1 .. i : keys[j] = n.keys[j]
  <2> DEFINE s == n.keys
  <2>1. s \in Seq(Labels) /\ 1 \in 1 .. Len(s) + 1 /\ i \in 1 - 1 .. Len(s)
    BY <1>1, <1>5
  <2> HIDE DEF s
  <2>2. /\ SubSeq(s, 1, i) \in Seq(Labels) /\ Len(SubSeq(s, 1, i)) = i - 1 + 1
        /\ \A j \in 1 .. i - 1 + 1 : SubSeq(s, 1, i)[j] = s[1 + j - 1]
    BY <2>1, CutFacts
  <2>3. keys = SubSeq(s, 1, i)
    BY DEF s
  <2> HIDE DEF keys
  <2>. QED
    BY <1>5, <2>2, <2>3 DEF s
<1>7. vals \in Seq(Values) /\ Len(vals) = i /\ \A j \in 1 .. i : vals[j] = n.vals[j]
  <2> DEFINE s == n.vals
  <2>1. s \in Seq(Values) /\ 1 \in 1 .. Len(s) + 1 /\ i \in 1 - 1 .. Len(s)
    BY <1>1, <1>5
  <2> HIDE DEF s
  <2>2. /\ SubSeq(s, 1, i) \in Seq(Values) /\ Len(SubSeq(s, 1, i)) = i - 1 + 1
        /\ \A j \in 1 .. i - 1 + 1 : SubSeq(s, 1, i)[j] = s[1 + j - 1]
    BY <2>1, CutFacts
  <2>3. vals = SubSeq(s, 1, i)
    BY DEF s
  <2> HIDE DEF vals
  <2>. QED
    BY <1>5, <2>2, <2>3 DEF s
<1>8. l # 0 => /\ kids \in Seq(Ids) /\ Len(kids) = p /\ \A j \in 1 .. p : kids[j] = n.kids[j]
               /\ ToSet(kids) = {n.kids[j] : j \in 1 .. p}
  <2> SUFFICES ASSUME l # 0
               PROVE  /\ kids \in Seq(Ids) /\ Len(kids) = p /\ \A j \in 1 .. p : kids[j] = n.kids[j]
                      /\ ToSet(kids) = {n.kids[j] : j \in 1 .. p}
    OBVIOUS
  <2> DEFINE s == n.kids
  <2>1. s \in Seq(Ids) /\ 1 \in 1 .. Len(s) + 1 /\ p \in 1 - 1 .. Len(s)
    BY <1>1, <1>5
  <2> HIDE DEF s
  <2>2. /\ SubSeq(s, 1, p) \in Seq(Ids) /\ Len(SubSeq(s, 1, p)) = p - 1 + 1
        /\ \A j \in 1 .. p - 1 + 1 : SubSeq(s, 1, p)[j] = s[1 + j - 1]
    BY <2>1, CutFacts
  <2>3. ToSet(SubSeq(s, 1, p)) = {s[j] : j \in 1 .. p}
    BY <2>1, CutSet
  <2>4. kids = SubSeq(s, 1, p)
    BY DEF s
  <2> HIDE DEF kids
  <2>. QED
    BY <1>5, <2>2, <2>3, <2>4 DEF s
<1> HIDE DEF keys, vals, kids
<1>9. Increasing(keys) /\ ToSet(keys) = N
  <2> DEFINE s == n.keys
  <2>1. s \in Seq(Nat) /\ Increasing(s) /\ 1 \in 1 .. Len(s) + 1 /\ i \in 1 - 1 .. Len(s)
    BY <1>1, <1>2, <1>5
  <2> HIDE DEF s
  <2>2. Increasing(SubSeq(s, 1, i)) /\ ToSet(SubSeq(s, 1, i)) = {s[j] : j \in 1 .. i}
    BY <2>1, CutKey
  <2>3. {n.keys[j] : j \in 1 .. i} = N
    <3>1. \A j \in 1 .. i : j \in 1 .. L /\ n.keys[j] < x /\ n.keys[j] \in M
      BY <1>1, <1>2, <1>4
    <3>2. ASSUME NEW m \in N PROVE \E j \in 1 .. i : m = n.keys[j]
      <4>1. PICK j \in 1 .. L : m = n.keys[j]
        BY <1>2 DEF N
      <4>. QED
        BY <1>4, <4>1 DEF N
    <3>. QED
      BY <3>1, <3>2 DEF N
  <2>. QED
    BY <2>2, <2>3 DEF s, keys
<1>10. \A j \in 1 .. i : vals[j] = d[keys[j]]
  <2> SUFFICES ASSUME NEW j \in 1 .. i PROVE vals[j] = d[keys[j]]
    OBVIOUS
  <2>1. j \in 1 .. L
    BY <1>1, <1>4
  <2>2. n.vals[j] = d[n.keys[j]]
    BY <1>2, <2>1
  <2>3. vals[j] = n.vals[j] /\ keys[j] = n.keys[j]
    BY <1>6, <1>7
  <2>. QED
    BY <2>2, <2>3
<1>11. l # 0 => \A j \in 1 .. p : IsAt(kids[j], l - 1, IF j = 1 THEN left ELSE keys[j - 1])
  <2> SUFFICES ASSUME l # 0, NEW j \in 1 .. p PROVE IsAt(kids[j], l - 1, IF j = 1 THEN left ELSE keys[j - 1])
    OBVIOUS
  <2>1. j \in 1 .. L + 1 /\ (j # 1 => j - 1 \in 1 .. i)
    BY <1>1, <1>5
  <2>2. kids[j] = n.kids[j] /\ (j # 1 => keys[j - 1] = n.keys[j - 1])
    BY <1>6, <1>8, <2>1
  <2>. QED
    BY <1>3, <2>1, <2>2
<1> DEFINE a == SplitLeft(n, x)
<1>12. l = 0 => a = [keys |-> keys, vals |-> vals, kids |-> << >>]
  BY <1>1 DEF SplitLeft, Part, Node, keys, vals, i
<1>13. l # 0 => a = [keys |-> keys, vals |-> vals, kids |-> kids]
  <2> SUFFICES ASSUME l # 0 PROVE a = [keys |-> keys, vals |-> vals, kids |-> kids]
    OBVIOUS
  <2>1. n.kids # << >>
    <3>1. Len(n.kids) # 0
      BY <1>1
    <3>. QED
      BY <1>1, <3>1, EmptySeq
  <2>. QED
    BY <2>1 DEF SplitLeft, Part, Node, keys, vals, kids, i, p
<1>14. l = 0 => Spells(a, N, d, l, left)
  BY <1>6, <1>7, <1>9, <1>10, <1>12 DEF Spells, NodeRecs
<1>15. l # 0 => Spells(a, N, d, l, left)
  <2>. HIDE DEF a
  <2>. QED
    BY <1>5, <1>6, <1>7, <1>8, <1>9, <1>10, <1>11, <1>13 DEF Spells, NodeRecs
<1>16. a.keys = keys
  <2>. HIDE DEF a
  <2>. QED
    BY <1>12, <1>13
<1>17. l # 0 => {n.kids[j] : j \in 1 .. p} = {c \in ToSet(n.kids) : c.left < x}
  <2> SUFFICES ASSUME l # 0 PROVE {n.kids[j] : j \in 1 .. p} = {c \in ToSet(n.kids) : c.left < x}
    OBVIOUS
  <2>1. DOMAIN n.kids = 1 .. L + 1
    BY <1>1, LenProperties
  <2>2. ASSUME NEW j \in 1 .. L + 1 PROVE n.kids[j].left < x <=> j <= p
    <3>1. n.kids[j].left = IF j = 1 THEN left ELSE n.keys[j - 1]
      BY <1>3 DEF IsAt
    <3>2. CASE j = 1
      BY <1>5, <3>1, <3>2
    <3>3. CASE j # 1
      <4>1. j - 1 \in 1 .. L
        BY <1>1, <3>3
      <4>2. n.keys[j - 1] < x <=> j - 1 <= i
        BY <1>4, <4>1
      <4>. QED
        BY <1>4, <1>5, <3>1, <3>3, <4>2
    <3>. QED
      BY <3>2, <3>3
  <2>3. \A j \in 1 .. p : j \in 1 .. L + 1 /\ j <= p
    BY <1>1, <1>5
  <2>4. \A j \in 1 .. L + 1 : j <= p => j \in 1 .. p
    BY <1>1, <1>5
  <2>. QED
    BY <2>1, <2>2, <2>3, <2>4 DEF ToSet
<1>18. l # 0 => /\ ToSet(a.kids) = {c \in ToSet(n.kids) : c.left < x}
                /\ Len(a.keys) + 1 \in 1 .. Len(a.kids)
                /\ a.kids[Len(a.keys) + 1] = n.kids[i + 1]
  <2> HIDE DEF a
  <2> SUFFICES ASSUME l # 0
               PROVE  /\ ToSet(a.kids) = {c \in ToSet(n.kids) : c.left < x}
                      /\ Len(a.keys) + 1 \in 1 .. Len(a.kids)
                      /\ a.kids[Len(a.keys) + 1] = n.kids[i + 1]
    OBVIOUS
  <2>1. a.kids = kids /\ a.keys = keys
    BY <1>13
  <2>2. Len(keys) + 1 = p /\ Len(kids) = p /\ p \in 1 .. p /\ kids[p] = n.kids[p]
    BY <1>4, <1>5, <1>6, <1>8
  <2>. QED
    BY <1>5, <1>8, <1>17, <2>1, <2>2
<1>. QED
  BY <1>6, <1>14, <1>15, <1>16, <1>18 DEF i, N, LeftOf

\* What is right of x in a node, once its first child is the one right of x.
RightOf(n, M, d, l, left, x, step) ==
    LET b == SplitRight(n, x)
        f == [b EXCEPT !.kids[1] = step]
    IN  /\ b \in NodeRecs /\ Increasing(b.keys) /\ Len(b.vals) = Len(b.keys)
        /\ l = 0 => Spells(b, {k \in M : k > x}, d, l, x)
        /\ l # 0 => /\ Spells(f, {k \in M : k > x}, d, l, x)
                    /\ ToSet(f.kids) = {c \in ToSet(n.kids) : c.left > x} \cup {step}
                    /\ b.kids[1] = n.kids[BisectRight(n, x) + 1]

LEMMA SpellsRight ==
  ASSUME NEW n, NEW M, NEW d, NEW l, NEW left, Spells(n, M, d, l, left), NEW x \in Nat,
         left \in Nat, left < x, NEW step, StepAt(step, l, x)
  PROVE  RightOf(n, M, d, l, left, x, step)
<1> USE DEF StepAt
<1> DEFINE L == Len(n.keys)  i == BisectRight(n, x)  p == i + 1  q == L + 1
           keys == SubSeq(n.keys, p, L)  vals == SubSeq(n.vals, p, L)
           cut == SubSeq(n.kids, p, q)  kids == [cut EXCEPT ![1] = step]  N == {k \in M : k > x}
<1>1. /\ n.keys \in Seq(Labels) /\ n.vals \in Seq(Values) /\ n.kids \in Seq(Ids)
      /\ L \in Nat /\ Len(n.vals) = L /\ Len(n.keys) = L
      /\ l # 0 => Len(n.kids) = L + 1
      /\ l = 0 => n.kids = << >>
  BY SpellsFacts
<1>2. /\ \A j \in 1 .. L : n.vals[j] = d[n.keys[j]] /\ n.keys[j] \in M /\ n.keys[j] \in Nat
      /\ \A m \in M : \E j \in 1 .. L : m = n.keys[j]
      /\ n.keys \in Seq(Nat) /\ Increasing(n.keys)
  BY SpellsFacts
<1>3. l # 0 => \A j \in 1 .. L + 1 : IsAt(n.kids[j], l - 1, IF j = 1 THEN left ELSE n.keys[j - 1])
  BY SpellsFacts
<1>4. i \in 0 .. L /\ \A j \in 1 .. L : n.keys[j] <= x <=> j <= i
  BY SpellsSearch
<1> HIDE DEF i, p, q, L, N
<1>5. /\ p = i + 1 /\ p \in 1 .. L + 1 /\ L \in p - 1 .. L /\ L - p + 1 = L - i
      /\ q = L + 1 /\ p \in 1 .. (L + 1) + 1 /\ q \in p - 1 .. L + 1 /\ q - p + 1 = L - i + 1
  <2>1. L \in Nat /\ i \in 0 .. L
    BY <1>1, <1>4
  <2>2. p = i + 1 /\ q = L + 1
    BY DEF p, q
  <2>. QED
    BY <2>1, <2>2
<1>6. keys \in Seq(Labels) /\ Len(keys) = L - i /\ \A j \in 1 .. L - i : keys[j] = n.keys[p + j - 1]
  <2> DEFINE s == n.keys
  <2>1. s \in Seq(Labels) /\ p \in 1 .. Len(s) + 1 /\ L \in p - 1 .. Len(s)
    BY <1>1, <1>5
  <2> HIDE DEF s
  <2>2. /\ SubSeq(s, p, L) \in Seq(Labels) /\ Len(SubSeq(s, p, L)) = L - p + 1
        /\ \A j \in 1 .. L - p + 1 : SubSeq(s, p, L)[j] = s[p + j - 1]
    BY <2>1, CutFacts
  <2>3. keys = SubSeq(s, p, L)
    BY DEF s
  <2> HIDE DEF keys
  <2>. QED
    BY <1>5, <2>2, <2>3 DEF s
<1>7. vals \in Seq(Values) /\ Len(vals) = L - i /\ \A j \in 1 .. L - i : vals[j] = n.vals[p + j - 1]
  <2> DEFINE s == n.vals
  <2>1. s \in Seq(Values) /\ p \in 1 .. Len(s) + 1 /\ L \in p - 1 .. Len(s)
    BY <1>1, <1>5
  <2> HIDE DEF s
  <2>2. /\ SubSeq(s, p, L) \in Seq(Values) /\ Len(SubSeq(s, p, L)) = L - p + 1
        /\ \A j \in 1 .. L - p + 1 : SubSeq(s, p, L)[j] = s[p + j - 1]
    BY <2>1, CutFacts
  <2>3. vals = SubSeq(s, p, L)
    BY DEF s
  <2> HIDE DEF vals
  <2>. QED
    BY <1>5, <2>2, <2>3 DEF s
<1>8. l # 0 => cut \in Seq(Ids) /\ Len(cut) = L - i + 1 /\ \A j \in 1 .. L - i + 1 : cut[j] = n.kids[p + j - 1]
  <2> SUFFICES ASSUME l # 0
               PROVE  cut \in Seq(Ids) /\ Len(cut) = L - i + 1 /\ \A j \in 1 .. L - i + 1 : cut[j] = n.kids[p + j - 1]
    OBVIOUS
  <2> DEFINE s == n.kids
  <2>1. s \in Seq(Ids) /\ p \in 1 .. Len(s) + 1 /\ q \in p - 1 .. Len(s)
    BY <1>1, <1>5
  <2> HIDE DEF s
  <2>2. /\ SubSeq(s, p, q) \in Seq(Ids) /\ Len(SubSeq(s, p, q)) = q - p + 1
        /\ \A j \in 1 .. q - p + 1 : SubSeq(s, p, q)[j] = s[p + j - 1]
    BY <2>1, CutFacts
  <2>3. cut = SubSeq(s, p, q)
    BY DEF s
  <2> HIDE DEF cut
  <2>. QED
    BY <1>5, <2>2, <2>3 DEF s
<1> HIDE DEF keys, vals, cut
<1>9. l # 0 => /\ kids \in Seq(Ids) /\ Len(kids) = L - i + 1 /\ kids[1] = step
               /\ \A j \in 2 .. L - i + 1 : kids[j] = n.kids[p + j - 1]
               /\ 1 \in 1 .. L - i + 1
  <2> SUFFICES ASSUME l # 0
               PROVE  /\ kids \in Seq(Ids) /\ Len(kids) = L - i + 1 /\ kids[1] = step
                      /\ \A j \in 2 .. L - i + 1 : kids[j] = n.kids[p + j - 1]
                      /\ 1 \in 1 .. L - i + 1
    OBVIOUS
  <2>1. cut \in Seq(Ids) /\ 1 \in 1 .. Len(cut) /\ Len(cut) = L - i + 1 /\ 1 \in 1 .. L - i + 1
    BY <1>1, <1>4, <1>8
  <2>2. kids \in Seq(Ids) /\ Len(kids) = Len(cut) /\ \A j \in 1 .. Len(cut) : kids[j] = IF j = 1 THEN step ELSE cut[j]
    BY <2>1, ExceptSeq
  <2> HIDE DEF kids
  <2>. QED
    BY <1>8, <2>1, <2>2
<1> HIDE DEF kids
<1>10. Increasing(keys) /\ ToSet(keys) = N
  <2> DEFINE s == n.keys
  <2>1. s \in Seq(Nat) /\ Increasing(s) /\ p \in 1 .. Len(s) + 1 /\ L \in p - 1 .. Len(s)
    BY <1>1, <1>2, <1>5
  <2> HIDE DEF s
  <2>2. Increasing(SubSeq(s, p, L)) /\ ToSet(SubSeq(s, p, L)) = {s[j] : j \in p .. L}
    BY <2>1, CutKey
  <2>3. {n.keys[j] : j \in p .. L} = N
    <3>1. \A j \in p .. L : j \in 1 .. L /\ ~(j <= i)
      BY <1>1, <1>4, <1>5
    <3>2. \A j \in p .. L : n.keys[j] > x /\ n.keys[j] \in M
      BY <1>2, <1>4, <3>1
    <3>3. ASSUME NEW m \in N PROVE \E j \in p .. L : m = n.keys[j]
      <4>1. PICK j \in 1 .. L : m = n.keys[j]
        BY <1>2 DEF N
      <4>2. ~(n.keys[j] <= x)
        BY <1>2, <4>1 DEF N
      <4>3. j \in p .. L
        BY <1>4, <1>5, <4>2
      <4>. QED
        BY <4>1, <4>3
    <3>. QED
      BY <3>2, <3>3 DEF N
  <2>. QED
    BY <2>2, <2>3 DEF s, keys
<1>11. \A j \in 1 .. L - i : vals[j] = d[keys[j]]
  <2> SUFFICES ASSUME NEW j \in 1 .. L - i PROVE vals[j] = d[keys[j]]
    OBVIOUS
  <2>1. p + j - 1 \in 1 .. L
    BY <1>1, <1>4, <1>5
  <2>. QED
    BY <1>2, <1>6, <1>7, <2>1
<1>12. l # 0 => \A j \in 1 .. L - i + 1 : IsAt(kids[j], l - 1, IF j = 1 THEN x ELSE keys[j - 1])
  <2> SUFFICES ASSUME l # 0, NEW j \in 1 .. L - i + 1 PROVE IsAt(kids[j], l - 1, IF j = 1 THEN x ELSE keys[j - 1])
    OBVIOUS
  <2>1. CASE j = 1
    BY <1>9, <2>1
  <2>2. CASE j # 1
    <3>1. /\ j \in 2 .. L - i + 1 /\ p + j - 1 \in 1 .. L + 1 /\ p + j - 1 # 1 /\ j - 1 \in 1 .. L - i
          /\ (p + j - 1) - 1 = p + (j - 1) - 1
      BY <1>1, <1>4, <1>5, <2>2
    <3>2. kids[j] = n.kids[p + j - 1]
      BY <1>9, <3>1
    <3>3. keys[j - 1] = n.keys[p + (j - 1) - 1]
      BY <1>6, <3>1
    <3>4. IsAt(n.kids[p + j - 1], l - 1, n.keys[(p + j - 1) - 1])
      BY <1>3, <3>1
    <3>. QED
      BY <2>2, <3>1, <3>2, <3>3, <3>4
  <2>. QED
    BY <2>1, <2>2
<1> DEFINE b == SplitRight(n, x)  f == [b EXCEPT !.kids[1] = step]
<1>13. l = 0 => b = [keys |-> keys, vals |-> vals, kids |-> << >>]
  BY <1>1 DEF SplitRight, Part, Node, keys, vals, i, p, L
<1>14. l # 0 => b = [keys |-> keys, vals |-> vals, kids |-> cut]
  <2> SUFFICES ASSUME l # 0 PROVE b = [keys |-> keys, vals |-> vals, kids |-> cut]
    OBVIOUS
  <2>1. n.kids # << >>
    <3>1. Len(n.kids) # 0
      BY <1>1
    <3>. QED
      BY <1>1, <3>1, EmptySeq
  <2>2. Len(n.kids) = q
    BY <1>1 DEF q
  <2>3. b = Node(SubSeq(n.keys, i + 1, L), SubSeq(n.vals, i + 1, Len(n.vals)), SubSeq(n.kids, i + 1, Len(n.kids)))
    BY <2>1 DEF SplitRight, Part, i, L
  <2>. QED
    BY <1>1, <2>2, <2>3 DEF Node, keys, vals, cut, p
<1>15. l = 0 => Spells(b, N, d, l, x)
  BY <1>6, <1>7, <1>10, <1>11, <1>13 DEF Spells, NodeRecs
<1>16. b \in NodeRecs /\ b.keys = keys /\ b.vals = vals /\ (l # 0 => b.kids = cut)
  <2>. HIDE DEF b
  <2>1. CASE l = 0
    <3>1. << >> \in Seq(Ids)
      OBVIOUS
    <3>2. b = [keys |-> keys, vals |-> vals, kids |-> << >>]
      BY <1>13, <2>1
    <3>3. b.keys = keys /\ b.vals = vals
      BY <3>2
    <3>4. [keys |-> keys, vals |-> vals, kids |-> << >>] \in NodeRecs
      BY <1>6, <1>7, <3>1 DEF NodeRecs
    <3>. QED
      BY <2>1, <3>2, <3>3, <3>4
  <2>2. CASE l # 0
    <3>1. b = [keys |-> keys, vals |-> vals, kids |-> cut] /\ cut \in Seq(Ids)
      BY <1>8, <1>14, <2>2
    <3>2. b.keys = keys /\ b.vals = vals /\ b.kids = cut
      BY <3>1
    <3>3. [keys |-> keys, vals |-> vals, kids |-> cut] \in NodeRecs
      BY <1>6, <1>7, <3>1 DEF NodeRecs
    <3>. QED
      BY <3>1, <3>2, <3>3
  <2>. QED
    BY <2>1, <2>2
<1>17. l # 0 => f = [keys |-> keys, vals |-> vals, kids |-> kids]
  <2> SUFFICES ASSUME l # 0 PROVE f = [keys |-> keys, vals |-> vals, kids |-> kids]
    OBVIOUS
  <2>1. f = [b EXCEPT !.kids = kids]
    BY <1>16 DEF kids
  <2>2. b \in NodeRecs
    BY <1>16
  <2>. HIDE DEF b, f
  <2>. QED
    BY <1>16, <2>1, <2>2, NodeExcept
<1>18. l # 0 => Spells(f, N, d, l, x)
  <2> SUFFICES ASSUME l # 0 PROVE Spells(f, N, d, l, x)
    OBVIOUS
  <2>. HIDE DEF f
  <2>1. f \in NodeRecs /\ f.keys = keys /\ f.vals = vals /\ f.kids = kids
    BY <1>6, <1>7, <1>9, <1>17 DEF NodeRecs
  <2>2. Len(vals) = Len(keys) /\ Len(kids) = Len(keys) + 1 /\ Len(keys) = L - i /\ Len(kids) = L - i + 1
    BY <1>6, <1>7, <1>9
  <2>. QED
    BY <1>10, <1>11, <1>12, <2>1, <2>2 DEF Spells
<1>19. l # 0 => ToSet(kids) = {c \in ToSet(n.kids) : c.left > x} \cup {step}
  <2> SUFFICES ASSUME l # 0 PROVE ToSet(kids) = {c \in ToSet(n.kids) : c.left > x} \cup {step}
    OBVIOUS
  <2>1. DOMAIN n.kids = 1 .. L + 1 /\ DOMAIN kids = 1 .. L - i + 1
    BY <1>1, <1>9, LenProperties
  <2>2. ASSUME NEW j \in 1 .. L + 1 PROVE n.kids[j].left > x <=> j > p
    <3>1. n.kids[j].left = IF j = 1 THEN left ELSE n.keys[j - 1]
      BY <1>3 DEF IsAt
    <3>2. CASE j = 1
      BY <1>5, <3>1, <3>2
    <3>3. CASE j # 1
      <4>1. j - 1 \in 1 .. L
        BY <1>1, <3>3
      <4>2. (n.keys[j - 1] <= x <=> j - 1 <= i) /\ n.keys[j - 1] \in Nat
        BY <1>2, <1>4, <4>1
      <4>. QED
        BY <1>4, <1>5, <3>1, <3>3, <4>2
    <3>. QED
      BY <3>2, <3>3
  <2>3. ASSUME NEW j \in 2 .. L - i + 1 PROVE \E k \in 1 .. L + 1 : k > p /\ kids[j] = n.kids[k]
    <3>1. p + j - 1 \in 1 .. L + 1 /\ p + j - 1 > p
      BY <1>1, <1>4, <1>5
    <3>2. kids[j] = n.kids[p + j - 1]
      BY <1>9
    <3>. QED
      BY <3>1, <3>2
  <2>4. ASSUME NEW k \in 1 .. L + 1, k > p PROVE \E j \in 1 .. L - i + 1 : kids[j] = n.kids[k]
    <3>1. k - p + 1 \in 2 .. L - i + 1 /\ k - p + 1 \in 1 .. L - i + 1 /\ p + (k - p + 1) - 1 = k
      BY <1>1, <1>4, <1>5, <2>4
    <3>2. kids[k - p + 1] = n.kids[p + (k - p + 1) - 1]
      BY <1>9, <3>1
    <3>. QED
      BY <3>1, <3>2
  <2>5. \A j \in 1 .. L - i + 1 : j = 1 \/ j \in 2 .. L - i + 1
    BY <1>1, <1>4
  <2>6. kids[1] = step /\ 1 \in 1 .. L - i + 1
    BY <1>9
  <2>7. ToSet(kids) = {kids[j] : j \in 1 .. L - i + 1} /\ ToSet(n.kids) = {n.kids[k] : k \in 1 .. L + 1}
    BY <2>1 DEF ToSet
  <2>8. ASSUME NEW c \in ToSet(kids) PROVE c = step \/ c \in {e \in ToSet(n.kids) : e.left > x}
    BY <2>2, <2>3, <2>5, <2>6, <2>7
  <2>9. ASSUME NEW c \in ToSet(n.kids), c.left > x PROVE c \in ToSet(kids)
    BY <2>2, <2>4, <2>7, <2>9
  <2>10. step \in ToSet(kids)
    BY <2>6, <2>7
  <2>. QED
    BY <2>8, <2>9, <2>10
<1>20. l # 0 => cut[1] = n.kids[i + 1]
  <2> SUFFICES ASSUME l # 0 PROVE cut[1] = n.kids[i + 1]
    OBVIOUS
  <2>1. cut[1] = n.kids[p + 1 - 1] /\ p + 1 - 1 = i + 1
    BY <1>5, <1>8, <1>9
  <2>. QED
    BY <2>1
<1>21. l # 0 => f.kids = kids
  BY <1>17
<1>22. Increasing(b.keys) /\ Len(b.vals) = Len(b.keys)
  BY <1>6, <1>7, <1>10, <1>16
<1> HIDE DEF b, f
<1>. QED
  BY <1>15, <1>16, <1>18, <1>19, <1>20, <1>21, <1>22 DEF i, N, b, f, RightOf

LEMMA JoinFacts ==
  ASSUME NEW S, NEW s \in Seq(S), NEW t \in Seq(S)
  PROVE  /\ s \o t \in Seq(S) /\ Len(s \o t) = Len(s) + Len(t)
         /\ \A j \in 1 .. Len(s) : (s \o t)[j] = s[j]
         /\ \A j \in 1 .. Len(t) : (s \o t)[Len(s) + j] = t[j]
         /\ ToSet(s \o t) = ToSet(s) \cup ToSet(t)
<1> DEFINE K == Len(s)  L == Len(t)  u == s \o t
<1>1. K \in Nat /\ L \in Nat /\ DOMAIN s = 1 .. K /\ DOMAIN t = 1 .. L
  BY LenProperties
<1>2. u \in Seq(S) /\ Len(u) = K + L /\ \A j \in 1 .. K + L : u[j] = IF j <= K THEN s[j] ELSE t[j - K]
  BY ConcatProperties
<1>3. DOMAIN u = 1 .. K + L
  BY <1>2, LenProperties
<1> HIDE DEF K, L, u
<1>4. ASSUME NEW j \in 1 .. K PROVE j \in 1 .. K + L /\ u[j] = s[j]
  <2>1. j \in 1 .. K + L /\ j <= K
    BY <1>1
  <2>. QED
    BY <1>2, <2>1
<1>5. ASSUME NEW j \in 1 .. L PROVE K + j \in 1 .. K + L /\ u[K + j] = t[j]
  <2>1. K + j \in 1 .. K + L /\ ~(K + j <= K) /\ (K + j) - K = j
    BY <1>1
  <2>. QED
    BY <1>2, <2>1
<1>6. ASSUME NEW j \in 1 .. K + L PROVE u[j] \in ToSet(s) \cup ToSet(t)
  <2>1. CASE j <= K
    <3>1. j \in 1 .. K
      BY <1>1, <2>1
    <3>. QED
      BY <1>1, <1>4, <3>1 DEF ToSet
  <2>2. CASE ~(j <= K)
    <3>1. j - K \in 1 .. L /\ u[j] = t[j - K]
      BY <1>1, <1>2, <2>2
    <3>. QED
      BY <1>1, <3>1 DEF ToSet
  <2>. QED
    BY <2>1, <2>2
<1>7. ToSet(u) = ToSet(s) \cup ToSet(t)
  <2>1. \A y \in ToSet(u) : y \in ToSet(s) \cup ToSet(t)
    BY <1>3, <1>6 DEF ToSet
  <2>2. \A y \in ToSet(s) : y \in ToSet(u)
    BY <1>1, <1>3, <1>4 DEF ToSet
  <2>3. \A y \in ToSet(t) : y \in ToSet(u)
    <3>1. ASSUME NEW j \in 1 .. L PROVE \E i \in 1 .. K + L : u[i] = t[j]
      BY <1>5
    <3>. QED
      BY <1>1, <1>3, <3>1 DEF ToSet
  <2>. QED
    BY <2>1, <2>2, <2>3
<1>. QED
  BY <1>2, <1>4, <1>5, <1>7 DEF K, L, u

LEMMA JoinValues ==
  ASSUME NEW s \in Seq(Values), NEW t \in Seq(Values)
  PROVE  /\ s \o t \in Seq(Values) /\ Len(s \o t) = Len(s) + Len(t)
         /\ \A j \in 1 .. Len(s) : (s \o t)[j] = s[j]
         /\ \A j \in 1 .. Len(t) : (s \o t)[Len(s) + j] = t[j]
BY JoinFacts

LEMMA JoinKeys ==
  ASSUME NEW s \in Seq(Nat), NEW t \in Seq(Nat), Increasing(s), Increasing(t),
         \A a \in ToSet(s), b \in ToSet(t) : a < b
  PROVE  Increasing(s \o t) /\ ToSet(s \o t) = ToSet(s) \cup ToSet(t)
<1> DEFINE K == Len(s)  L == Len(t)  u == s \o t  S == Nat
<1>1. s \in Seq(S) /\ t \in Seq(S)
  OBVIOUS
<1> HIDE DEF S
<1>2. /\ u \in Seq(S) /\ Len(u) = K + L /\ ToSet(u) = ToSet(s) \cup ToSet(t)
      /\ \A j \in 1 .. K : u[j] = s[j]
      /\ \A j \in 1 .. L : u[K + j] = t[j]
  BY <1>1, JoinFacts
<1>3. K \in Nat /\ L \in Nat /\ DOMAIN s = 1 .. K /\ DOMAIN t = 1 .. L
  BY LenProperties
<1>4. /\ \A i, j \in 1 .. K : i < j => s[i] < s[j]
      /\ \A i, j \in 1 .. L : i < j => t[i] < t[j]
  BY DEF Increasing
<1>5. \A i \in 1 .. K, j \in 1 .. L : s[i] < t[j]
  BY <1>3 DEF ToSet
<1> HIDE DEF K, L, u
<1>6. \A j \in 1 .. K + L : j > K => j - K \in 1 .. L /\ u[j] = t[j - K]
  <2> SUFFICES ASSUME NEW j \in 1 .. K + L, j > K PROVE j - K \in 1 .. L /\ u[j] = t[j - K]
    OBVIOUS
  <2>1. j - K \in 1 .. L /\ K + (j - K) = j
    BY <1>3
  <2>2. u[K + (j - K)] = t[j - K]
    BY <1>2, <2>1
  <2>. QED
    BY <2>1, <2>2
<1>7. ASSUME NEW i \in 1 .. K + L, NEW j \in 1 .. K + L, i < j PROVE u[i] < u[j]
  <2>1. CASE j <= K
    <3>1. i \in 1 .. K /\ j \in 1 .. K
      BY <1>3, <1>7, <2>1
    <3>. QED
      BY <1>2, <1>4, <1>7, <3>1
  <2>2. CASE i <= K /\ j > K
    <3>1. i \in 1 .. K /\ u[i] = s[i] /\ j - K \in 1 .. L /\ u[j] = t[j - K]
      BY <1>2, <1>3, <1>6, <2>2
    <3>. QED
      BY <1>5, <3>1
  <2>3. CASE i > K
    <3>1. i - K \in 1 .. L /\ j - K \in 1 .. L /\ i - K < j - K /\ u[i] = t[i - K] /\ u[j] = t[j - K]
      BY <1>3, <1>6, <1>7, <2>3
    <3>. QED
      BY <1>4, <3>1
  <2>. QED
    BY <1>3, <1>7, <2>1, <2>2, <2>3
<1>. QED
  BY <1>2, <1>7 DEF Increasing, u

\* Two nodes as one, once the label between them is gone.
Joined(a, b, M, N, d, l, left, x) ==
    LET m == Merge(a, b)
    IN  /\ Spells(m, M \cup N, d, l, left)
        /\ l # 0 => /\ ToSet(m.kids) = ToSet(a.kids) \cup {c \in ToSet(b.kids) : c.left # x}
                    /\ b.kids[1] \in ToSet(b.kids) /\ b.kids[1].left = x
                    /\ Len(a.keys) + 1 \in 1 .. Len(m.kids)
                    /\ m.kids[Len(a.keys) + 1] \in ToSet(a.kids)
                    /\ Before(m.kids[Len(a.keys) + 1], {left} \cup M, x)

LEMMA SpellsMerge ==
  ASSUME NEW a, NEW b, NEW M, NEW N, NEW d, NEW l, NEW left, NEW x \in Nat,
         Spells(a, M, d, l, left), Spells(b, N, d, l, x), left \in Nat, left < x,
         \A k \in M : left < k /\ k < x, \A k \in N : x < k
  PROVE  Joined(a, b, M, N, d, l, left, x)
<1> DEFINE K == Len(a.keys)  L == Len(b.keys)  p == K + 1  q == L + 1
           keys == a.keys \o b.keys  vals == a.vals \o b.vals  tail == SubSeq(b.kids, 2, q)
           kids == a.kids \o tail  MN == M \cup N  m == Merge(a, b)
<1>1. /\ a.keys \in Seq(Labels) /\ a.vals \in Seq(Values) /\ a.kids \in Seq(Ids) /\ a.keys \in Seq(Nat)
      /\ K \in Nat /\ Len(a.vals) = K /\ Increasing(a.keys) /\ ToSet(a.keys) = M
      /\ l # 0 => Len(a.kids) = K + 1
      /\ l = 0 => a.kids = << >>
  BY SpellsFacts
<1>2. /\ b.keys \in Seq(Labels) /\ b.vals \in Seq(Values) /\ b.kids \in Seq(Ids) /\ b.keys \in Seq(Nat)
      /\ L \in Nat /\ Len(b.vals) = L /\ Increasing(b.keys) /\ ToSet(b.keys) = N
      /\ l # 0 => Len(b.kids) = L + 1
      /\ l = 0 => b.kids = << >>
  BY SpellsFacts
<1>3. /\ \A j \in 1 .. K : a.vals[j] = d[a.keys[j]]
      /\ \A j \in 1 .. L : b.vals[j] = d[b.keys[j]]
  BY SpellsFacts
<1>4. l # 0 => /\ \A j \in 1 .. K + 1 : IsAt(a.kids[j], l - 1, IF j = 1 THEN left ELSE a.keys[j - 1])
               /\ \A j \in 1 .. L + 1 : IsAt(b.kids[j], l - 1, IF j = 1 THEN x ELSE b.keys[j - 1])
  BY SpellsFacts
<1>5. M \subseteq Nat /\ N \subseteq Nat
  BY SpellsFacts
<1>6. /\ keys \in Seq(Labels) /\ Len(keys) = K + L
      /\ \A j \in 1 .. K : keys[j] = a.keys[j]
      /\ \A j \in 1 .. L : keys[K + j] = b.keys[j]
  <2> DEFINE s == a.keys  t == b.keys
  <2>1. s \in Seq(Labels) /\ t \in Seq(Labels)
    BY <1>1, <1>2
  <2> HIDE DEF s, t
  <2>2. /\ s \o t \in Seq(Labels) /\ Len(s \o t) = Len(s) + Len(t)
        /\ \A j \in 1 .. Len(s) : (s \o t)[j] = s[j]
        /\ \A j \in 1 .. Len(t) : (s \o t)[Len(s) + j] = t[j]
    BY <2>1, JoinFacts
  <2>. QED
    BY <2>2 DEF s, t
<1>7. Increasing(keys) /\ ToSet(keys) = MN
  <2> DEFINE s == a.keys  t == b.keys
  <2>1. \A i \in M, j \in N : i < j
    BY <1>5
  <2>2. s \in Seq(Nat) /\ t \in Seq(Nat) /\ Increasing(s) /\ Increasing(t) /\ ToSet(s) = M /\ ToSet(t) = N
    BY <1>1, <1>2
  <2> HIDE DEF s, t
  <2>3. Increasing(s \o t) /\ ToSet(s \o t) = ToSet(s) \cup ToSet(t)
    BY <2>1, <2>2, JoinKeys
  <2>. QED
    BY <2>2, <2>3 DEF s, t
<1>8. /\ vals \in Seq(Values) /\ Len(vals) = K + L
      /\ \A j \in 1 .. K : vals[j] = a.vals[j]
      /\ \A j \in 1 .. L : vals[K + j] = b.vals[j]
  <2> DEFINE s == a.vals  t == b.vals
  <2>1. s \in Seq(Values) /\ t \in Seq(Values) /\ Len(s) = K /\ Len(t) = L
    BY <1>1, <1>2
  <2> HIDE DEF s, t, K, L
  <2>2. /\ s \o t \in Seq(Values) /\ Len(s \o t) = Len(s) + Len(t)
        /\ \A j \in 1 .. Len(s) : (s \o t)[j] = s[j]
        /\ \A j \in 1 .. Len(t) : (s \o t)[Len(s) + j] = t[j]
    BY <2>1, JoinValues
  <2>. QED
    BY <2>1, <2>2 DEF s, t
<1> HIDE DEF K, L, p, q, MN
<1>9. l # 0 => tail \in Seq(Ids) /\ Len(tail) = L /\ (\A j \in 1 .. L : tail[j] = b.kids[j + 1]) /\ ToSet(tail) = {b.kids[j] : j \in 2 .. q}
  <2> SUFFICES ASSUME l # 0
               PROVE  tail \in Seq(Ids) /\ Len(tail) = L /\ (\A j \in 1 .. L : tail[j] = b.kids[j + 1]) /\ ToSet(tail) = {b.kids[j] : j \in 2 .. q}
    OBVIOUS
  <2> DEFINE s == b.kids
  <2>1. s \in Seq(Ids) /\ 2 \in 1 .. Len(s) + 1 /\ q \in 2 - 1 .. Len(s) /\ q - 2 + 1 = L
    BY <1>2 DEF q
  <2> HIDE DEF s
  <2>2. /\ SubSeq(s, 2, q) \in Seq(Ids) /\ Len(SubSeq(s, 2, q)) = q - 2 + 1
        /\ \A j \in 1 .. q - 2 + 1 : SubSeq(s, 2, q)[j] = s[2 + j - 1]
    BY <2>1, CutFacts
  <2>3. tail = SubSeq(s, 2, q)
    BY DEF s
  <2>4. ToSet(SubSeq(s, 2, q)) = {s[j] : j \in 2 .. q}
    BY <2>1, CutSet
  <2> HIDE DEF tail
  <2>5. ASSUME NEW j \in 1 .. L PROVE tail[j] = s[j + 1]
    <3>1. tail[j] = s[2 + j - 1] /\ 2 + j - 1 = j + 1
      BY <2>1, <2>2, <2>3
    <3>. QED
      BY <3>1
  <2>. QED
    BY <2>1, <2>2, <2>3, <2>4, <2>5 DEF s
<1> HIDE DEF tail
<1>10. l # 0 => /\ kids \in Seq(Ids) /\ Len(kids) = p + L /\ (\A j \in 1 .. p : kids[j] = a.kids[j])
                /\ \A j \in 1 .. L : kids[p + j] = b.kids[j + 1]
                /\ ToSet(kids) = ToSet(a.kids) \cup ToSet(tail)
  <2> SUFFICES ASSUME l # 0
               PROVE  /\ kids \in Seq(Ids) /\ Len(kids) = p + L /\ (\A j \in 1 .. p : kids[j] = a.kids[j])
                      /\ \A j \in 1 .. L : kids[p + j] = b.kids[j + 1]
                      /\ ToSet(kids) = ToSet(a.kids) \cup ToSet(tail)
    OBVIOUS
  <2> DEFINE s == a.kids
  <2>1. s \in Seq(Ids) /\ tail \in Seq(Ids) /\ Len(s) = p /\ Len(tail) = L
    BY <1>1, <1>9 DEF p
  <2>0. kids = s \o tail
    OBVIOUS
  <2> HIDE DEF s, kids
  <2>2. /\ s \o tail \in Seq(Ids) /\ Len(s \o tail) = Len(s) + Len(tail)
        /\ \A j \in 1 .. Len(s) : (s \o tail)[j] = s[j]
        /\ \A j \in 1 .. Len(tail) : (s \o tail)[Len(s) + j] = tail[j]
        /\ ToSet(s \o tail) = ToSet(s) \cup ToSet(tail)
    BY <2>1, JoinFacts, SMTT(30)
  <2>. QED
    BY <1>9, <2>0, <2>1, <2>2 DEF s
<1> HIDE DEF keys, vals, kids
<1>11. \A j \in 1 .. K + L : vals[j] = d[keys[j]]
  <2> SUFFICES ASSUME NEW j \in 1 .. K + L PROVE vals[j] = d[keys[j]]
    OBVIOUS
  <2>1. CASE j \in 1 .. K
    BY <1>3, <1>6, <1>8, <2>1
  <2>2. CASE j \notin 1 .. K
    <3>1. j - K \in 1 .. L /\ K + (j - K) = j
      BY <1>1, <1>2, <2>2
    <3>2. keys[K + (j - K)] = b.keys[j - K] /\ vals[K + (j - K)] = b.vals[j - K]
      BY <1>6, <1>8, <3>1
    <3>. QED
      BY <1>3, <3>1, <3>2
  <2>. QED
    BY <2>1, <2>2
<1>12. l # 0 => \A j \in 1 .. p + L : IsAt(kids[j], l - 1, IF j = 1 THEN left ELSE keys[j - 1])
  <2> SUFFICES ASSUME l # 0, NEW j \in 1 .. p + L PROVE IsAt(kids[j], l - 1, IF j = 1 THEN left ELSE keys[j - 1])
    OBVIOUS
  <2>0. p = K + 1
    BY DEF p
  <2>1. CASE j \in 1 .. p
    <3>1. kids[j] = a.kids[j] /\ j \in 1 .. K + 1
      BY <1>10, <2>0, <2>1
    <3>2. j # 1 => j - 1 \in 1 .. K
      BY <1>1, <3>1
    <3>3. j # 1 => keys[j - 1] = a.keys[j - 1]
      BY <1>6, <3>2
    <3>. QED
      BY <1>4, <3>1, <3>3
  <2>2. CASE j \notin 1 .. p
    <3>1. /\ j - p \in 1 .. L /\ p + (j - p) = j /\ (j - p) + 1 \in 1 .. L + 1 /\ (j - p) + 1 # 1
          /\ ((j - p) + 1) - 1 = j - p /\ K + (j - p) = j - 1 /\ j # 1
      BY <1>1, <1>2, <2>0, <2>2
    <3>2. kids[p + (j - p)] = b.kids[(j - p) + 1] /\ keys[K + (j - p)] = b.keys[j - p]
      BY <1>6, <1>10, <3>1
    <3>3. IsAt(b.kids[(j - p) + 1], l - 1, b.keys[((j - p) + 1) - 1])
      BY <1>4, <3>1
    <3>. QED
      BY <3>1, <3>2, <3>3
  <2>. QED
    BY <2>1, <2>2
<1>13. m.keys = keys /\ m.vals = vals /\ (l # 0 => m.kids = kids) /\ (l = 0 => m.kids = << >>) /\ m \in NodeRecs
  <2>1. m = [keys |-> keys, vals |-> vals, kids |-> a.kids \o Part(b.kids, 2, Len(b.kids))]
    BY DEF Merge, Node, keys, vals
  <2>2. CASE l = 0
    <3>1. a.kids \o Part(b.kids, 2, Len(b.kids)) = << >> /\ << >> \in Seq(Ids)
      BY <1>1, <1>2, <2>2 DEF Part
    <3>2. m = [keys |-> keys, vals |-> vals, kids |-> << >>]
      BY <2>1, <3>1
    <3>3. [keys |-> keys, vals |-> vals, kids |-> << >>] \in NodeRecs
      BY <1>6, <1>8, <3>1 DEF NodeRecs
    <3>4. m.keys = keys /\ m.vals = vals /\ m.kids = << >>
      BY <3>2
    <3>. QED
      BY <2>2, <3>2, <3>3, <3>4
  <2>3. CASE l # 0
    <3>0. b.kids # << >>
      <4>1. Len(b.kids) # 0
        BY <1>2, <2>3
      <4>. QED
        BY <1>2, <4>1, EmptySeq
    <3>1. Part(b.kids, 2, Len(b.kids)) = tail
      BY <1>2, <2>3, <3>0 DEF Part, tail, q
    <3>2. m = [keys |-> keys, vals |-> vals, kids |-> kids]
      BY <2>1, <3>1 DEF kids
    <3>3. [keys |-> keys, vals |-> vals, kids |-> kids] \in NodeRecs
      BY <1>6, <1>8, <1>10, <2>3 DEF NodeRecs
    <3>4. m.keys = keys /\ m.vals = vals /\ m.kids = kids
      BY <3>2
    <3>. QED
      BY <2>3, <3>2, <3>3, <3>4
  <2>. QED
    BY <2>2, <2>3
<1> HIDE DEF m
<1>14. Spells(m, MN, d, l, left)
  <2>1. Len(m.vals) = Len(m.keys) /\ Len(m.keys) = K + L
    BY <1>6, <1>8, <1>13
  <2>2. \A i \in 1 .. Len(m.keys) : m.vals[i] = d[m.keys[i]]
    BY <1>11, <1>13, <2>1
  <2>3. l # 0 => Len(m.kids) = Len(m.keys) + 1 /\ Len(m.kids) = p + L
    <3>1. p + L = (K + L) + 1
      BY <1>1, <1>2 DEF p
    <3>. QED
      BY <1>10, <1>13, <2>1, <3>1
  <2>4. l # 0 => \A i \in 1 .. Len(m.kids) : IsAt(m.kids[i], l - 1, IF i = 1 THEN left ELSE m.keys[i - 1])
    BY <1>12, <1>13, <2>3
  <2>. QED
    BY <1>7, <1>13, <2>1, <2>2, <2>3, <2>4 DEF Spells
<1>15. l # 0 => /\ ToSet(m.kids) = ToSet(a.kids) \cup {c \in ToSet(b.kids) : c.left # x}
                /\ b.kids[1] \in ToSet(b.kids) /\ b.kids[1].left = x
                /\ p \in 1 .. Len(m.kids)
                /\ m.kids[p] \in ToSet(a.kids)
                /\ Before(m.kids[p], {left} \cup M, x)
  <2> SUFFICES ASSUME l # 0
               PROVE  /\ ToSet(m.kids) = ToSet(a.kids) \cup {c \in ToSet(b.kids) : c.left # x}
                      /\ b.kids[1] \in ToSet(b.kids) /\ b.kids[1].left = x
                      /\ p \in 1 .. Len(m.kids)
                      /\ m.kids[p] \in ToSet(a.kids)
                      /\ Before(m.kids[p], {left} \cup M, x)
    OBVIOUS
  <2>1. DOMAIN a.kids = 1 .. p /\ DOMAIN b.kids = 1 .. q /\ p \in 1 .. p /\ 1 \in 1 .. q /\ p \in 1 .. p + L
    BY <1>1, <1>2, LenProperties DEF p, q
  <2>2. b.kids[1].left = x
    BY <1>2, <1>4, <2>1 DEF IsAt, q
  <2>3. \A i, j \in 1 .. q : b.kids[i].left = b.kids[j].left => i = j
    <3>1. x \in Nat /\ \A k \in N : x < k
      OBVIOUS
    <3>2. \A i, j \in 1 .. Len(b.keys) + 1 : b.kids[i].left = b.kids[j].left => i = j
      BY <3>1, SpellsKids
    <3>. QED
      BY <3>2 DEF q, L
  <2>4. {b.kids[j] : j \in 2 .. q} = {c \in ToSet(b.kids) : c.left # x}
    <3>1. \A j \in 1 .. q : b.kids[j].left # x <=> j # 1
      BY <2>1, <2>2, <2>3
    <3>2. \A j : j \in 2 .. q <=> j \in 1 .. q /\ j # 1
      BY <1>2 DEF q
    <3>. QED
      BY <2>1, <3>1, <3>2 DEF ToSet
  <2>5. kids[p] = a.kids[p]
    BY <1>10, <2>1
  <2>6. BisectLeft(a, x) = K
    <3>1. BisectLeft(a, x) \in 0 .. K /\ \A i \in 1 .. K : a.keys[i] < x <=> i <= BisectLeft(a, x)
      BY SpellsSearch DEF K
    <3>2. K # 0 => K \in 1 .. K /\ a.keys[K] < x
      <4>1. \A i \in 1 .. K : a.keys[i] < x
        <5>1. \A i \in 1 .. K : a.keys[i] \in M
          BY SpellsFacts DEF K
        <5>. QED
          BY <5>1
      <4>. QED
        BY <1>1, <4>1, SMTT(30)
    <3>. QED
      BY <1>1, <3>1, <3>2
  <2>7. Before(a.kids[p], {left} \cup M, x)
    <3>1. \A k \in M : left < k
      OBVIOUS
    <3>. QED
      BY <2>6, <3>1, SpellsBefore DEF p
  <2>8. ToSet(m.kids) = ToSet(a.kids) \cup {c \in ToSet(b.kids) : c.left # x}
    BY <1>9, <1>10, <1>13, <2>4
  <2>9. m.kids[p] = a.kids[p] /\ a.kids[p] \in ToSet(a.kids) /\ b.kids[1] \in ToSet(b.kids)
    BY <1>13, <2>1, <2>5 DEF ToSet
  <2>10. p \in 1 .. Len(m.kids)
    BY <1>10, <1>13, <2>1
  <2>. QED
    BY <2>2, <2>7, <2>8, <2>9, <2>10
<1>. QED
  BY <1>14, <1>15 DEF m, MN, p, K, Joined

-----------------------------------------------------------------------------
\* The content of every place of the tree: what a map d, of labels with the
\* rises r, has at level l to the right of left, at height h.
Rank(r, k, h) == IF r[k] <= h THEN r[k] ELSE h
Tops(r, d, h, l) == {0} \cup {k \in DOMAIN d : Rank(r, k, h) > l}
Held(r, d, h, l, left) ==
    {k \in DOMAIN d : k > left /\ Rank(r, k, h) = l /\ \A j \in Tops(r, d, h, l) : j > left => k < j}

\* Levels from c up are those of the map e already, those below still of d.
Shape(r, e, d, h, c) ==
    LET m(l) == IF l >= c THEN e ELSE d
    IN  [p \in {q \in (0 .. h) \X ({0} \cup Labels) : q[2] \in Tops(r, m(q[1]), h, q[1])} |->
            [k \in Held(r, m(p[1]), h, p[1], p[2]) |-> m(p[1])[k]]]

\* A family of contents that makes a tree.
Shaped(W, h) ==
    /\ \A p \in DOMAIN W : p = <<p[1], p[2]>> /\ p[1] \in 0 .. h /\ p[2] \in Nat
    /\ \A p \in DOMAIN W : \A k \in DOMAIN W[p] : k \in Nat /\ p[2] < k
    /\ \A p, q \in DOMAIN W : p[1] = q[1] => /\ q[2] \notin DOMAIN W[p]
                                             /\ p # q => DOMAIN W[p] \cap DOMAIN W[q] = {}

\* The nodes N, the root among them under NoId, are the tree of W, but for the
\* children in gap, which are named and not there.
Spot(id, h) == IF id = NoId THEN <<h, 0>> ELSE <<id.level, id.left>>
Fits(n, W, p) == Spells(n, DOMAIN W[p], W[p], p[1], p[2])

Tree(N, h, W, gap) ==
    /\ NoId \in DOMAIN N /\ \A id \in DOMAIN N : id # NoId => id \in Ids /\ id.level < h
    /\ \A id \in DOMAIN N : Spot(id, h) \in DOMAIN W /\ Fits(N[id], W, Spot(id, h))
    /\ \A p \in DOMAIN W : \E id \in DOMAIN N : Spot(id, h) = p
    /\ \A id, other \in DOMAIN N : Spot(id, h) = Spot(other, h) => id = other
    /\ \A id \in DOMAIN N : ToSet(N[id].kids) \subseteq DOMAIN N \cup gap

Base(o, r) == With(o.blobs, NoId, r)
Pred(k, S, x) == k \in S /\ k < x /\ \A j \in S : j < x => j <= k

\* The state between calls, on a descent, in a split and in a merge.
Lab == call.label
Twos(n) == [i \in 1 .. n |-> 2]
IsStore(o) == o = [blobs |-> o.blobs, cache |-> o.cache, reads |-> o.reads, rounds |-> o.rounds]
Whole == Shape(rise, dict, dict, height, 0)
Sized(more) == size \in Int /\ size + Cardinality(InitialLabels) = Cardinality(DOMAIN dict) + more

\* Between calls: nothing is in the cache, and the tree is that of the map.
Resting == /\ oram.cache = NoBlobs /\ oram.reads = 0
           /\ Tree(Base(oram, root), height, Whole, {})
           /\ call = Null /\ node = Leaf /\ ref = NoId /\ level = 0 /\ ind = 0 /\ sib = Leaf /\ sibRef = NoId
           /\ Sized(0)

\* The current node is the one of its level where the label belongs, and every
\* level above it has made its two accesses.
OnPath ==
    /\ Spot(ref, height)[1] = level
    /\ Pred(Spot(ref, height)[2], Tops(rise, dict, height, level), Lab)
    /\ IF ref = NoId THEN oram.cache = NoBlobs /\ root = node /\ oram.reads = 0 /\ oram.rounds = << >>
       ELSE oram.reads = 2 /\ oram.rounds = Twos(height - level - 1)

\* On the way down: the tree is whole, with the current node in hand for its
\* blob, and the label is not above it.
Walking(op) ==
    /\ call \in [op : {op}, label : Labels, value : Values \cup {Null}]
    /\ Tree(With(Base(oram, root), ref, node), height, Whole, {})
    /\ OnPath
    /\ ref # NoId => oram.cache = With(NoBlobs, ref, node)
    /\ Lab \in DOMAIN dict => Rank(rise, Lab, height) <= level
    /\ ind = 0 /\ sib = Leaf /\ sibRef = NoId
    /\ Sized(0)

\* The same in __setitem__, until the level that the label rises to.
Placing == /\ Walking("set") /\ call.value \in Values /\ Rank(rise, Lab, height) <= level

Kid(n) == n.kids[ind + 1]
Onward(n) == level # 0 => /\ ind + 1 \in 1 .. Len(n.kids)
                          /\ Pred(Kid(n).left, Tops(rise, dict, height, level - 1), Lab)
IsNodeRec(n) == n \in NodeRecs /\ Increasing(n.keys) /\ Len(n.vals) = Len(n.keys)

\* The nodes as they will be when the current one is saved: with the new
\* label's right half as a child, which comes with the next iteration.
Step == Place(level - 1, Lab)
SplitNode == IF sibRef = NoId /\ level # 0 THEN [node EXCEPT !.kids = InsertAt(@, ind + 2, Step)] ELSE node
SplitSib == IF level # 0 THEN [sib EXCEPT !.kids[1] = Step] ELSE sib
SplitNodes == LET N == With(Base(oram, root), ref, SplitNode)
              IN  IF sibRef = NoId THEN N ELSE With(N, sibRef, SplitSib)

\* Below the level of a new label: the levels above have the map with it, those
\* below the map without it, and the node to the right of it is still to come.
Splitting ==
    /\ call \in [op : {"set"}, label : Labels, value : Values]
    /\ Lab \notin DOMAIN dict
    /\ Tree(SplitNodes, height, Shape(rise, With(dict, Lab, call.value), dict, height, level),
            IF level = 0 THEN {} ELSE {Step})
    /\ OnPath /\ DOMAIN oram.cache \subseteq {ref, sibRef}
    /\ IF sibRef = NoId THEN level = Rank(rise, Lab, height)
       ELSE level < Rank(rise, Lab, height) /\ sibRef = Place(level, Lab) /\ ref # NoId
    /\ Onward(SplitNode) /\ IsNodeRec(node) /\ IsNodeRec(sib) /\ ind \in Nat
    /\ Sized(1)

\* The current node without the child that is going to be merged (Orphan).
MergeNode == IF sibRef = NoId /\ level # 0 THEN [node EXCEPT !.kids = RemoveAt(@, ind + 2)] ELSE node
Orphan == IF sibRef = NoId THEN node.kids[ind + 2] ELSE sib.kids[1]

\* Below the level of a deleted label: the levels above have the map without
\* it, those below the map with it, and the orphan is at rest but nobody's child.
Merging ==
    /\ call \in [op : {"del"}, label : Labels, value : {Null}]
    /\ Lab \in DOMAIN dict
    /\ Tree(With(Base(oram, root), ref, MergeNode), height, Shape(rise, Without(dict, Lab), dict, height, level), {})
    /\ OnPath /\ DOMAIN oram.cache \subseteq {ref, sibRef}
    /\ IF sibRef = NoId THEN level = Rank(rise, Lab, height)
       ELSE level < Rank(rise, Lab, height) /\ ref # NoId /\ sibRef \in Ids /\ sibRef # ref
    /\ level # 0 => /\ Orphan \in DOMAIN oram.blobs /\ IsAt(Orphan, level - 1, Lab)
    /\ Onward(MergeNode) /\ IsNodeRec(node) /\ IsNodeRec(sib) /\ ind \in Nat
    /\ Sized(-1)

IsDict(d) == /\ DOMAIN d \subseteq Labels /\ IsFiniteSet(DOMAIN d) /\ \A k \in DOMAIN d : d[k] \in Values
             /\ d = [k \in DOMAIN d |-> d[k]]

\* Types, and that the nodes in hand and the blobs at rest are different ones.
Typed ==
    /\ rise \in [Labels -> Nat] /\ height \in 0 .. MaxHeight /\ level \in 0 .. height /\ IsStore(oram)
    /\ IsDict(dict)
    /\ IsNodeRec(root) /\ ref \in Ids \cup {NoId} /\ sibRef \in Ids \cup {NoId}
    /\ DOMAIN oram.blobs \cap {NoId, ref, sibRef} = {} /\ DOMAIN oram.cache \subseteq {ref, sibRef} \ {NoId}

\* The inductive invariant: a case for every place in a call.
IInv ==
    /\ Typed
    /\ \/ pc = "idle" /\ Resting
       \/ pc = "lookup" /\ Walking("get")
       \/ pc = "place" /\ Placing
       \/ pc = "split" /\ Splitting
       \/ pc = "seek" /\ Walking("del") /\ (Lab \in DOMAIN dict \/ height = 0) /\ call.value = Null
       \/ pc = "merge" /\ Merging

-----------------------------------------------------------------------------
\* What steps do to a tree.
LEMMA NoIdIsNone == NoId \notin Ids /\ \A id \in Ids : Renamed(id) \in Ids /\ Renamed(id) # id
BY DEF NoId, Ids, Renamed

LEMMA SpotOf ==
  ASSUME NEW N, NEW h \in Nat, NEW W, NEW gap, Tree(N, h, W, gap), Shaped(W, h), NEW id \in DOMAIN N
  PROVE  LET p == Spot(id, h)
         IN  /\ p \in DOMAIN W /\ p = <<p[1], p[2]>> /\ p[1] \in 0 .. h /\ p[2] \in Nat
             /\ Spells(N[id], DOMAIN W[p], W[p], p[1], p[2])
             /\ \A k \in DOMAIN W[p] : k \in Nat /\ p[2] < k
             /\ id # NoId => id \in Ids /\ p[1] = id.level /\ p[2] = id.left /\ p[1] < h
             /\ id = NoId => p[1] = h /\ p[2] = 0
<1>1. Spot(id, h) \in DOMAIN W /\ Fits(N[id], W, Spot(id, h)) /\ (id # NoId => id \in Ids /\ id.level < h)
  BY DEF Tree
<1> DEFINE p == Spot(id, h)
<1>2. /\ id # NoId => p[1] = id.level /\ p[2] = id.left
      /\ id = NoId => p[1] = h /\ p[2] = 0
  BY DEF Spot
<1>3. p = <<p[1], p[2]>> /\ p[1] \in 0 .. h /\ p[2] \in Nat /\ \A k \in DOMAIN W[p] : k \in Nat /\ p[2] < k
  BY <1>1 DEF Shaped
<1>4. Spells(N[id], DOMAIN W[p], W[p], p[1], p[2])
  BY <1>1 DEF Fits
<1> HIDE DEF p
<1>. QED
  BY <1>1, <1>2, <1>3, <1>4 DEF p

LEMMA KidOf ==
  ASSUME NEW N, NEW h \in Nat, NEW W, NEW gap, Tree(N, h, W, gap), Shaped(W, h),
         NEW e \in DOMAIN N, NEW c \in ToSet(N[e].kids)
  PROVE  /\ c \in Ids /\ c # NoId /\ Spot(e, h)[1] # 0 /\ c.level = Spot(e, h)[1] - 1 /\ c.level < h
         /\ c.left \in {Spot(e, h)[2]} \cup DOMAIN W[Spot(e, h)]
         /\ Spot(c, h) = <<c.level, c.left>>
<1> DEFINE p == Spot(e, h)
<1>1. /\ p[1] \in 0 .. h /\ p[2] \in Nat
      /\ Spells(N[e], DOMAIN W[p], W[p], p[1], p[2])
      /\ \A k \in DOMAIN W[p] : k \in Nat /\ p[2] < k
  BY SpotOf
<1> HIDE DEF p
<1>2. p[1] # 0
  <2> SUFFICES ASSUME p[1] = 0 PROVE FALSE
    OBVIOUS
  <2>1. N[e].kids = << >>
    BY <1>1, SpellsFacts
  <2>. QED
    BY <2>1 DEF ToSet
<1>3. c \in Ids /\ c.level = p[1] - 1 /\ c.left \in {p[2]} \cup DOMAIN W[p]
  BY <1>1, <1>2, SpellsKids
<1>4. c # NoId
  BY <1>3, NoIdIsNone
<1>5. c.level < h
  BY <1>1, <1>3
<1>. QED
  BY <1>2, <1>3, <1>4, <1>5 DEF p, Spot

\* Only one node has a given child, or could have it.
LEMMA OneParent ==
  ASSUME NEW N, NEW h \in Nat, NEW W, NEW gap, Tree(N, h, W, gap), Shaped(W, h),
         NEW e \in DOMAIN N, NEW f \in DOMAIN N, NEW c \in ToSet(N[e].kids), NEW b \in ToSet(N[f].kids),
         c.level = b.level, c.left = b.left
  PROVE  e = f /\ b = c
<1> DEFINE p == Spot(e, h)  q == Spot(f, h)
<1>1. /\ p \in DOMAIN W /\ p = <<p[1], p[2]>> /\ p[1] \in 0 .. h /\ p[2] \in Nat
      /\ q \in DOMAIN W /\ q = <<q[1], q[2]>> /\ q[1] \in 0 .. h /\ q[2] \in Nat
  BY SpotOf
<1>2. /\ c.level = p[1] - 1 /\ c.left \in {p[2]} \cup DOMAIN W[p]
      /\ b.level = q[1] - 1 /\ b.left \in {q[2]} \cup DOMAIN W[q] /\ p[1] # 0
  BY KidOf
<1>5. p = q => e = f
  BY DEF Tree
<1>7. Spells(N[e], DOMAIN W[p], W[p], p[1], p[2]) /\ \A k \in DOMAIN W[p] : p[2] < k
  BY SpotOf
<1> HIDE DEF p, q
<1>3. p[1] = q[1]
  <2>1. p[1] - 1 = q[1] - 1
    BY <1>2
  <2>2. p[1] \in Int /\ q[1] \in Int
    BY <1>1
  <2>. QED
    BY <2>1, <2>2
<1>4. p = q
  <2>1. q[2] \notin DOMAIN W[p] /\ p[2] \notin DOMAIN W[q] /\ (p # q => DOMAIN W[p] \cap DOMAIN W[q] = {})
    BY <1>1, <1>3 DEF Shaped
  <2>2. p[2] = q[2] => p = q
    BY <1>1, <1>3
  <2>. QED
    BY <1>2, <2>1, <2>2
<1>6. e = f
  BY <1>4, <1>5
<1>8. b \in ToSet(N[e].kids)
  BY <1>6
<1>9. \A a, g \in ToSet(N[e].kids) : a.left = g.left => a = g
  BY <1>1, <1>2, <1>7, SpellsKids
<1>. QED
  BY <1>6, <1>8, <1>9

LEMMA TreeReplace ==
  ASSUME NEW N, NEW h \in Nat, NEW W, NEW gap, Tree(N, h, W, gap), NEW id \in DOMAIN N, NEW n, NEW V, NEW hole,
         DOMAIN V = DOMAIN W, \A p \in DOMAIN W : p # Spot(id, h) => V[p] = W[p],
         Fits(n, V, Spot(id, h)), gap \subseteq hole, ToSet(n.kids) \subseteq DOMAIN N \cup hole
  PROVE  Tree(With(N, id, n), h, V, hole)
<1> DEFINE O == With(N, id, n)
<1>1. DOMAIN O = DOMAIN N /\ \A e \in DOMAIN N : O[e] = IF e = id THEN n ELSE N[e]
  BY DEF With
<1> HIDE DEF O
<1>2. /\ NoId \in DOMAIN N /\ \A e \in DOMAIN N : e # NoId => e \in Ids /\ e.level < h
      /\ \A e \in DOMAIN N : Spot(e, h) \in DOMAIN W /\ Fits(N[e], W, Spot(e, h))
      /\ \A p \in DOMAIN W : \E e \in DOMAIN N : Spot(e, h) = p
      /\ \A e, other \in DOMAIN N : Spot(e, h) = Spot(other, h) => e = other
      /\ \A e \in DOMAIN N : ToSet(N[e].kids) \subseteq DOMAIN N \cup gap
  BY DEF Tree
<1>3. ASSUME NEW e \in DOMAIN N PROVE Fits(O[e], V, Spot(e, h))
  <2>1. CASE e = id
    BY <1>1, <2>1
  <2>2. CASE e # id
    <3>1. Spot(e, h) # Spot(id, h)
      BY <1>2, <2>2
    <3>2. V[Spot(e, h)] = W[Spot(e, h)] /\ Fits(N[e], W, Spot(e, h))
      BY <1>2, <3>1
    <3>. QED
      BY <1>1, <2>2, <3>2 DEF Fits
  <2>. QED
    BY <2>1, <2>2
<1>4. ASSUME NEW e \in DOMAIN N PROVE ToSet(O[e].kids) \subseteq DOMAIN N \cup hole
  BY <1>1, <1>2
<1>. QED
  BY <1>1, <1>2, <1>3, <1>4 DEF Tree, O

Adds(W, V, p) == p \notin DOMAIN W /\ DOMAIN V = DOMAIN W \cup {p} /\ \A q \in DOMAIN W : V[q] = W[q]

LEMMA TreeAdd ==
  ASSUME NEW N, NEW h \in Nat, NEW W, NEW gap, Tree(N, h, W, gap), NEW id \in Ids, NEW n, NEW V, NEW hole,
         id.level < h, Adds(W, V, Spot(id, h)),
         Fits(n, V, Spot(id, h)), gap \subseteq hole \cup {id}, ToSet(n.kids) \subseteq DOMAIN N \cup hole
  PROVE  Tree(With(N, id, n), h, V, hole) /\ id \notin DOMAIN N
<1> USE DEF Adds
<1> DEFINE O == With(N, id, n)
<1>2. /\ NoId \in DOMAIN N /\ \A e \in DOMAIN N : e # NoId => e \in Ids /\ e.level < h
      /\ \A e \in DOMAIN N : Spot(e, h) \in DOMAIN W /\ Fits(N[e], W, Spot(e, h))
      /\ \A p \in DOMAIN W : \E e \in DOMAIN N : Spot(e, h) = p
      /\ \A e, other \in DOMAIN N : Spot(e, h) = Spot(other, h) => e = other
      /\ \A e \in DOMAIN N : ToSet(N[e].kids) \subseteq DOMAIN N \cup gap
  BY DEF Tree
<1>0. id \notin DOMAIN N
  BY <1>2
<1>1. DOMAIN O = DOMAIN N \cup {id} /\ O[id] = n /\ \A e \in DOMAIN N : O[e] = N[e]
  BY <1>0 DEF With
<1> HIDE DEF O
<1>3. ASSUME NEW e \in DOMAIN O PROVE Spot(e, h) \in DOMAIN V /\ Fits(O[e], V, Spot(e, h))
  <2>1. CASE e = id
    BY <1>1, <2>1
  <2>2. CASE e \in DOMAIN N
    <3>1. V[Spot(e, h)] = W[Spot(e, h)] /\ Fits(N[e], W, Spot(e, h)) /\ Spot(e, h) \in DOMAIN V
      BY <1>2, <2>2
    <3>. QED
      BY <1>1, <2>2, <3>1 DEF Fits
  <2>. QED
    BY <1>1, <2>1, <2>2
<1>4. ASSUME NEW e \in DOMAIN O PROVE ToSet(O[e].kids) \subseteq DOMAIN O \cup hole
  <2>1. CASE e = id
    BY <1>1, <2>1
  <2>2. CASE e \in DOMAIN N
    BY <1>1, <1>2, <2>2
  <2>. QED
    BY <1>1, <2>1, <2>2
<1>5. \A e \in DOMAIN O : e # NoId => e \in Ids /\ e.level < h
  BY <1>1, <1>2
<1>6. \A p \in DOMAIN V : \E e \in DOMAIN O : Spot(e, h) = p
  BY <1>1, <1>2
<1>7. \A e, other \in DOMAIN O : Spot(e, h) = Spot(other, h) => e = other
  BY <1>1, <1>2
<1>. QED
  BY <1>0, <1>1, <1>2, <1>3, <1>4, <1>5, <1>6, <1>7 DEF Tree, O

Drops(W, V, p) == DOMAIN V = DOMAIN W \ {p} /\ \A q \in DOMAIN V : V[q] = W[q]
NobodysChild(N, id) == \A e \in DOMAIN N : id \notin ToSet(N[e].kids)

LEMMA TreeDrop ==
  ASSUME NEW N, NEW h \in Nat, NEW W, NEW gap, Tree(N, h, W, gap), NEW id \in DOMAIN N, NEW V,
         id # NoId, Drops(W, V, Spot(id, h)), NobodysChild(N, id)
  PROVE  Tree(Without(N, id), h, V, gap)
<1> USE DEF Drops, NobodysChild
<1> DEFINE O == Without(N, id)
<1>2. /\ NoId \in DOMAIN N /\ \A e \in DOMAIN N : e # NoId => e \in Ids /\ e.level < h
      /\ \A e \in DOMAIN N : Spot(e, h) \in DOMAIN W /\ Fits(N[e], W, Spot(e, h))
      /\ \A p \in DOMAIN W : \E e \in DOMAIN N : Spot(e, h) = p
      /\ \A e, other \in DOMAIN N : Spot(e, h) = Spot(other, h) => e = other
      /\ \A e \in DOMAIN N : ToSet(N[e].kids) \subseteq DOMAIN N \cup gap
  BY DEF Tree
<1>1. DOMAIN O = DOMAIN N \ {id} /\ \A e \in DOMAIN O : O[e] = N[e]
  BY DEF Without
<1> HIDE DEF O
<1>3. ASSUME NEW e \in DOMAIN O PROVE Spot(e, h) \in DOMAIN V /\ Fits(O[e], V, Spot(e, h))
  <2>1. e \in DOMAIN N /\ e # id
    BY <1>1
  <2>2. Spot(e, h) # Spot(id, h)
    BY <1>2, <2>1
  <2>3. Spot(e, h) \in DOMAIN V /\ V[Spot(e, h)] = W[Spot(e, h)] /\ Fits(N[e], W, Spot(e, h))
    BY <1>2, <2>1, <2>2
  <2>. QED
    BY <1>1, <2>3 DEF Fits
<1>4. ASSUME NEW e \in DOMAIN O PROVE ToSet(O[e].kids) \subseteq DOMAIN O \cup gap
  BY <1>1, <1>2
<1>5. \A e \in DOMAIN O : e # NoId => e \in Ids /\ e.level < h
  BY <1>1, <1>2
<1>6. \A p \in DOMAIN V : \E e \in DOMAIN O : Spot(e, h) = p
  BY <1>1, <1>2
<1>7. \A e, other \in DOMAIN O : Spot(e, h) = Spot(other, h) => e = other
  BY <1>1, <1>2
<1>. QED
  BY <1>1, <1>2, <1>3, <1>4, <1>5, <1>6, <1>7 DEF Tree, O

\* A node is fetched under a new name, which its parent gets.
Moved(N, up, i) ==
    LET c == N[up].kids[i]
    IN  With(Without(With(N, up, Rename(N[up], i)), c), Renamed(c), N[c])

TreeMoves(N, h, W, gap, up, i) ==
    LET c == N[up].kids[i]
    IN  /\ Tree(Moved(N, up, i), h, W, gap)
        /\ c \in Ids /\ c \in ToSet(N[up].kids) /\ c # up /\ Renamed(c) # up
        /\ Renamed(c) \in Ids /\ Renamed(c) \notin DOMAIN N /\ Spot(Renamed(c), h) = Spot(c, h)
        /\ Spot(c, h)[1] = Spot(up, h)[1] - 1 /\ Spot(c, h)[2] = c.left
        /\ DOMAIN Moved(N, up, i) = (DOMAIN N \ {c}) \cup {Renamed(c)}
        /\ Moved(N, up, i)[Renamed(c)] = N[c]
        /\ Moved(N, up, i)[up] = Rename(N[up], i)
        /\ \A e \in DOMAIN N \ {c, up} : Moved(N, up, i)[e] = N[e]

LEMMA TreeRename ==
  ASSUME NEW N, NEW h \in Nat, NEW W, NEW gap, Tree(N, h, W, gap), Shaped(W, h), NEW up \in DOMAIN N,
         NEW i \in 1 .. Len(N[up].kids), N[up].kids[i] \in DOMAIN N
  PROVE  TreeMoves(N, h, W, gap, up, i)
<1> DEFINE c == N[up].kids[i]  b == Renamed(c)  O == Moved(N, up, i)  p == Spot(up, h)
<1>1. /\ NoId \in DOMAIN N /\ \A e \in DOMAIN N : e # NoId => e \in Ids /\ e.level < h
      /\ \A e \in DOMAIN N : Spot(e, h) \in DOMAIN W /\ Fits(N[e], W, Spot(e, h))
      /\ \A q \in DOMAIN W : \E e \in DOMAIN N : Spot(e, h) = q
      /\ \A e, other \in DOMAIN N : Spot(e, h) = Spot(other, h) => e = other
      /\ \A e \in DOMAIN N : ToSet(N[e].kids) \subseteq DOMAIN N \cup gap
  BY DEF Tree
<1>2. /\ p \in DOMAIN W /\ p[1] \in 0 .. h /\ p[2] \in Nat
      /\ Spells(N[up], DOMAIN W[p], W[p], p[1], p[2])
      /\ \A k \in DOMAIN W[p] : k \in Nat /\ p[2] < k
  BY SpotOf
<1>3. c \in ToSet(N[up].kids)
  <2>1. N[up].kids \in Seq(Ids)
    BY <1>2, SpellsFacts
  <2>2. DOMAIN N[up].kids = 1 .. Len(N[up].kids)
    BY <2>1, LenProperties
  <2>. QED
    BY <2>2 DEF ToSet
<1>4. c \in Ids /\ c # NoId /\ p[1] # 0 /\ c.level = p[1] - 1 /\ c.level < h /\ Spot(c, h) = <<c.level, c.left>>
  BY <1>3, KidOf
<1>5. b \in Ids /\ b # c /\ b # NoId /\ b.level = c.level /\ b.left = c.left
  <2>1. b \in Ids /\ b # c
    BY <1>4, NoIdIsNone
  <2>2. b.level = c.level /\ b.left = c.left
    BY <1>4 DEF Renamed, Ids
  <2>. QED
    BY <2>1, <2>2, NoIdIsNone
<1>6. Spot(b, h) = Spot(c, h)
  BY <1>4, <1>5 DEF Spot
<1>7. b \notin DOMAIN N
  <2>1. c \in DOMAIN N
    OBVIOUS
  <2>. QED
    BY <1>1, <1>5, <1>6, <2>1
<1>8. c # up
  <2>1. up = NoId => c # up
    BY <1>4
  <2>2. up # NoId => p[1] = up.level
    BY DEF Spot
  <2>3. p[1] - 1 # p[1]
    BY <1>2
  <2>. QED
    BY <1>4, <2>1, <2>2, <2>3
<1>9. /\ Spells(Rename(N[up], i), DOMAIN W[p], W[p], p[1], p[2])
      /\ ToSet(Rename(N[up], i).kids) = (ToSet(N[up].kids) \ {c}) \cup {b}
  BY <1>2, <1>4, SpellsRename
<1>10. \A e \in DOMAIN N : e # up => c \notin ToSet(N[e].kids)
  <2> SUFFICES ASSUME NEW e \in DOMAIN N, c \in ToSet(N[e].kids) PROVE e = up
    OBVIOUS
  <2> HIDE DEF c
  <2>. QED
    BY <1>3, OneParent
<1> DEFINE r == Rename(N[up], i)
<1>11. O = With(Without(With(N, up, r), c), b, N[c])
  BY DEF Moved
<1>15. c \in DOMAIN N
  OBVIOUS
<1> HIDE DEF c, b, O, p, r
<1>12. /\ DOMAIN O = (DOMAIN N \ {c}) \cup {b} /\ O[b] = N[c] /\ O[up] = r
       /\ \A e \in DOMAIN N \ {c, up} : O[e] = N[e]
  BY <1>7, <1>8, <1>11 DEF With, Without
<1>13. ASSUME NEW e \in DOMAIN O PROVE Spot(e, h) \in DOMAIN W /\ Fits(O[e], W, Spot(e, h))
  <2>1. CASE e = b
    BY <1>1, <1>6, <1>12, <1>15, <2>1
  <2>2. CASE e = up
    BY <1>2, <1>9, <1>12, <2>2 DEF Fits, p, r
  <2>3. CASE e \in DOMAIN N \ {c, up}
    BY <1>1, <1>12, <2>3
  <2>. QED
    BY <1>12, <2>1, <2>2, <2>3
<1>14. ASSUME NEW e \in DOMAIN O PROVE ToSet(O[e].kids) \subseteq DOMAIN O \cup gap
  <2>1. CASE e = b
    <3>1. ToSet(N[c].kids) \subseteq DOMAIN N \cup gap /\ c \notin ToSet(N[c].kids)
      BY <1>1, <1>8, <1>10, <1>15
    <3>. QED
      BY <1>12, <2>1, <3>1
  <2>2. CASE e = up
    <3>1. ToSet(N[up].kids) \subseteq DOMAIN N \cup gap
      BY <1>1
    <3>. QED
      BY <1>9, <1>12, <2>2, <3>1 DEF r
  <2>3. CASE e \in DOMAIN N \ {c, up}
    <3>1. ToSet(N[e].kids) \subseteq DOMAIN N \cup gap /\ c \notin ToSet(N[e].kids)
      BY <1>1, <1>10, <2>3
    <3>. QED
      BY <1>12, <2>3, <3>1
  <2>. QED
    BY <1>12, <2>1, <2>2, <2>3
<1>16. NoId \in DOMAIN O /\ \A e \in DOMAIN O : e # NoId => e \in Ids /\ e.level < h
  BY <1>1, <1>4, <1>5, <1>12
<1>17. \A q \in DOMAIN W : \E e \in DOMAIN O : Spot(e, h) = q
  BY <1>1, <1>6, <1>12
<1>18. \A e, other \in DOMAIN O : Spot(e, h) = Spot(other, h) => e = other
  <2>1. \A e \in DOMAIN N : Spot(e, h) = Spot(c, h) => e = c
    BY <1>1, <1>15
  <2>. QED
    BY <1>1, <1>6, <1>12, <2>1
<1>19. Tree(O, h, W, gap)
  BY <1>13, <1>14, <1>16, <1>17, <1>18 DEF Tree
<1>20. Spot(c, h)[1] = p[1] - 1 /\ Spot(c, h)[2] = c.left
  BY <1>4
<1>21. b # up
  BY <1>7
<1>. QED
  BY <1>3, <1>4, <1>5, <1>6, <1>7, <1>8, <1>12, <1>19, <1>20, <1>21 DEF TreeMoves, c, b, O, p, r

-----------------------------------------------------------------------------
\* The contents of the levels.
IsMap(d) == DOMAIN d \subseteq Labels

LEMMA RankIn ==
  ASSUME NEW r \in [Labels -> Nat], NEW h \in Nat, NEW k \in Labels
  PROVE  Rank(r, k, h) \in 0 .. h /\ k \in Nat /\ k > 0
<1>1. Labels \subseteq Nat \ {0} /\ r[k] \in Nat
  BY HirbAssumption
<1>. QED
  BY <1>1 DEF Rank

LEMMA TopsFacts ==
  ASSUME NEW r \in [Labels -> Nat], NEW h \in Nat, NEW d, IsMap(d), NEW l \in Nat
  PROVE  /\ Tops(r, d, h, l) \subseteq {0} \cup Labels /\ Tops(r, d, h, l) \subseteq Nat
         /\ \A k \in DOMAIN d : k \in Tops(r, d, h, l) <=> Rank(r, k, h) > l
         /\ l >= h => Tops(r, d, h, l) = {0}
<1>1. Labels \subseteq Nat \ {0} /\ DOMAIN d \subseteq Labels
  BY HirbAssumption DEF IsMap
<1>2. \A k \in DOMAIN d : Rank(r, k, h) \in 0 .. h /\ k > 0
  BY <1>1, RankIn
<1>3. \A k \in DOMAIN d : l >= h => ~(Rank(r, k, h) > l)
  BY <1>2
<1>. QED
  <2>1. \A k \in DOMAIN d : k # 0
    BY <1>2
  <2>2. 0 \in Nat
    OBVIOUS
  <2>3. \A k : k \in Tops(r, d, h, l) <=> k = 0 \/ (k \in DOMAIN d /\ Rank(r, k, h) > l)
    BY DEF Tops
  <2>. QED
    BY <1>1, <1>3, <2>1, <2>2, <2>3

LEMMA ShapeAt ==
  ASSUME NEW r \in [Labels -> Nat], NEW h \in Nat, NEW e, NEW d, IsMap(e), IsMap(d), NEW c
  PROVE  LET W == Shape(r, e, d, h, c)
             m(l) == IF l >= c THEN e ELSE d
         IN  /\ \A p \in DOMAIN W : p = <<p[1], p[2]>> /\ p[1] \in 0 .. h /\ p[2] \in Tops(r, m(p[1]), h, p[1])
             /\ \A p \in DOMAIN W : W[p] = [k \in Held(r, m(p[1]), h, p[1], p[2]) |-> m(p[1])[k]]
             /\ \A l \in 0 .. h : \A k \in Tops(r, m(l), h, l) : <<l, k>> \in DOMAIN W
<1> DEFINE W == Shape(r, e, d, h, c)  m(l) == IF l >= c THEN e ELSE d
           D == {q \in (0 .. h) \X ({0} \cup Labels) : q[2] \in Tops(r, m(q[1]), h, q[1])}
<1>1. W = [p \in D |-> [k \in Held(r, m(p[1]), h, p[1], p[2]) |-> m(p[1])[k]]]
  BY DEF Shape
<1>2. \A l : IsMap(m(l))
  OBVIOUS
<1>3. \A l \in 0 .. h : Tops(r, m(l), h, l) \subseteq {0} \cup Labels
  BY <1>2, TopsFacts
<1> HIDE DEF W, m
<1>4. \A p \in D : p = <<p[1], p[2]>> /\ p[1] \in 0 .. h /\ p[2] \in Tops(r, m(p[1]), h, p[1])
  OBVIOUS
<1>5. \A l \in 0 .. h : \A k \in Tops(r, m(l), h, l) : <<l, k>> \in D
  BY <1>3
<1> HIDE DEF D
<1>6. DOMAIN W = D /\ \A p \in D : W[p] = [k \in Held(r, m(p[1]), h, p[1], p[2]) |-> m(p[1])[k]]
  BY <1>1
<1>. QED
  BY <1>4, <1>5, <1>6 DEF W, m

\* Contents at one level do not meet.
LEMMA HeldApart ==
  ASSUME NEW r \in [Labels -> Nat], NEW h \in Nat, NEW d, IsMap(d), NEW l \in Nat,
         NEW a \in Tops(r, d, h, l), NEW b \in Tops(r, d, h, l)
  PROVE  /\ \A k \in Held(r, d, h, l, a) : k \in Nat /\ a < k /\ k \in DOMAIN d /\ Rank(r, k, h) = l
         /\ b \notin Held(r, d, h, l, a)
         /\ a # b => Held(r, d, h, l, a) \cap Held(r, d, h, l, b) = {}
<1>1. Labels \subseteq Nat \ {0} /\ DOMAIN d \subseteq Labels
  BY HirbAssumption DEF IsMap
<1>2. a \in Nat /\ b \in Nat /\ \A k \in DOMAIN d : k \in Tops(r, d, h, l) <=> Rank(r, k, h) > l
  BY TopsFacts
<1>3. \A k \in Held(r, d, h, l, a) : k \in Nat /\ a < k /\ k \in DOMAIN d /\ Rank(r, k, h) = l
  BY <1>1, <1>2 DEF Held
<1>4. b \notin Held(r, d, h, l, a)
  BY <1>2, <1>3
<1>5. ASSUME a # b, NEW k \in Held(r, d, h, l, a), k \in Held(r, d, h, l, b) PROVE FALSE
  <2>1. k > a /\ k > b /\ (b > a => k < b) /\ (a > b => k < a) /\ k \in Nat
    BY <1>1, <1>5 DEF Held
  <2>. QED
    BY <1>2, <1>5, <2>1
<1>. QED
  BY <1>3, <1>4, <1>5

LEMMA ShapeShaped ==
  ASSUME NEW r \in [Labels -> Nat], NEW h \in Nat, NEW e, NEW d, IsMap(e), IsMap(d), NEW c
  PROVE  Shaped(Shape(r, e, d, h, c), h)
<1> DEFINE W == Shape(r, e, d, h, c)  m(l) == IF l >= c THEN e ELSE d
<1>1. /\ \A p \in DOMAIN W : p = <<p[1], p[2]>> /\ p[1] \in 0 .. h /\ p[2] \in Tops(r, m(p[1]), h, p[1])
      /\ \A p \in DOMAIN W : W[p] = [k \in Held(r, m(p[1]), h, p[1], p[2]) |-> m(p[1])[k]]
  BY ShapeAt
<1>2. \A l : IsMap(m(l))
  OBVIOUS
<1> HIDE DEF W, m
<1>3. \A p \in DOMAIN W : p[1] \in Nat /\ p[2] \in Nat /\ DOMAIN W[p] = Held(r, m(p[1]), h, p[1], p[2])
  <2> SUFFICES ASSUME NEW p \in DOMAIN W PROVE p[1] \in Nat /\ p[2] \in Nat /\ DOMAIN W[p] = Held(r, m(p[1]), h, p[1], p[2])
    OBVIOUS
  <2>1. p[1] \in 0 .. h /\ p[2] \in Tops(r, m(p[1]), h, p[1])
    BY <1>1
  <2>2. p[1] \in Nat
    BY <2>1
  <2>3. Tops(r, m(p[1]), h, p[1]) \subseteq Nat
    BY <1>2, <2>2, TopsFacts
  <2>4. DOMAIN W[p] = Held(r, m(p[1]), h, p[1], p[2])
    BY <1>1
  <2>. QED
    BY <2>1, <2>2, <2>3, <2>4
<1>4. ASSUME NEW p \in DOMAIN W, NEW k \in DOMAIN W[p] PROVE k \in Nat /\ p[2] < k
  <2>1. p[2] \in Tops(r, m(p[1]), h, p[1]) /\ k \in Held(r, m(p[1]), h, p[1], p[2]) /\ p[1] \in Nat /\ IsMap(m(p[1]))
    BY <1>1, <1>2, <1>3
  <2>. QED
    BY <2>1, HeldApart
<1>5. ASSUME NEW p \in DOMAIN W, NEW q \in DOMAIN W, p[1] = q[1]
      PROVE  q[2] \notin DOMAIN W[p] /\ (p # q => DOMAIN W[p] \cap DOMAIN W[q] = {})
  <2> DEFINE l == p[1]  T == Tops(r, m(l), h, l)
  <2>1. p[2] \in T /\ q[2] \in T /\ l \in Nat /\ IsMap(m(l))
    BY <1>1, <1>2, <1>3, <1>5
  <2>2. DOMAIN W[p] = Held(r, m(l), h, l, p[2]) /\ DOMAIN W[q] = Held(r, m(l), h, l, q[2])
    BY <1>3, <1>5
  <2>3. p # q => p[2] # q[2]
    BY <1>1, <1>5
  <2> HIDE DEF l
  <2>. QED
    BY <2>1, <2>2, <2>3, HeldApart
<1>6. \A p \in DOMAIN W : p = <<p[1], p[2]>> /\ p[1] \in 0 .. h /\ p[2] \in Nat
  BY <1>1, <1>3
<1>. QED
  BY <1>4, <1>5, <1>6 DEF Shaped, W

\* The node that a label of this level belongs to, and the child to follow.
LEMMA HeldHere ==
  ASSUME NEW r \in [Labels -> Nat], NEW h \in Nat, NEW d, IsMap(d), NEW l \in Nat, NEW x \in DOMAIN d,
         Rank(r, x, h) = l, NEW k, Pred(k, Tops(r, d, h, l), x)
  PROVE  x \in Held(r, d, h, l, k)
<1>1. Labels \subseteq Nat \ {0} /\ DOMAIN d \subseteq Labels
  BY HirbAssumption DEF IsMap
<1>2. Tops(r, d, h, l) \subseteq Nat /\ \A j \in DOMAIN d : j \in Tops(r, d, h, l) <=> Rank(r, j, h) > l
  BY TopsFacts
<1>3. x \notin Tops(r, d, h, l)
  BY <1>2
<1>4. k \in Tops(r, d, h, l) /\ k < x /\ \A j \in Tops(r, d, h, l) : j < x => j <= k
  BY DEF Pred
<1>5. \A j \in Tops(r, d, h, l) : j > k => x < j
  <2> SUFFICES ASSUME NEW j \in Tops(r, d, h, l), j > k PROVE x < j
    OBVIOUS
  <2>1. j \in Nat /\ k \in Nat /\ x \in Nat /\ j # x
    BY <1>1, <1>2, <1>3, <1>4
  <2>2. j < x => j <= k
    BY <1>4
  <2>. QED
    BY <2>1, <2>2
<1>6. x > k
  BY <1>1, <1>2, <1>4
<1>. QED
  BY <1>5, <1>6 DEF Held

LEMMA PredDown ==
  ASSUME NEW r \in [Labels -> Nat], NEW h \in Nat, NEW d, IsMap(d), NEW l \in Nat, l # 0, NEW x \in Nat,
         NEW k, Pred(k, Tops(r, d, h, l), x), NEW c, Before(c, {k} \cup Held(r, d, h, l, k), x)
  PROVE  Pred(c.left, Tops(r, d, h, l - 1), x)
<1>1. Labels \subseteq Nat \ {0} /\ DOMAIN d \subseteq Labels
  BY HirbAssumption DEF IsMap
<1> DEFINE S == Tops(r, d, h, l)  T == Tops(r, d, h, l - 1)  H == Held(r, d, h, l, k)
<1>2. S \subseteq Nat /\ T \subseteq Nat
  BY TopsFacts
<1>3. T = S \cup {j \in DOMAIN d : Rank(r, j, h) = l}
  <2>1. ASSUME NEW j \in DOMAIN d PROVE Rank(r, j, h) \in Nat
    <3>1. j \in Labels
      BY <1>1
    <3>2. Rank(r, j, h) \in 0 .. h
      BY <3>1, RankIn
    <3>. QED
      BY <3>2
  <2>2. \A j \in DOMAIN d : Rank(r, j, h) > l - 1 <=> Rank(r, j, h) > l \/ Rank(r, j, h) = l
    BY <2>1
  <2>. QED
    BY <2>2 DEF Tops
<1>4. k \in S /\ k < x /\ \A j \in S : j < x => j <= k
  BY DEF Pred
<1>5. c.left \in {k} \cup H /\ c.left < x /\ \A j \in {k} \cup H : j < x => j <= c.left
  BY DEF Before
<1>6. c.left \in T
  BY <1>3, <1>4, <1>5 DEF Held
<1>7. ASSUME NEW j \in T, j < x PROVE j <= c.left
  <2>0. k \in Nat /\ j \in Nat /\ c.left \in Nat /\ k <= c.left
    BY <1>2, <1>4, <1>5, <1>6, <1>7
  <2>1. CASE j \in S
    <3>1. j <= k
      BY <1>4, <1>7, <2>1
    <3>. QED
      BY <2>0, <3>1
  <2>2. CASE j \notin S
    <3>1. j \in DOMAIN d /\ Rank(r, j, h) = l
      BY <1>3, <2>2
    <3>2. CASE j <= k
      BY <2>0, <3>2
    <3>3. CASE j > k
      <4>1. \A i \in S : i > k => j < i
        <5> SUFFICES ASSUME NEW i \in S, i > k PROVE j < i
          OBVIOUS
        <5>1. i \in Nat /\ ~(i < x)
          BY <1>2, <1>4, <2>0
        <5>. QED
          BY <1>7, <2>0, <5>1
      <4>2. j \in H
        BY <3>1, <3>3, <4>1 DEF Held
      <4>. QED
        BY <1>5, <1>7, <4>2
    <3>. QED
      BY <2>0, <3>2, <3>3
  <2>. QED
    BY <2>1, <2>2
<1>. QED
  BY <1>5, <1>6, <1>7 DEF Pred

\* One more label, by the levels.
Levels(r, h, d, e, x, l) ==
    LET S == Tops(r, d, h, l)
    IN  /\ l >= Rank(r, x, h) => Tops(r, e, h, l) = S
        /\ l < Rank(r, x, h) => Tops(r, e, h, l) = S \cup {x}
        /\ l > Rank(r, x, h) => \A k \in S : Held(r, e, h, l, k) = Held(r, d, h, l, k)
        /\ l = Rank(r, x, h) =>
             \A k \in S : Held(r, e, h, l, k) = IF Pred(k, S, x) THEN Held(r, d, h, l, k) \cup {x} ELSE Held(r, d, h, l, k)
        /\ l < Rank(r, x, h) =>
             \A k \in S : IF Pred(k, S, x) THEN /\ Held(r, e, h, l, k) = {j \in Held(r, d, h, l, k) : j < x}
                                                /\ Held(r, e, h, l, x) = {j \in Held(r, d, h, l, k) : j > x}
                          ELSE Held(r, e, h, l, k) = Held(r, d, h, l, k)
        /\ x \notin S

LEMMA LevelsWith ==
  ASSUME NEW r \in [Labels -> Nat], NEW h \in Nat, NEW d, IsMap(d), NEW x \in Labels \ DOMAIN d,
         NEW e, DOMAIN e = DOMAIN d \cup {x}, NEW l \in Nat
  PROVE  Levels(r, h, d, e, x, l)
<1> DEFINE S == Tops(r, d, h, l)  T == Tops(r, e, h, l)
<1>1. Labels \subseteq Nat \ {0} /\ DOMAIN d \subseteq Labels /\ IsMap(e) /\ x \in Nat
  BY HirbAssumption DEF IsMap
<1>2. S \subseteq Nat /\ T \subseteq Nat
  BY <1>1, TopsFacts
<1>3. Rank(r, x, h) \in Nat
  BY RankIn
<1>4. l >= Rank(r, x, h) => T = S
  BY <1>3 DEF Tops
<1>5. l < Rank(r, x, h) => T = S \cup {x}
  BY <1>3 DEF Tops
<1>6. x \notin S
  BY <1>1 DEF Tops
<1>7. \A j : j \in DOMAIN e <=> j \in DOMAIN d \/ j = x
  OBVIOUS
<1>8. l > Rank(r, x, h) => \A k \in S : Held(r, e, h, l, k) = Held(r, d, h, l, k)
  <2> SUFFICES ASSUME l > Rank(r, x, h), NEW k \in S PROVE Held(r, e, h, l, k) = Held(r, d, h, l, k)
    OBVIOUS
  <2>1. T = S /\ Rank(r, x, h) # l
    BY <1>3, <1>4
  <2>. QED
    BY <1>7, <2>1 DEF Held
<1>9. \A k \in S : Pred(k, S, x) <=> k < x /\ \A j \in S : j > k => x < j
  <2> SUFFICES ASSUME NEW k \in S PROVE Pred(k, S, x) <=> k < x /\ \A j \in S : j > k => x < j
    OBVIOUS
  <2>1. \A j \in S : (j < x => j <= k) <=> (j > k => x < j)
    <3> SUFFICES ASSUME NEW j \in S PROVE (j < x => j <= k) <=> (j > k => x < j)
      OBVIOUS
    <3>1. j \in Nat /\ k \in Nat /\ j # x
      BY <1>2, <1>6
    <3> HIDE DEF S
    <3>. QED
      BY <1>1, <3>1
  <2> HIDE DEF S
  <2>. QED
    BY <2>1 DEF Pred
<1>10. l = Rank(r, x, h) =>
          \A k \in S : Held(r, e, h, l, k) = IF Pred(k, S, x) THEN Held(r, d, h, l, k) \cup {x} ELSE Held(r, d, h, l, k)
  <2> SUFFICES ASSUME l = Rank(r, x, h), NEW k \in S
               PROVE  Held(r, e, h, l, k) = IF Pred(k, S, x) THEN Held(r, d, h, l, k) \cup {x} ELSE Held(r, d, h, l, k)
    OBVIOUS
  <2>1. T = S
    BY <1>3, <1>4
  <2>2. Pred(k, S, x) <=> x > k /\ \A j \in S : j > k => x < j
    BY <1>1, <1>2, <1>9
  <2>3. Held(r, e, h, l, k) = {j \in DOMAIN e : j > k /\ Rank(r, j, h) = l /\ \A i \in S : i > k => j < i}
    BY <2>1 DEF Held
  <2>4. Held(r, d, h, l, k) = {j \in DOMAIN d : j > k /\ Rank(r, j, h) = l /\ \A i \in S : i > k => j < i}
    BY DEF Held
  <2> HIDE DEF S, T
  <2>. QED
    BY <1>7, <2>2, <2>3, <2>4
<1>11. l < Rank(r, x, h) =>
          \A k \in S : IF Pred(k, S, x) THEN /\ Held(r, e, h, l, k) = {j \in Held(r, d, h, l, k) : j < x}
                                             /\ Held(r, e, h, l, x) = {j \in Held(r, d, h, l, k) : j > x}
                       ELSE Held(r, e, h, l, k) = Held(r, d, h, l, k)
  <2> SUFFICES ASSUME l < Rank(r, x, h), NEW k \in S
               PROVE  IF Pred(k, S, x) THEN /\ Held(r, e, h, l, k) = {j \in Held(r, d, h, l, k) : j < x}
                                            /\ Held(r, e, h, l, x) = {j \in Held(r, d, h, l, k) : j > x}
                      ELSE Held(r, e, h, l, k) = Held(r, d, h, l, k)
    OBVIOUS
  <2>1. T = S \cup {x} /\ Rank(r, x, h) # l
    BY <1>3, <1>5
  <2>2. \A a : Held(r, e, h, l, a) = {j \in DOMAIN d : j > a /\ Rank(r, j, h) = l /\ \A i \in S \cup {x} : i > a => j < i}
    BY <1>7, <2>1 DEF Held
  <2>3. \A a : Held(r, d, h, l, a) = {j \in DOMAIN d : j > a /\ Rank(r, j, h) = l /\ \A i \in S : i > a => j < i}
    BY DEF Held
  <2>4. k \in Nat /\ k # x /\ \A j \in DOMAIN d : j \in Nat /\ j # x
    BY <1>1, <1>2, <1>6
  <2>5. Pred(k, S, x) <=> k < x /\ \A j \in S : j > k => x < j
    BY <1>9
  <2>6. \A j \in S : j \in Nat /\ j # x
    BY <1>2, <1>6
  <2> HIDE DEF S, T
  <2>7. CASE Pred(k, S, x)
    <3>1. ASSUME NEW j \in DOMAIN d PROVE j \in Held(r, e, h, l, k) <=> j \in Held(r, d, h, l, k) /\ j < x
      <4>1. x > k
        BY <1>1, <2>4, <2>5, <2>7
      <4>. QED
        BY <2>2, <2>3, <4>1
    <3>2. ASSUME NEW j \in DOMAIN d PROVE j \in Held(r, e, h, l, x) <=> j \in Held(r, d, h, l, k) /\ j > x
      <4>1. \A i \in S : i > k <=> i > x
        BY <1>1, <2>4, <2>5, <2>6, <2>7
      <4>2. ~(x > x)
        BY <1>1
      <4>3. j > x => j > k
        BY <1>1, <2>4, <2>5, <2>7
      <4>. QED
        BY <2>2, <2>3, <4>1, <4>2, <4>3
    <3>3. Held(r, e, h, l, k) \subseteq DOMAIN d /\ Held(r, e, h, l, x) \subseteq DOMAIN d /\ Held(r, d, h, l, k) \subseteq DOMAIN d
      BY <2>2, <2>3
    <3>. QED
      BY <2>7, <3>1, <3>2, <3>3
  <2>8. CASE ~Pred(k, S, x)
    <3>1. ASSUME NEW j \in DOMAIN d PROVE j \in Held(r, e, h, l, k) <=> j \in Held(r, d, h, l, k)
      <4>1. CASE x < k
        <5>1. ~(x > k)
          BY <1>1, <2>4, <4>1
        <5>. QED
          BY <2>2, <2>3, <5>1
      <4>2. CASE x > k
        <5>1. PICK i \in S : i > k /\ ~(x < i)
          BY <1>1, <2>4, <2>5, <2>8, <4>2
        <5>2. i < x /\ i \in Nat
          BY <1>1, <2>6, <5>1
        <5>3. j < i => j < x
          BY <1>1, <2>4, <5>2
        <5>. QED
          BY <2>2, <2>3, <5>1, <5>3
      <4>. QED
        BY <1>1, <2>4, <4>1, <4>2
    <3>3. Held(r, e, h, l, k) \subseteq DOMAIN d /\ Held(r, d, h, l, k) \subseteq DOMAIN d
      BY <2>2, <2>3
    <3>. QED
      BY <2>8, <3>1, <3>3
  <2>. QED
    BY <2>7, <2>8
<1>. QED
  BY <1>4, <1>5, <1>6, <1>8, <1>10, <1>11 DEF Levels

\* The places of a family, and what is at them.
Content(r, m, h, l, k) == [j \in Held(r, m, h, l, k) |-> m[j]]

LEMMA ShapeIn ==
  ASSUME NEW r \in [Labels -> Nat], NEW h \in Nat, NEW e, NEW d, IsMap(e), IsMap(d), NEW c \in Nat, NEW l \in 0 .. h, NEW k,
         NEW m, l >= c => m = e, ~(l >= c) => m = d
  PROVE  LET W == Shape(r, e, d, h, c)
         IN  /\ <<l, k>> \in DOMAIN W <=> k \in Tops(r, m, h, l)
             /\ k \in Tops(r, m, h, l) => W[<<l, k>>] = Content(r, m, h, l, k)
<1> DEFINE W == Shape(r, e, d, h, c)  p == <<l, k>>
<1>1. /\ \A q \in DOMAIN W : q[2] \in Tops(r, IF q[1] >= c THEN e ELSE d, h, q[1])
      /\ \A q \in DOMAIN W : W[q] = Content(r, IF q[1] >= c THEN e ELSE d, h, q[1], q[2])
      /\ \A i \in 0 .. h : \A j \in Tops(r, IF i >= c THEN e ELSE d, h, i) : <<i, j>> \in DOMAIN W
  BY ShapeAt DEF Content
<1>2. p[1] = l /\ p[2] = k
  OBVIOUS
<1>3. k \in Tops(r, m, h, l) => p \in DOMAIN W
  BY <1>1
<1> HIDE DEF W, p
<1>4. p \in DOMAIN W => p[2] \in Tops(r, m, h, p[1]) /\ W[p] = Content(r, m, h, p[1], p[2])
  BY <1>1, <1>2
<1>. QED
  BY <1>2, <1>3, <1>4 DEF W, p

LEMMA ShapePlace ==
  ASSUME NEW r \in [Labels -> Nat], NEW h \in Nat, NEW e, NEW d, IsMap(e), IsMap(d), NEW c,
         NEW q \in DOMAIN Shape(r, e, d, h, c)
  PROVE  q = <<q[1], q[2]>> /\ q[1] \in 0 .. h
  BY ShapeAt

\* A node with the content of a place, by the map that the content is from.
LEMMA FitsAt ==
  ASSUME NEW r \in [Labels -> Nat], NEW h \in Nat, NEW e, NEW d, IsMap(e), IsMap(d), NEW c \in Nat, NEW l \in 0 .. h,
         NEW m, l >= c => m = e, ~(l >= c) => m = d, NEW k \in Tops(r, m, h, l), NEW n
  PROVE  Fits(n, Shape(r, e, d, h, c), <<l, k>>) <=> Spells(n, Held(r, m, h, l, k), m, l, k)
<1> DEFINE W == Shape(r, e, d, h, c)  H == Held(r, m, h, l, k)  p == <<l, k>>
<1>0. W[p] = Content(r, m, h, l, k)
  BY ShapeIn
<1>1. W[p] = [j \in H |-> m[j]]
  BY <1>0 DEF Content
<1> HIDE DEF W, H
<1>2. DOMAIN W[p] = H /\ \A j \in H : W[p][j] = m[j]
  BY <1>1
<1>3. p[1] = l /\ p[2] = k
  OBVIOUS
<1> HIDE DEF p
<1>4. Fits(n, W, p) <=> Spells(n, H, W[p], l, k)
  BY <1>2, <1>3 DEF Fits
<1> DEFINE f == W[p]
<1>5. \A j \in H : f[j] = m[j] /\ m[j] = f[j]
  BY <1>2
<1> HIDE DEF f
<1>6. Spells(n, H, f, l, k) <=> Spells(n, H, m, l, k)
  BY <1>5, SpellsOther
<1>. QED
  BY <1>4, <1>6 DEF W, H, p, f

\* Two maps with the same places from level c up, where they differ in the content
\* of one place only.
OneApart(r, e, d, h, c, p) ==
    /\ \A l \in 0 .. h : l >= c => Tops(r, e, h, l) = Tops(r, d, h, l)
    /\ \A l \in 0 .. h : l >= c => \A k \in Tops(r, d, h, l) : <<l, k>> # p =>
          /\ Held(r, e, h, l, k) = Held(r, d, h, l, k)
          /\ \A j \in Held(r, d, h, l, k) : e[j] = d[j]

LEMMA ShapeFrom ==
  ASSUME NEW r \in [Labels -> Nat], NEW h \in Nat, NEW e, NEW d, IsMap(e), IsMap(d), NEW c \in Nat, NEW p,
         OneApart(r, e, d, h, c, p)
  PROVE  LET W == Shape(r, d, d, h, 0)
             V == Shape(r, e, d, h, c)
         IN  DOMAIN V = DOMAIN W /\ \A q \in DOMAIN W : q # p => V[q] = W[q]
<1> USE DEF OneApart
<1> DEFINE W == Shape(r, d, d, h, 0)  V == Shape(r, e, d, h, c)
<1>1. ASSUME NEW l \in 0 .. h, NEW k PROVE <<l, k>> \in DOMAIN V <=> <<l, k>> \in DOMAIN W
  <2> DEFINE m == IF l >= c THEN e ELSE d
  <2>1. Tops(r, m, h, l) = Tops(r, d, h, l)
    OBVIOUS
  <2>a. (l >= c => m = e) /\ (~(l >= c) => m = d)
    OBVIOUS
  <2> HIDE DEF m
  <2>2. <<l, k>> \in DOMAIN V <=> k \in Tops(r, m, h, l)
    BY <2>a, ShapeIn, SMTT(30)
  <2>3. <<l, k>> \in DOMAIN W <=> k \in Tops(r, d, h, l)
    BY ShapeIn
  <2>. QED
    BY <2>1, <2>2, <2>3
<1>2. ASSUME NEW l \in 0 .. h, NEW k, <<l, k>> \in DOMAIN W, <<l, k>> # p PROVE V[<<l, k>>] = W[<<l, k>>]
  <2> DEFINE m == IF l >= c THEN e ELSE d
  <2>0. k \in Tops(r, d, h, l)
    BY <1>2, ShapeIn
  <2>1. Tops(r, m, h, l) = Tops(r, d, h, l)
    OBVIOUS
  <2>2. Held(r, m, h, l, k) = Held(r, d, h, l, k) /\ \A j \in Held(r, d, h, l, k) : m[j] = d[j]
    BY <1>2, <2>0
  <2>a. (l >= c => m = e) /\ (~(l >= c) => m = d)
    OBVIOUS
  <2> HIDE DEF m
  <2>b. k \in Tops(r, m, h, l)
    BY <2>0, <2>1
  <2>3. /\ <<l, k>> \in DOMAIN V <=> k \in Tops(r, m, h, l)
        /\ k \in Tops(r, m, h, l) => V[<<l, k>>] = Content(r, m, h, l, k)
    BY <2>a, ShapeIn
  <2>4. W[<<l, k>>] = Content(r, d, h, l, k)
    BY <2>0, ShapeIn
  <2> HIDE DEF V, W
  <2>. QED
    BY <2>2, <2>3, <2>4, <2>b DEF Content
<1>3. \A q \in DOMAIN V : q = <<q[1], q[2]>> /\ q[1] \in 0 .. h
  BY ShapePlace
<1>4. \A q \in DOMAIN W : q = <<q[1], q[2]>> /\ q[1] \in 0 .. h
  BY ShapePlace
<1> HIDE DEF V, W
<1>5. \A q : q \in DOMAIN V <=> q \in DOMAIN W
  BY <1>1, <1>3, <1>4
<1>6. ASSUME NEW q \in DOMAIN W, q # p PROVE V[q] = W[q]
  BY <1>2, <1>4, <1>6
<1>. QED
  BY <1>5, <1>6 DEF V, W

\* When the border comes down from c to b, nothing changes but at level b.
Narrowed(r, h, e, d, c, b) ==
    LET W == Shape(r, e, d, h, c)
        V == Shape(r, e, d, h, b)
    IN  /\ \A q : q[1] # b => (q \in DOMAIN W <=> q \in DOMAIN V)
        /\ \A q \in DOMAIN W : q[1] # b => V[q] = W[q]
        /\ \A q \in DOMAIN W : q[1] = b => q = <<b, q[2]>> /\ q[2] \in Tops(r, d, h, b)
        /\ \A q \in DOMAIN V : q[1] = b => q = <<b, q[2]>> /\ q[2] \in Tops(r, e, h, b)
        /\ \A k \in Tops(r, d, h, b) : <<b, k>> \in DOMAIN W /\ W[<<b, k>>] = Content(r, d, h, b, k)
        /\ \A k \in Tops(r, e, h, b) : <<b, k>> \in DOMAIN V /\ V[<<b, k>>] = Content(r, e, h, b, k)

LEMMA ShapeDown ==
  ASSUME NEW r \in [Labels -> Nat], NEW h \in Nat, NEW e, NEW d, IsMap(e), IsMap(d), NEW c \in 1 .. h
  PROVE  Narrowed(r, h, e, d, c, c - 1)
<1> DEFINE W == Shape(r, e, d, h, c)  V == Shape(r, e, d, h, c - 1)
<1>0. c - 1 \in 0 .. h /\ ~(c - 1 >= c) /\ c - 1 >= c - 1
  OBVIOUS
<1>1. ASSUME NEW k
      PROVE  /\ <<c - 1, k>> \in DOMAIN W <=> k \in Tops(r, d, h, c - 1)
             /\ k \in Tops(r, d, h, c - 1) => W[<<c - 1, k>>] = Content(r, d, h, c - 1, k)
             /\ <<c - 1, k>> \in DOMAIN V <=> k \in Tops(r, e, h, c - 1)
             /\ k \in Tops(r, e, h, c - 1) => V[<<c - 1, k>>] = Content(r, e, h, c - 1, k)
  <2> DEFINE l == c - 1
  <2>1. l \in 0 .. h /\ ~(l >= c) /\ l >= c - 1
    BY <1>0
  <2> HIDE DEF l
  <2>2. /\ <<l, k>> \in DOMAIN W <=> k \in Tops(r, d, h, l)
        /\ k \in Tops(r, d, h, l) => W[<<l, k>>] = Content(r, d, h, l, k)
    BY <2>1, ShapeIn
  <2>3. /\ <<l, k>> \in DOMAIN V <=> k \in Tops(r, e, h, l)
        /\ k \in Tops(r, e, h, l) => V[<<l, k>>] = Content(r, e, h, l, k)
    <3> DEFINE b == c - 1
    <3>1. l >= b /\ b \in Nat
      BY <2>1
    <3> HIDE DEF b
    <3>2. /\ <<l, k>> \in DOMAIN Shape(r, e, d, h, b) <=> k \in Tops(r, e, h, l)
          /\ k \in Tops(r, e, h, l) => Shape(r, e, d, h, b)[<<l, k>>] = Content(r, e, h, l, k)
      BY <2>1, <3>1, ShapeIn
    <3>. QED
      BY <3>2 DEF b
  <2>. QED
    BY <2>2, <2>3 DEF l
<1>2. ASSUME NEW l \in 0 .. h, l # c - 1, NEW k
      PROVE  /\ <<l, k>> \in DOMAIN W <=> <<l, k>> \in DOMAIN V
             /\ <<l, k>> \in DOMAIN W => V[<<l, k>>] = W[<<l, k>>]
  <2> DEFINE m == IF l >= c THEN e ELSE d
  <2>1. (l >= c - 1 => m = e) /\ (~(l >= c - 1) => m = d)
    BY <1>2
  <2>2. (l >= c => m = e) /\ (~(l >= c) => m = d)
    OBVIOUS
  <2> HIDE DEF m
  <2>3. /\ <<l, k>> \in DOMAIN W <=> k \in Tops(r, m, h, l)
        /\ k \in Tops(r, m, h, l) => W[<<l, k>>] = Content(r, m, h, l, k)
    BY <2>2, ShapeIn
  <2>4. /\ <<l, k>> \in DOMAIN V <=> k \in Tops(r, m, h, l)
        /\ k \in Tops(r, m, h, l) => V[<<l, k>>] = Content(r, m, h, l, k)
    <3> DEFINE b == c - 1
    <3>1. b \in Nat /\ (l >= b => m = e) /\ (~(l >= b) => m = d)
      BY <2>1
    <3> HIDE DEF b
    <3>2. /\ <<l, k>> \in DOMAIN Shape(r, e, d, h, b) <=> k \in Tops(r, m, h, l)
          /\ k \in Tops(r, m, h, l) => Shape(r, e, d, h, b)[<<l, k>>] = Content(r, m, h, l, k)
      BY <3>1, ShapeIn
    <3>. QED
      BY <3>2 DEF b
  <2>. QED
    BY <2>3, <2>4
<1>3. \A q \in DOMAIN V : q = <<q[1], q[2]>> /\ q[1] \in 0 .. h
  BY ShapePlace
<1>4. \A q \in DOMAIN W : q = <<q[1], q[2]>> /\ q[1] \in 0 .. h
  BY ShapePlace
<1> HIDE DEF V, W
<1>5. ASSUME NEW q, q[1] # c - 1, q \in DOMAIN W \cup DOMAIN V
      PROVE  (q \in DOMAIN W <=> q \in DOMAIN V) /\ V[q] = W[q]
  BY <1>2, <1>3, <1>4, <1>5
<1>6. \A q \in DOMAIN W : q[1] = c - 1 => q = <<c - 1, q[2]>> /\ q[2] \in Tops(r, d, h, c - 1)
  <2> SUFFICES ASSUME NEW q \in DOMAIN W, q[1] = c - 1 PROVE q = <<c - 1, q[2]>> /\ q[2] \in Tops(r, d, h, c - 1)
    OBVIOUS
  <2>1. q = <<c - 1, q[2]>>
    BY <1>4
  <2>2. <<c - 1, q[2]>> \in DOMAIN W => q[2] \in Tops(r, d, h, c - 1)
    BY <1>1
  <2>. QED
    BY <2>1, <2>2
<1>7. \A q \in DOMAIN V : q[1] = c - 1 => q = <<c - 1, q[2]>> /\ q[2] \in Tops(r, e, h, c - 1)
  <2> SUFFICES ASSUME NEW q \in DOMAIN V, q[1] = c - 1 PROVE q = <<c - 1, q[2]>> /\ q[2] \in Tops(r, e, h, c - 1)
    OBVIOUS
  <2>1. q = <<c - 1, q[2]>>
    BY <1>3
  <2>2. <<c - 1, q[2]>> \in DOMAIN V => q[2] \in Tops(r, e, h, c - 1)
    BY <1>1
  <2>. QED
    BY <2>1, <2>2
<1>. QED
  BY <1>1, <1>5, <1>6, <1>7 DEF V, W, Narrowed

\* Levels that are all of one map.
LEMMA ShapeWhole ==
  ASSUME NEW r \in [Labels -> Nat], NEW h \in Nat, NEW e, NEW d
  PROVE  Shape(r, e, d, h, 0) = Shape(r, e, e, h, 0)
<1>1. \A l \in 0 .. h : l >= 0
  OBVIOUS
<1> DEFINE D(m(_)) == {q \in (0 .. h) \X ({0} \cup Labels) : q[2] \in Tops(r, m(q[1]), h, q[1])}
           a(l) == IF l >= 0 THEN e ELSE d  b(l) == IF l >= 0 THEN e ELSE e
<1>2. \A l \in 0 .. h : a(l) = e /\ b(l) = e
  BY <1>1
<1> HIDE DEF a, b
<1>3. D(a) = D(b)
  BY <1>2
<1>4. \A p \in D(a) : p[1] \in 0 .. h
  OBVIOUS
<1>5. [p \in D(a) |-> [k \in Held(r, a(p[1]), h, p[1], p[2]) |-> a(p[1])[k]]]
      = [p \in D(b) |-> [k \in Held(r, b(p[1]), h, p[1], p[2]) |-> b(p[1])[k]]]
  BY <1>2, <1>3, <1>4
<1>. QED
  BY <1>5 DEF Shape, a, b

-----------------------------------------------------------------------------
\* What the calls do to the tree of a map.

\* What a node of the tree holds.
LEMMA NodeIn ==
  ASSUME NEW r \in [Labels -> Nat], NEW h \in Nat, NEW e, NEW d, IsMap(e), IsMap(d), NEW c \in Nat,
         NEW N, NEW gap, Tree(N, h, Shape(r, e, d, h, c), gap), NEW id \in DOMAIN N,
         NEW l \in Nat, NEW k, Spot(id, h) = <<l, k>>, NEW m, l >= c => m = e, ~(l >= c) => m = d
  PROVE  /\ l \in 0 .. h /\ k \in Nat /\ k \in Tops(r, m, h, l) /\ <<l, k>> \in DOMAIN Shape(r, e, d, h, c)
         /\ Spells(N[id], Held(r, m, h, l, k), m, l, k)
         /\ \A j \in Held(r, m, h, l, k) : j \in Nat /\ k < j /\ j \in Labels /\ j \in DOMAIN m
         /\ ToSet(N[id].kids) \subseteq DOMAIN N \cup gap
<1> DEFINE W == Shape(r, e, d, h, c)
<1>1. Shaped(W, h)
  BY ShapeShaped
<1> HIDE DEF W
<1>2. <<l, k>> \in DOMAIN W /\ Fits(N[id], W, <<l, k>>) /\ ToSet(N[id].kids) \subseteq DOMAIN N \cup gap
  BY DEF Tree, W
<1>3. l \in 0 .. h /\ k \in Nat
  <2>1. <<l, k>>[1] = l /\ <<l, k>>[2] = k
    OBVIOUS
  <2> DEFINE p == <<l, k>>
  <2>2. p \in DOMAIN W /\ p[1] = l /\ p[2] = k
    BY <1>2, <2>1
  <2> HIDE DEF p
  <2>. QED
    BY <1>1, <2>2 DEF Shaped
<1>4. k \in Tops(r, m, h, l)
  BY <1>2, <1>3, ShapeIn, SMTT(30) DEF W
<1>5. Spells(N[id], Held(r, m, h, l, k), m, l, k)
  BY <1>2, <1>3, <1>4, FitsAt, SMTT(30) DEF W
<1>6. IsMap(m)
  OBVIOUS
<1>7. \A j \in Held(r, m, h, l, k) : j \in Nat /\ k < j /\ j \in DOMAIN m
  BY <1>3, <1>4, <1>6, HeldApart
<1>. QED
  BY <1>2, <1>3, <1>4, <1>5, <1>6, <1>7 DEF W, IsMap

\* The same of a tree that is of one map.
LEMMA WholeIn ==
  ASSUME NEW r \in [Labels -> Nat], NEW h \in Nat, NEW d, IsMap(d),
         NEW N, Tree(N, h, Shape(r, d, d, h, 0), {}), NEW id \in DOMAIN N,
         NEW l \in Nat, NEW k, Spot(id, h) = <<l, k>>
  PROVE  /\ l \in 0 .. h /\ k \in Nat /\ k \in Tops(r, d, h, l)
         /\ Spells(N[id], Held(r, d, h, l, k), d, l, k)
         /\ \A j \in Held(r, d, h, l, k) : j \in Nat /\ k < j /\ j \in Labels /\ j \in DOMAIN d
         /\ ToSet(N[id].kids) \subseteq DOMAIN N \cup {}
<1> DEFINE c == 0  gap == {}
<1>1. c \in Nat /\ Tree(N, h, Shape(r, d, d, h, c), gap) /\ gap = {}
  OBVIOUS
<1> HIDE DEF c, gap
<1>2. /\ l \in 0 .. h /\ k \in Nat /\ k \in Tops(r, d, h, l)
      /\ Spells(N[id], Held(r, d, h, l, k), d, l, k)
      /\ \A j \in Held(r, d, h, l, k) : j \in Nat /\ k < j /\ j \in Labels /\ j \in DOMAIN d
      /\ ToSet(N[id].kids) \subseteq DOMAIN N \cup gap
  BY <1>1, NodeIn
<1>. QED
  BY <1>1, <1>2

LEMMA PredIsOne ==
  ASSUME NEW S \in SUBSET Nat, NEW x, NEW a, NEW b, Pred(a, S, x), Pred(b, S, x)
  PROVE  a = b
<1>1. a \in Nat /\ b \in Nat /\ a <= b /\ b <= a
  BY DEF Pred
<1>. QED
  BY <1>1

\* A label gets another value.
LEMMA TreeUpdate ==
  ASSUME NEW r \in [Labels -> Nat], NEW h \in Nat, NEW d, IsMap(d),
         NEW N, Tree(N, h, Shape(r, d, d, h, 0), {}), NEW id \in DOMAIN N,
         NEW l \in Nat, NEW k, Spot(id, h) = <<l, k>>, NEW x \in Held(r, d, h, l, k), NEW v \in Values
  PROVE  Tree(With(N, id, Update(N[id], x, v)), h, Shape(r, With(d, x, v), With(d, x, v), h, 0), {})
<1>0. /\ l \in 0 .. h /\ k \in Nat /\ k \in Tops(r, d, h, l)
      /\ Spells(N[id], Held(r, d, h, l, k), d, l, k)
      /\ \A j \in Held(r, d, h, l, k) : j \in Nat /\ k < j /\ j \in Labels /\ j \in DOMAIN d
      /\ ToSet(N[id].kids) \subseteq DOMAIN N \cup {}
  BY WholeIn
<1> DEFINE W == Shape(r, d, d, h, 0)  e == With(d, x, v)  V == Shape(r, e, d, h, 0)  M == Held(r, d, h, l, k)
           n == Update(N[id], x, v)
<1>1. /\ l \in 0 .. h /\ k \in Nat /\ k \in Tops(r, d, h, l)
      /\ Spells(N[id], M, d, l, k)
      /\ \A j \in M : j \in Nat /\ k < j /\ j \in Labels /\ j \in DOMAIN d
      /\ ToSet(N[id].kids) \subseteq DOMAIN N \cup {}
  BY <1>0
<1>2. DOMAIN e = DOMAIN d /\ \A j \in DOMAIN d : j # x => e[j] = d[j]
  BY <1>1 DEF With
<1>3. Spells(n, M, e, l, k) /\ n.kids = N[id].kids
  BY <1>1, SpellsUpdate
<1>4. IsMap(e)
  BY <1>2 DEF IsMap
<1> HIDE DEF e, n
<1>5. \A i : Tops(r, e, h, i) = Tops(r, d, h, i)
  BY <1>2 DEF Tops
<1>6. \A i, j : Held(r, e, h, i, j) = Held(r, d, h, i, j)
  BY <1>2, <1>5 DEF Held
<1>7. ASSUME NEW i \in 0 .. h, NEW a \in Tops(r, d, h, i), <<i, a>> # <<l, k>>
      PROVE  \A j \in Held(r, d, h, i, a) : e[j] = d[j]
  <2>1. \A j \in Held(r, d, h, i, a) : j \in DOMAIN d /\ Rank(r, j, h) = i
    BY DEF Held
  <2>2. Rank(r, x, h) = l
    BY DEF Held
  <2>3. i = l => x \notin Held(r, d, h, i, a)
    <3> SUFFICES ASSUME i = l PROVE x \notin Held(r, d, h, l, a)
      OBVIOUS
    <3>1. a # k /\ a \in Tops(r, d, h, l) /\ l \in Nat
      BY <1>1, <1>7
    <3>. QED
      BY <1>1, <3>1, HeldApart
  <2>. QED
    BY <1>2, <2>1, <2>2, <2>3
<1> DEFINE p == <<l, k>>
<1>a. 0 \in Nat
  OBVIOUS
<1>8. DOMAIN V = DOMAIN W /\ \A q \in DOMAIN W : q # p => V[q] = W[q]
  <2> DEFINE c == 0
  <2>0. c \in Nat
    OBVIOUS
  <2>1. \A i \in 0 .. h : i >= c => Tops(r, e, h, i) = Tops(r, d, h, i)
    BY <1>5
  <2>2. \A i \in 0 .. h : i >= c => \A a \in Tops(r, d, h, i) : <<i, a>> # p =>
             /\ Held(r, e, h, i, a) = Held(r, d, h, i, a)
             /\ \A j \in Held(r, d, h, i, a) : e[j] = d[j]
    BY <1>6, <1>7
  <2> HIDE DEF c, p
  <2>4. OneApart(r, e, d, h, c, p)
    BY <2>1, <2>2 DEF OneApart
  <2>3. DOMAIN Shape(r, e, d, h, c) = DOMAIN W /\ \A q \in DOMAIN W : q # p => Shape(r, e, d, h, c)[q] = W[q]
    BY <1>4, <2>0, <2>4, ShapeFrom
  <2>. QED
    BY <2>3 DEF c
<1>9. Fits(n, V, <<l, k>>)
  <2>1. l >= 0 /\ k \in Tops(r, e, h, l) /\ Spells(n, Held(r, e, h, l, k), e, l, k)
    BY <1>1, <1>3, <1>5, <1>6
  <2>. QED
    BY <1>1, <1>4, <1>a, <2>1, FitsAt
<1> HIDE DEF V, W
<1>10. Tree(With(N, id, n), h, V, {})
  <2>1. ToSet(n.kids) \subseteq DOMAIN N \cup {}
    BY <1>1, <1>3
  <2>2. Fits(n, V, Spot(id, h))
    BY <1>9
  <2>3. \A q \in DOMAIN W : q # Spot(id, h) => V[q] = W[q]
    BY <1>8
  <2>4. Tree(N, h, W, {})
    BY DEF W
  <2>. QED
    BY <1>8, <2>1, <2>2, <2>3, <2>4, TreeReplace
<1>11. V = Shape(r, e, e, h, 0)
  BY ShapeWhole DEF V
<1>. QED
  BY <1>10, <1>11 DEF e, n

\* The child to follow from a node on the way to x.
LEMMA ChildDown ==
  ASSUME NEW r \in [Labels -> Nat], NEW h \in Nat, NEW d, IsMap(d), NEW l \in Nat, l # 0, NEW k \in Nat,
         NEW n, Spells(n, Held(r, d, h, l, k), d, l, k), NEW x \in Nat, Pred(k, Tops(r, d, h, l), x)
  PROVE  LET i == BisectLeft(n, x) + 1
         IN  /\ i \in 1 .. Len(n.kids) /\ n.kids[i] \in ToSet(n.kids)
             /\ Pred(n.kids[i].left, Tops(r, d, h, l - 1), x)
<1> DEFINE M == Held(r, d, h, l, k)  i == BisectLeft(n, x) + 1
<1>1. k \in Tops(r, d, h, l) /\ k < x
  BY DEF Pred
<1>2. \A m \in M : k < m
  BY <1>1, HeldApart
<1>3. i \in 1 .. Len(n.kids) /\ n.kids[i] \in ToSet(n.kids) /\ Before(n.kids[i], {k} \cup M, x)
  <2> HIDE DEF M
  <2>1. Spells(n, M, d, l, k)
    BY DEF M
  <2>. QED
    BY <1>1, <1>2, <2>1, SpellsBefore
<1>4. Pred(n.kids[i].left, Tops(r, d, h, l - 1), x)
  BY <1>3, PredDown
<1>. QED
  BY <1>3, <1>4

\* A new label comes to the node on its way at its level.
TreeInserts(r, h, d, N, id, x, l, v, step) ==
    LET n == N[id]
        i == BisectLeft(n, x)
        m == Insert(n, x, v)
        f == IF l = 0 THEN m ELSE [m EXCEPT !.kids = InsertAt(@, i + 2, step)]
    IN  /\ Tree(With(N, id, f), h, Shape(r, With(d, x, v), d, h, l), IF l = 0 THEN {} ELSE {step})
        /\ IsNodeRec(m) /\ i \in Nat
        /\ l # 0 => /\ i + 1 \in 1 .. Len(f.kids)
                    /\ Pred(f.kids[i + 1].left, Tops(r, d, h, l - 1), x)

LEMMA TreeInsert ==
  ASSUME NEW r \in [Labels -> Nat], NEW h \in Nat, NEW d, IsMap(d),
         NEW N, Tree(N, h, Shape(r, d, d, h, 0), {}), NEW id \in DOMAIN N,
         NEW x \in Labels, x \notin DOMAIN d, NEW l \in Nat, l = Rank(r, x, h),
         NEW k, Spot(id, h) = <<l, k>>, Pred(k, Tops(r, d, h, l), x), NEW v \in Values,
         NEW step, StepAt(step, l, x)
  PROVE  TreeInserts(r, h, d, N, id, x, l, v, step)
<1>0. /\ l \in 0 .. h /\ k \in Nat /\ k \in Tops(r, d, h, l)
      /\ Spells(N[id], Held(r, d, h, l, k), d, l, k)
      /\ \A j \in Held(r, d, h, l, k) : j \in Nat /\ k < j /\ j \in Labels /\ j \in DOMAIN d
      /\ ToSet(N[id].kids) \subseteq DOMAIN N \cup {}
  BY WholeIn
<1> DEFINE W == Shape(r, d, d, h, 0)  e == With(d, x, v)  V == Shape(r, e, d, h, l)  M == Held(r, d, h, l, k)
           n == N[id]  i == BisectLeft(n, x)  m == Insert(n, x, v)
           f == IF l = 0 THEN m ELSE [m EXCEPT !.kids = InsertAt(@, i + 2, step)]
           hole == IF l = 0 THEN {} ELSE {step}
<1>1. /\ l \in 0 .. h /\ k \in Nat /\ k \in Tops(r, d, h, l)
      /\ Spells(n, M, d, l, k)
      /\ \A j \in M : j \in Nat /\ k < j /\ j \in Labels /\ j \in DOMAIN d
      /\ ToSet(n.kids) \subseteq DOMAIN N \cup {}
  BY <1>0
<1>2. DOMAIN e = DOMAIN d \cup {x} /\ (\A j \in DOMAIN d : e[j] = d[j]) /\ e[x] = v
  BY DEF With
<1>3. IsMap(e)
  BY <1>2 DEF IsMap
<1>4. x \in Nat /\ l \in Nat
  BY <1>1, HirbAssumption
<1>5. /\ m \in NodeRecs /\ Increasing(m.keys) /\ Len(m.vals) = Len(m.keys) /\ m.kids = n.kids
      /\ Spells(f, M \cup {x}, e, l, k)
      /\ l # 0 => ToSet(f.kids) = ToSet(n.kids) \cup {step} /\ i + 1 \in 1 .. Len(f.kids) /\ f.kids[i + 1] = n.kids[i + 1]
  <2> DEFINE g == [m EXCEPT !.kids = InsertAt(@, i + 2, step)]
  <2>1. x \in Labels \ M /\ M \subseteq DOMAIN d
    BY <1>1
  <2>2. /\ m \in NodeRecs /\ Increasing(m.keys) /\ Len(m.vals) = Len(m.keys) /\ m.kids = n.kids
        /\ l = 0 => Spells(m, M \cup {x}, e, l, k)
        /\ l # 0 => /\ Spells(g, M \cup {x}, e, l, k)
                    /\ ToSet(g.kids) = ToSet(n.kids) \cup {step}
                    /\ i + 1 \in 1 .. Len(g.kids) /\ g.kids[i + 1] = n.kids[i + 1]
    <3>1. Inserted(n, M, d, l, k, x, v, step)
      <4> HIDE DEF M, n
      <4>. QED
        BY <1>1, <2>1, SpellsInsert
    <3> HIDE DEF M, n
    <3>. QED
      BY <3>1 DEF Inserted
  <2>3. f = IF l = 0 THEN m ELSE g
    OBVIOUS
  <2> HIDE DEF f, g, m, n, i, e, M
  <2>4. CASE l = 0
    BY <2>2, <2>3, <2>4
  <2>5. CASE l # 0
    BY <2>2, <2>3, <2>5
  <2>. QED
    BY <2>4, <2>5
<1>6. i \in Nat
  <2> HIDE DEF M, n
  <2>1. i \in 0 .. Len(n.keys)
    BY <1>1, <1>4, SpellsSearch
  <2>. QED
    BY <2>1
<1>7. l # 0 => Pred(f.kids[i + 1].left, Tops(r, d, h, l - 1), x)
  <2> SUFFICES ASSUME l # 0 PROVE Pred(n.kids[i + 1].left, Tops(r, d, h, l - 1), x)
    BY <1>5
  <2>1. k \in Nat /\ Spells(n, Held(r, d, h, l, k), d, l, k)
    BY <1>1
  <2> HIDE DEF n
  <2>. QED
    BY <1>4, <2>1, ChildDown
<1>8. OneApart(r, e, d, h, l, <<l, k>>) /\ Tops(r, e, h, l) = Tops(r, d, h, l) /\ Held(r, e, h, l, k) = M \cup {x}
  <2> HIDE DEF e
  <2>1. ASSUME NEW j \in 0 .. h, j >= l
        PROVE  /\ Tops(r, e, h, j) = Tops(r, d, h, j)
               /\ j > l => \A a \in Tops(r, d, h, j) : Held(r, e, h, j, a) = Held(r, d, h, j, a)
               /\ j = l => \A a \in Tops(r, d, h, j) :
                     Held(r, e, h, j, a) = IF Pred(a, Tops(r, d, h, j), x) THEN Held(r, d, h, j, a) \cup {x}
                                           ELSE Held(r, d, h, j, a)
    <3>1. j \in Nat
      OBVIOUS
    <3>2. DOMAIN e = DOMAIN d \cup {x} /\ x \in Labels \ DOMAIN d
      BY <1>2
    <3> HIDE DEF M
    <3>3. /\ j >= Rank(r, x, h) => Tops(r, e, h, j) = Tops(r, d, h, j)
          /\ j > Rank(r, x, h) => \A a \in Tops(r, d, h, j) : Held(r, e, h, j, a) = Held(r, d, h, j, a)
          /\ j = Rank(r, x, h) => \A a \in Tops(r, d, h, j) :
                Held(r, e, h, j, a) = IF Pred(a, Tops(r, d, h, j), x) THEN Held(r, d, h, j, a) \cup {x}
                                      ELSE Held(r, d, h, j, a)
      <4>1. Levels(r, h, d, e, x, j)
        BY <3>1, <3>2, LevelsWith
      <4>. QED
        BY <4>1 DEF Levels
    <3>. QED
      BY <2>1, <3>3
  <2>2. Tops(r, d, h, l) \subseteq Nat
    BY <1>4, TopsFacts
  <2>3. \A a : Pred(a, Tops(r, d, h, l), x) => a = k
    BY <2>2, PredIsOne
  <2>4. \A j, a : \A y \in Held(r, d, h, j, a) : y \in DOMAIN d
    BY DEF Held
  <2>5. l >= l
    BY <1>4
  <2>6. ASSUME NEW j \in 0 .. h, j >= l, NEW a \in Tops(r, d, h, j), <<j, a>> # <<l, k>>
        PROVE  Held(r, e, h, j, a) = Held(r, d, h, j, a)
    <3>1. j > l \/ j = l
      BY <1>4, <2>6
    <3>2. j = l => a # k
      BY <2>6
    <3>. QED
      BY <2>1, <2>3, <2>6, <3>1, <3>2
  <2>7. OneApart(r, e, d, h, l, <<l, k>>)
    BY <1>2, <2>1, <2>4, <2>6 DEF OneApart
  <2>. QED
    BY <1>1, <2>1, <2>5, <2>7
<1> HIDE DEF e, f, n, m
<1> DEFINE p == <<l, k>>
<1>9. DOMAIN V = DOMAIN W /\ \A q \in DOMAIN W : q # p => V[q] = W[q]
  <2> HIDE DEF p
  <2>1. OneApart(r, e, d, h, l, p)
    BY <1>8 DEF p
  <2>. QED
    BY <1>3, <1>4, <2>1, ShapeFrom
<1>10. Fits(f, V, <<l, k>>)
  <2>1. l >= l /\ k \in Tops(r, e, h, l) /\ Spells(f, Held(r, e, h, l, k), e, l, k)
    BY <1>1, <1>4, <1>5, <1>8
  <2>. QED
    BY <1>1, <1>3, <1>4, <2>1, FitsAt
<1>11. Tree(With(N, id, f), h, V, hole)
  <2> HIDE DEF V, W
  <2>1. ToSet(f.kids) \subseteq DOMAIN N \cup hole
    <3>1. CASE l = 0
      <4>1. f.kids = n.kids
        BY <1>5, <3>1 DEF f
      <4>. QED
        BY <1>1, <4>1
    <3>2. CASE l # 0
      BY <1>1, <1>5, <3>2
    <3>. QED
      BY <3>1, <3>2
  <2> HIDE DEF hole
  <2>2. Fits(f, V, Spot(id, h))
    BY <1>10
  <2>3. \A q \in DOMAIN W : q # Spot(id, h) => V[q] = W[q]
    BY <1>9
  <2>4. Tree(N, h, W, {})
    BY DEF W
  <2>. QED
    BY <1>9, <2>1, <2>2, <2>3, <2>4, TreeReplace
<1>. QED
  BY <1>5, <1>6, <1>7, <1>11 DEF TreeInserts, IsNodeRec, e, f, n, m

\* A label leaves its node.
TreeDeletes(r, h, d, N, id, x, l) ==
    LET n == N[id]
        i == BisectLeft(n, x)
        m == Delete(n, x)
        f == IF l = 0 THEN m ELSE [m EXCEPT !.kids = RemoveAt(@, i + 2)]
    IN  /\ Tree(With(N, id, f), h, Shape(r, Without(d, x), d, h, l), {})
        /\ IsNodeRec(m) /\ i \in Nat
        /\ l # 0 => /\ i + 1 \in 1 .. Len(f.kids)
                    /\ Pred(f.kids[i + 1].left, Tops(r, d, h, l - 1), x)
                    /\ n.kids[i + 2] \in DOMAIN N /\ IsAt(n.kids[i + 2], l - 1, x)

LEMMA TreeDelete ==
  ASSUME NEW r \in [Labels -> Nat], NEW h \in Nat, NEW d, IsMap(d),
         NEW N, Tree(N, h, Shape(r, d, d, h, 0), {}), NEW id \in DOMAIN N,
         NEW x \in Labels, NEW l \in Nat, l = Rank(r, x, h),
         NEW k, Spot(id, h) = <<l, k>>, Pred(k, Tops(r, d, h, l), x), x \in Held(r, d, h, l, k)
  PROVE  TreeDeletes(r, h, d, N, id, x, l)
<1>0. /\ l \in 0 .. h /\ k \in Nat /\ k \in Tops(r, d, h, l)
      /\ Spells(N[id], Held(r, d, h, l, k), d, l, k)
      /\ \A j \in Held(r, d, h, l, k) : j \in Nat /\ k < j /\ j \in Labels /\ j \in DOMAIN d
      /\ ToSet(N[id].kids) \subseteq DOMAIN N \cup {}
  BY WholeIn
<1> DEFINE W == Shape(r, d, d, h, 0)  e == Without(d, x)  V == Shape(r, e, d, h, l)  M == Held(r, d, h, l, k)
           n == N[id]  i == BisectLeft(n, x)  m == Delete(n, x)
           f == IF l = 0 THEN m ELSE [m EXCEPT !.kids = RemoveAt(@, i + 2)]
<1>1. /\ l \in 0 .. h /\ k \in Nat /\ k \in Tops(r, d, h, l)
      /\ Spells(n, M, d, l, k)
      /\ \A j \in M : j \in Nat /\ k < j /\ j \in Labels /\ j \in DOMAIN d
      /\ ToSet(n.kids) \subseteq DOMAIN N \cup {}
  BY <1>0
<1>2. DOMAIN d = DOMAIN e \cup {x} /\ x \notin DOMAIN e /\ DOMAIN e \subseteq DOMAIN d /\ \A j \in DOMAIN e : e[j] = d[j]
  BY <1>1 DEF Without
<1>3. IsMap(e)
  BY <1>2 DEF IsMap
<1>4. x \in Nat /\ l \in Nat
  BY <1>1, HirbAssumption
<1>5. /\ m \in NodeRecs /\ Increasing(m.keys) /\ Len(m.vals) = Len(m.keys) /\ m.kids = n.kids
      /\ Spells(f, M \ {x}, e, l, k)
      /\ l # 0 => /\ ToSet(f.kids) \subseteq ToSet(n.kids) /\ i + 1 \in 1 .. Len(f.kids) /\ f.kids[i + 1] = n.kids[i + 1]
                  /\ n.kids[i + 2] \in ToSet(n.kids) /\ IsAt(n.kids[i + 2], l - 1, x)
  <2> DEFINE g == [m EXCEPT !.kids = RemoveAt(@, i + 2)]
  <2>1. x \in M /\ M \subseteq DOMAIN d /\ \A j \in M : k < j
    BY <1>1
  <2>2. /\ m \in NodeRecs /\ Increasing(m.keys) /\ Len(m.vals) = Len(m.keys) /\ m.kids = n.kids
        /\ l = 0 => Spells(m, M \ {x}, e, l, k)
        /\ l # 0 => /\ Spells(g, M \ {x}, e, l, k)
                    /\ n.kids[i + 2] \in ToSet(n.kids) /\ IsAt(n.kids[i + 2], l - 1, x)
                    /\ ToSet(g.kids) = ToSet(n.kids) \ {n.kids[i + 2]}
                    /\ i + 1 \in 1 .. Len(g.kids) /\ g.kids[i + 1] = n.kids[i + 1]
    <3>1. Deleted(n, M, d, l, k, x)
      <4> HIDE DEF M, n
      <4>. QED
        BY <1>1, <2>1, SpellsDelete
    <3> HIDE DEF M, n
    <3>. QED
      BY <3>1 DEF Deleted
  <2>3. f = IF l = 0 THEN m ELSE g
    OBVIOUS
  <2> HIDE DEF f, g, m, n, i, e, M
  <2>4. CASE l = 0
    BY <2>2, <2>3, <2>4
  <2>5. CASE l # 0
    BY <2>2, <2>3, <2>5
  <2>. QED
    BY <2>4, <2>5
<1>6. i \in Nat
  <2> HIDE DEF M, n
  <2>1. i \in 0 .. Len(n.keys)
    BY <1>1, <1>4, SpellsSearch
  <2>. QED
    BY <2>1
<1>7. l # 0 => Pred(f.kids[i + 1].left, Tops(r, d, h, l - 1), x)
  <2> SUFFICES ASSUME l # 0 PROVE Pred(n.kids[i + 1].left, Tops(r, d, h, l - 1), x)
    BY <1>5
  <2>1. k \in Nat /\ Spells(n, Held(r, d, h, l, k), d, l, k)
    BY <1>1
  <2> HIDE DEF n
  <2>. QED
    BY <1>4, <2>1, ChildDown
<1>8. OneApart(r, e, d, h, l, <<l, k>>) /\ Tops(r, e, h, l) = Tops(r, d, h, l) /\ Held(r, e, h, l, k) = M \ {x}
  <2> HIDE DEF e
  <2>1. ASSUME NEW j \in 0 .. h, j >= l
        PROVE  /\ Tops(r, d, h, j) = Tops(r, e, h, j)
               /\ j > l => \A a \in Tops(r, e, h, j) : Held(r, d, h, j, a) = Held(r, e, h, j, a)
               /\ j = l => \A a \in Tops(r, e, h, j) :
                     Held(r, d, h, j, a) = IF Pred(a, Tops(r, e, h, j), x) THEN Held(r, e, h, j, a) \cup {x}
                                           ELSE Held(r, e, h, j, a)
    <3>1. j \in Nat
      OBVIOUS
    <3>2. DOMAIN d = DOMAIN e \cup {x} /\ x \in Labels \ DOMAIN e
      BY <1>2
    <3> HIDE DEF M
    <3>3. /\ j >= Rank(r, x, h) => Tops(r, d, h, j) = Tops(r, e, h, j)
          /\ j > Rank(r, x, h) => \A a \in Tops(r, e, h, j) : Held(r, d, h, j, a) = Held(r, e, h, j, a)
          /\ j = Rank(r, x, h) => \A a \in Tops(r, e, h, j) :
                Held(r, d, h, j, a) = IF Pred(a, Tops(r, e, h, j), x) THEN Held(r, e, h, j, a) \cup {x}
                                      ELSE Held(r, e, h, j, a)
      <4>1. Levels(r, h, e, d, x, j)
        BY <1>3, <3>1, <3>2, LevelsWith
      <4>. QED
        BY <4>1 DEF Levels
    <3>. QED
      BY <2>1, <3>3
  <2>2. Tops(r, d, h, l) \subseteq Nat
    BY <1>4, TopsFacts
  <2>3. \A a : Pred(a, Tops(r, d, h, l), x) => a = k
    BY <2>2, PredIsOne
  <2>4. \A j, a : \A y \in Held(r, e, h, j, a) : y \in DOMAIN e
    BY DEF Held
  <2>5. l >= l
    BY <1>4
  <2>6. ASSUME NEW j \in 0 .. h, j >= l, NEW a \in Tops(r, d, h, j), <<j, a>> # <<l, k>>
        PROVE  Held(r, e, h, j, a) = Held(r, d, h, j, a)
    <3>1. j > l \/ j = l
      BY <1>4, <2>6
    <3>2. j = l => a # k
      BY <2>6
    <3>. QED
      BY <2>1, <2>3, <2>6, <3>1, <3>2
  <2>7. OneApart(r, e, d, h, l, <<l, k>>)
    BY <1>2, <2>1, <2>4, <2>6 DEF OneApart
  <2>8. x \notin Held(r, e, h, l, k)
    BY <1>2, <2>4
  <2>. QED
    BY <1>1, <2>1, <2>5, <2>7, <2>8
<1> HIDE DEF e, f, n, m
<1> DEFINE p == <<l, k>>
<1>9. DOMAIN V = DOMAIN W /\ \A q \in DOMAIN W : q # p => V[q] = W[q]
  <2> HIDE DEF p
  <2>1. OneApart(r, e, d, h, l, p)
    BY <1>8 DEF p
  <2>. QED
    BY <1>3, <1>4, <2>1, ShapeFrom
<1>10. Fits(f, V, <<l, k>>)
  <2>1. l >= l /\ k \in Tops(r, e, h, l) /\ Spells(f, Held(r, e, h, l, k), e, l, k)
    BY <1>1, <1>4, <1>5, <1>8
  <2>. QED
    BY <1>1, <1>3, <1>4, <2>1, FitsAt
<1>11. Tree(With(N, id, f), h, V, {})
  <2> HIDE DEF V, W
  <2>1. ToSet(f.kids) \subseteq DOMAIN N \cup {}
    <3>1. CASE l = 0
      <4>1. f.kids = n.kids
        BY <1>5, <3>1 DEF f
      <4>. QED
        BY <1>1, <4>1
    <3>2. CASE l # 0
      BY <1>1, <1>5, <3>2
    <3>. QED
      BY <3>1, <3>2
  <2>2. Fits(f, V, Spot(id, h))
    BY <1>10
  <2>3. \A q \in DOMAIN W : q # Spot(id, h) => V[q] = W[q]
    BY <1>9
  <2>4. Tree(N, h, W, {})
    BY DEF W
  <2>. QED
    BY <1>9, <2>1, <2>2, <2>3, <2>4, TreeReplace
<1>12. l # 0 => n.kids[i + 2] \in DOMAIN N /\ IsAt(n.kids[i + 2], l - 1, x)
  BY <1>1, <1>5
<1>. QED
  BY <1>5, <1>6, <1>7, <1>11, <1>12 DEF TreeDeletes, IsNodeRec, e, f, n, m

LEMMA NoKids ==
  ASSUME NEW n, NEW M, NEW d, NEW left, Spells(n, M, d, 0, left)
  PROVE  ToSet(n.kids) = {}
<1>1. n.kids = << >>
  BY DEF Spells
<1>. QED
  BY <1>1 DEF ToSet

LEMMA IsNodeSpelt ==
  ASSUME NEW n, NEW M, NEW d, NEW l, NEW left, Spells(n, M, d, l, left)
  PROVE  IsNodeRec(n) /\ Len(n.keys) \in Nat
  BY SpellsFacts DEF Spells, IsNodeRec

\* The child that a new label falls into becomes two nodes.
TreeSplits(r, h, d, e, x, N, id, step, next, b) ==
    LET n == N[id]
        left == SplitLeft(n, x)
        right == SplitRight(n, x)
        f == IF b = 0 THEN right ELSE [right EXCEPT !.kids[1] = next]
    IN  /\ Tree(With(With(N, id, left), step, f), h, Shape(r, e, d, h, b), IF b = 0 THEN {} ELSE {next})
        /\ step \notin DOMAIN N /\ IsNodeRec(left) /\ IsNodeRec(right) /\ Len(left.keys) \in Nat
        /\ b # 0 => /\ Len(left.keys) + 1 \in 1 .. Len(left.kids)
                    /\ Pred(left.kids[Len(left.keys) + 1].left, Tops(r, d, h, b - 1), x)

LEMMA TreeSplit ==
  ASSUME NEW r \in [Labels -> Nat], NEW h \in Nat, NEW d, IsMap(d), NEW x \in Labels, x \notin DOMAIN d,
         NEW e, DOMAIN e = DOMAIN d \cup {x}, \A j \in DOMAIN d : e[j] = d[j],
         NEW b \in Nat, b < Rank(r, x, h), NEW step \in Ids, IsAt(step, b, x),
         NEW N, Tree(N, h, Shape(r, e, d, h, b + 1), {step}), NEW id \in DOMAIN N,
         NEW k, Spot(id, h) = <<b, k>>, Pred(k, Tops(r, d, h, b), x), NEW next, StepAt(next, b, x)
  PROVE  TreeSplits(r, h, d, e, x, N, id, step, next, b)
<1> DEFINE W == Shape(r, e, d, h, b + 1)  V == Shape(r, e, d, h, b)  M == Held(r, d, h, b, k)  S == Tops(r, d, h, b)
           n == N[id]  P == SplitLeft(n, x)  Q == SplitRight(n, x)
           f == IF b = 0 THEN Q ELSE [Q EXCEPT !.kids[1] = next]
           hole == IF b = 0 THEN {} ELSE {next}
<1>1. x \in Nat /\ x # 0 /\ IsMap(e) /\ Rank(r, x, h) \in 0 .. h
  BY RankIn, HirbAssumption DEF IsMap
<1>2. b + 1 \in 1 .. h /\ b \in 0 .. h /\ b < h /\ ~(b >= b + 1) /\ b >= b
  BY <1>1
<1>3. /\ k \in Nat /\ k \in S /\ <<b, k>> \in DOMAIN W
      /\ Spells(n, M, d, b, k)
      /\ \A j \in M : j \in Nat /\ k < j /\ j \in Labels /\ j \in DOMAIN d
      /\ ToSet(n.kids) \subseteq DOMAIN N \cup {step}
  <2> DEFINE c == b + 1
  <2>1. c \in Nat /\ ~(b >= c) /\ Tree(N, h, Shape(r, e, d, h, c), {step})
    BY <1>2
  <2> HIDE DEF c
  <2>2. /\ k \in Nat /\ k \in S /\ <<b, k>> \in DOMAIN Shape(r, e, d, h, c)
        /\ Spells(n, M, d, b, k)
        /\ \A j \in M : j \in Nat /\ k < j /\ j \in Labels /\ j \in DOMAIN d
        /\ ToSet(n.kids) \subseteq DOMAIN N \cup {step}
    BY <1>1, <2>1, NodeIn
  <2>. QED
    BY <2>2 DEF c
<1>4. Levels(r, h, d, e, x, b)
  BY LevelsWith
<1>5. /\ Tops(r, e, h, b) = S \cup {x} /\ x \notin S
      /\ Held(r, e, h, b, k) = {j \in M : j < x} /\ Held(r, e, h, b, x) = {j \in M : j > x}
      /\ \A a \in S : a # k => Held(r, e, h, b, a) = Held(r, d, h, b, a)
  <2>1. S \subseteq Nat
    BY TopsFacts
  <2>2. \A a : Pred(a, S, x) => a = k
    BY <2>1, PredIsOne
  <2>. QED
    BY <1>3, <1>4, <2>2 DEF Levels
<1>6. k < x
  BY DEF Pred
<1>7. LeftOf(n, M, d, b, k, x) /\ RightOf(n, M, d, b, k, x, next)
  <2> HIDE DEF n, M
  <2>. QED
    BY <1>1, <1>3, <1>6, SpellsLeft, SpellsRight
<1>8. /\ Spells(P, {j \in M : j < x}, d, b, k)
      /\ ToSet(P.kids) \subseteq ToSet(n.kids)
      /\ b # 0 => /\ Len(P.keys) + 1 \in 1 .. Len(P.kids)
                  /\ P.kids[Len(P.keys) + 1] = n.kids[BisectLeft(n, x) + 1]
  <2>1. /\ Spells(P, {j \in M : j < x}, d, b, k)
        /\ b # 0 => /\ ToSet(P.kids) \subseteq ToSet(n.kids)
                    /\ Len(P.keys) + 1 \in 1 .. Len(P.kids)
                    /\ P.kids[Len(P.keys) + 1] = n.kids[BisectLeft(n, x) + 1]
    BY <1>7 DEF LeftOf
  <2> HIDE DEF P, n, M
  <2>2. b = 0 => ToSet(P.kids) = {}
    BY <2>1, NoKids
  <2>. QED
    BY <2>1, <2>2
<1>9. /\ IsNodeRec(Q) /\ Spells(f, {j \in M : j > x}, d, b, x)
      /\ ToSet(f.kids) \subseteq {c \in ToSet(n.kids) : c.left > x} \cup hole
  <2> DEFINE g == [Q EXCEPT !.kids[1] = next]
  <2>1. /\ IsNodeRec(Q)
        /\ b = 0 => Spells(Q, {j \in M : j > x}, d, b, x)
        /\ b # 0 => Spells(g, {j \in M : j > x}, d, b, x)
        /\ b # 0 => ToSet(g.kids) = {c \in ToSet(n.kids) : c.left > x} \cup {next}
    BY <1>7 DEF RightOf, IsNodeRec
  <2>2. f = IF b = 0 THEN Q ELSE g
    OBVIOUS
  <2> HIDE DEF Q, g, n, M, f
  <2>3. b = 0 => ToSet(Q.kids) = {}
    BY <2>1, NoKids
  <2>. QED
    BY <2>1, <2>2, <2>3
<1>10. IsNodeRec(P) /\ Len(P.keys) \in Nat
  <2> HIDE DEF P, M
  <2>. QED
    BY <1>8, IsNodeSpelt
<1>11. b # 0 => Pred(P.kids[Len(P.keys) + 1].left, Tops(r, d, h, b - 1), x)
  <2> SUFFICES ASSUME b # 0 PROVE Pred(n.kids[BisectLeft(n, x) + 1].left, Tops(r, d, h, b - 1), x)
    BY <1>8
  <2> HIDE DEF n
  <2>. QED
    BY <1>1, <1>3, ChildDown
<1>12. Spells(P, Held(r, e, h, b, k), e, b, k) /\ Spells(f, Held(r, e, h, b, x), e, b, x)
  <2> DEFINE L == {j \in M : j < x}  R == {j \in M : j > x}
  <2>1. (\A j \in L : d[j] = e[j]) /\ (\A j \in R : d[j] = e[j])
    BY <1>3
  <2>2. Spells(P, L, d, b, k) /\ Spells(f, R, d, b, x) /\ Held(r, e, h, b, k) = L /\ Held(r, e, h, b, x) = R
    BY <1>5, <1>8, <1>9
  <2> HIDE DEF L, R, P, f
  <2>. QED
    BY <2>1, <2>2, SpellsOther
<1> HIDE DEF P, Q, n, f
<1>13. Fits(P, V, <<b, k>>) /\ Fits(f, V, <<b, x>>) /\ <<b, x>> \in DOMAIN V
  <2>1. k \in Tops(r, e, h, b) /\ x \in Tops(r, e, h, b)
    BY <1>3, <1>5
  <2>2. Fits(P, V, <<b, k>>)
    BY <1>1, <1>2, <1>12, <2>1, FitsAt
  <2>3. Fits(f, V, <<b, x>>)
    BY <1>1, <1>2, <1>12, <2>1, FitsAt
  <2>4. <<b, x>> \in DOMAIN V
    BY <1>1, <1>2, <2>1, ShapeIn
  <2>. QED
    BY <2>2, <2>3, <2>4
<1>14. /\ DOMAIN V = DOMAIN W \cup {<<b, x>>} /\ <<b, x>> \notin DOMAIN W
       /\ \A q \in DOMAIN W : q # <<b, k>> => V[q] = W[q]
  <2> DEFINE c == b + 1
  <2>1. c \in 1 .. h /\ c - 1 = b
    BY <1>2
  <2> HIDE DEF c
  <2>2. Narrowed(r, h, e, d, c, b)
    BY <1>1, <2>1, ShapeDown
  <2>3. /\ \A q : q[1] # b => (q \in DOMAIN W <=> q \in DOMAIN V)
        /\ \A q \in DOMAIN W : q[1] # b => V[q] = W[q]
        /\ \A q \in DOMAIN W : q[1] = b => q = <<b, q[2]>> /\ q[2] \in S
        /\ \A q \in DOMAIN V : q[1] = b => q = <<b, q[2]>> /\ q[2] \in Tops(r, e, h, b)
        /\ \A a \in S : <<b, a>> \in DOMAIN W /\ W[<<b, a>>] = Content(r, d, h, b, a)
        /\ \A a \in Tops(r, e, h, b) : <<b, a>> \in DOMAIN V /\ V[<<b, a>>] = Content(r, e, h, b, a)
    BY <2>2 DEF c, Narrowed
  <2> HIDE DEF V, W
  <2>4. ASSUME NEW a \in S, a # k PROVE Content(r, e, h, b, a) = Content(r, d, h, b, a)
    <3>1. Held(r, e, h, b, a) = Held(r, d, h, b, a) /\ \A j \in Held(r, d, h, b, a) : j \in DOMAIN d
      BY <1>5, <2>4 DEF Held
    <3>2. \A j \in Held(r, d, h, b, a) : e[j] = d[j]
      BY <3>1
    <3>. QED
      BY <3>1, <3>2 DEF Content
  <2>5. \A q \in DOMAIN W : q # <<b, k>> => V[q] = W[q]
    <3> SUFFICES ASSUME NEW q \in DOMAIN W, q # <<b, k>>, q[1] = b PROVE V[q] = W[q]
      BY <2>3
    <3>1. q = <<b, q[2]>> /\ q[2] \in S /\ q[2] \in Tops(r, e, h, b)
      BY <1>5, <2>3
    <3> DEFINE a == q[2]
    <3>2. a # k /\ a \in S /\ a \in Tops(r, e, h, b) /\ q = <<b, a>>
      BY <3>1
    <3> HIDE DEF a
    <3>. QED
      BY <2>3, <2>4, <3>2
  <2>6. ASSUME NEW q PROVE q \in DOMAIN V <=> q \in DOMAIN W \/ q = <<b, x>>
    <3>1. <<b, x>>[1] = b /\ <<b, x>>[2] = x
      OBVIOUS
    <3>2. CASE q[1] # b
      BY <2>3, <3>1, <3>2
    <3>3. CASE q[1] = b
      <4>1. q \in DOMAIN W => q \in DOMAIN V
        <5> SUFFICES ASSUME q \in DOMAIN W PROVE q \in DOMAIN V
          OBVIOUS
        <5> DEFINE a == q[2]
        <5>1. q = <<b, a>> /\ a \in Tops(r, e, h, b)
          BY <1>5, <2>3, <3>3
        <5> HIDE DEF a
        <5>. QED
          BY <2>3, <5>1
      <4>2. q \in DOMAIN V => q \in DOMAIN W \/ q = <<b, x>>
        <5> SUFFICES ASSUME q \in DOMAIN V PROVE q \in DOMAIN W \/ q = <<b, x>>
          OBVIOUS
        <5> DEFINE a == q[2]
        <5>1. q = <<b, a>> /\ (a \in S \/ a = x)
          BY <1>5, <2>3, <3>3
        <5> HIDE DEF a
        <5>. QED
          BY <2>3, <5>1
      <4>. QED
        BY <1>13, <4>1, <4>2 DEF V
    <3>. QED
      BY <3>2, <3>3
  <2>7. <<b, x>> \notin DOMAIN W
    <3> DEFINE q == <<b, x>>
    <3>1. q[1] = b /\ q[2] = x
      OBVIOUS
    <3> HIDE DEF q
    <3>2. q \notin DOMAIN W
      BY <1>5, <2>3, <3>1
    <3>. QED
      BY <3>2 DEF q
  <2>. QED
    BY <2>5, <2>6, <2>7
<1> DEFINE U == [q \in DOMAIN W |-> V[q]]  O == With(N, id, P)
<1>15. Tree(O, h, U, {step})
  <2>1. Tree(N, h, W, {step})
    OBVIOUS
  <2> HIDE DEF V, W
  <2>2. DOMAIN U = DOMAIN W /\ \A q \in DOMAIN W : q # Spot(id, h) => U[q] = W[q]
    BY <1>14
  <2>3. Fits(P, U, Spot(id, h))
    <3> DEFINE p == <<b, k>>
    <3>1. U[p] = V[p] /\ Fits(P, V, p)
      BY <1>3, <1>13 DEF W
    <3> HIDE DEF p, U
    <3>2. Fits(P, U, p)
      BY <3>1 DEF Fits
    <3>. QED
      BY <3>2 DEF p
  <2>4. ToSet(P.kids) \subseteq DOMAIN N \cup {step}
    BY <1>3, <1>8
  <2> DEFINE G == {step}
  <2>5. Tree(N, h, W, G) /\ G \subseteq G /\ ToSet(P.kids) \subseteq DOMAIN N \cup G
    BY <2>1, <2>4
  <2> HIDE DEF U, G
  <2>6. Tree(With(N, id, P), h, U, G)
    BY <2>2, <2>3, <2>5, TreeReplace
  <2>. QED
    BY <2>6 DEF G
<1>16. step # NoId /\ Spot(step, h) = <<b, x>> /\ step.level < h
  BY <1>2, NoIdIsNone DEF Spot, IsAt
<1>17. Tree(With(O, step, f), h, V, hole) /\ step \notin DOMAIN O
  <2>0. DOMAIN O = DOMAIN N
    BY DEF With
  <2>1. ToSet(f.kids) \subseteq DOMAIN O \cup hole
    <3>1. ASSUME NEW c \in ToSet(n.kids), c.left > x PROVE c \in DOMAIN O
      <4>1. step.left = x /\ ~(x > x)
        BY <1>1 DEF IsAt
      <4>. QED
        BY <1>3, <2>0, <3>1, <4>1
    <3>. QED
      BY <1>9, <3>1
  <2>2. Adds(U, V, Spot(step, h))
    BY <1>14, <1>16 DEF Adds
  <2>4. Fits(f, V, Spot(step, h))
    BY <1>13, <1>16
  <2> DEFINE G == {step}
  <2>5. Tree(O, h, U, G) /\ G \subseteq hole \cup {step}
    BY <1>15
  <2> HIDE DEF U, G, O, V, hole
  <2>. QED
    BY <1>16, <2>1, <2>2, <2>4, <2>5, TreeAdd
<1>18. step \notin DOMAIN N
  BY <1>17 DEF With
<1>. QED
  BY <1>8, <1>9, <1>10, <1>11, <1>17, <1>18 DEF TreeSplits, P, Q, n, f

\* The two nodes that a label kept apart become one.
TreeMerges(r, h, d, e, x, N, id, sd, b) ==
    LET n == N[id]
        s == N[sd]
        m == Merge(n, s)
    IN  /\ Tree(With(Without(N, sd), id, m), h, Shape(r, e, d, h, b), {})
        /\ IsNodeRec(m) /\ IsNodeRec(s) /\ Len(n.keys) \in Nat /\ id # sd
        /\ b # 0 => /\ Len(n.keys) + 1 \in 1 .. Len(m.kids)
                    /\ Pred(m.kids[Len(n.keys) + 1].left, Tops(r, d, h, b - 1), x)
                    /\ s.kids[1] \in DOMAIN N /\ IsAt(s.kids[1], b - 1, x)

LEMMA TreeMerge ==
  ASSUME NEW r \in [Labels -> Nat], NEW h \in Nat, NEW d, IsMap(d), NEW x \in Labels,
         NEW e, DOMAIN d = DOMAIN e \cup {x}, x \notin DOMAIN e, \A j \in DOMAIN e : e[j] = d[j],
         NEW b \in Nat, b < Rank(r, x, h),
         NEW N, Tree(N, h, Shape(r, e, d, h, b + 1), {}), NEW id \in DOMAIN N,
         NEW k, Spot(id, h) = <<b, k>>, Pred(k, Tops(r, d, h, b), x),
         NEW sd \in DOMAIN N, sd # NoId, IsAt(sd, b, x)
  PROVE  TreeMerges(r, h, d, e, x, N, id, sd, b)
<1> DEFINE W == Shape(r, e, d, h, b + 1)  V == Shape(r, e, d, h, b)  S == Tops(r, d, h, b)
           n == N[id]  s == N[sd]  m == Merge(n, s)  L == Held(r, d, h, b, k)  R == Held(r, d, h, b, x)
<1>1. x \in Nat /\ x # 0 /\ IsMap(e) /\ Rank(r, x, h) \in 0 .. h
  BY RankIn, HirbAssumption DEF IsMap
<1>2. b + 1 \in 1 .. h /\ b \in 0 .. h /\ b < h /\ ~(b >= b + 1) /\ b >= b
  BY <1>1
<1>3. Spot(sd, h) = <<b, x>>
  BY DEF Spot, IsAt
<1>4. /\ k \in Nat /\ k \in S /\ <<b, k>> \in DOMAIN W
      /\ Spells(n, L, d, b, k)
      /\ \A j \in L : j \in Nat /\ k < j /\ j \in Labels /\ j \in DOMAIN d
      /\ ToSet(n.kids) \subseteq DOMAIN N
      /\ x \in S /\ <<b, x>> \in DOMAIN W
      /\ Spells(s, R, d, b, x)
      /\ \A j \in R : j \in Nat /\ x < j /\ j \in Labels /\ j \in DOMAIN d
      /\ ToSet(s.kids) \subseteq DOMAIN N
  <2> DEFINE c == b + 1  G == {}
  <2>1. c \in Nat /\ ~(b >= c) /\ Tree(N, h, Shape(r, e, d, h, c), G)
    BY <1>2
  <2> HIDE DEF c, G
  <2>2. /\ k \in Nat /\ k \in S /\ <<b, k>> \in DOMAIN Shape(r, e, d, h, c)
        /\ Spells(n, L, d, b, k)
        /\ \A j \in L : j \in Nat /\ k < j /\ j \in Labels /\ j \in DOMAIN d
        /\ ToSet(n.kids) \subseteq DOMAIN N \cup G
    BY <1>1, <2>1, NodeIn, SMTT(30)
  <2>3. /\ x \in S /\ <<b, x>> \in DOMAIN Shape(r, e, d, h, c)
        /\ Spells(s, R, d, b, x)
        /\ \A j \in R : j \in Nat /\ x < j /\ j \in Labels /\ j \in DOMAIN d
        /\ ToSet(s.kids) \subseteq DOMAIN N \cup G
    BY <1>1, <1>3, <2>1, NodeIn, SMTT(30)
  <2>. QED
    BY <2>2, <2>3 DEF c, G
<1>5. Levels(r, h, e, d, x, b)
  BY <1>1, LevelsWith
<1>6. k < x
  BY DEF Pred
<1>7. /\ S = Tops(r, e, h, b) \cup {x} /\ x \notin Tops(r, e, h, b) /\ k \in Tops(r, e, h, b)
      /\ L = {j \in Held(r, e, h, b, k) : j < x} /\ R = {j \in Held(r, e, h, b, k) : j > x}
      /\ \A a \in Tops(r, e, h, b) : a # k => Held(r, d, h, b, a) = Held(r, e, h, b, a)
  <2> DEFINE T == Tops(r, e, h, b)
  <2>1. T \subseteq Nat
    BY <1>1, TopsFacts
  <2>2. \A a : Pred(a, T, x) => a = k
    <3> SUFFICES ASSUME NEW a, Pred(a, T, x) PROVE a = k
      OBVIOUS
    <3>1. S = T \cup {x}
      BY <1>5 DEF Levels
    <3>2. k \in T
      BY <1>1, <1>4, <1>6, <3>1
    <3>3. Pred(k, T, x)
      BY <1>6, <3>1, <3>2 DEF Pred
    <3> HIDE DEF T
    <3>. QED
      BY <2>1, <3>3, PredIsOne
  <2>3. S = T \cup {x} /\ x \notin T
    BY <1>5 DEF Levels
  <2>4. k \in T /\ Pred(k, T, x)
    <3>1. k \in T
      BY <1>1, <1>4, <1>6, <2>3
    <3>. QED
      BY <1>6, <2>3, <3>1 DEF Pred
  <2>. QED
    BY <1>5, <2>2, <2>3, <2>4 DEF Levels
<1>8. Held(r, e, h, b, k) = L \cup R
  <2>1. \A j \in Held(r, e, h, b, k) : j \in Nat /\ j # x
    BY <1>1, HirbAssumption DEF Held, IsMap
  <2>2. \A j \in Held(r, e, h, b, k) : j < x \/ j > x
    BY <1>1, <2>1
  <2> DEFINE H == Held(r, e, h, b, k)
  <2>3. L = {j \in H : j < x} /\ R = {j \in H : j > x} /\ \A j \in H : j < x \/ j > x
    BY <1>7, <2>2
  <2> HIDE DEF H, L, R
  <2>4. H = L \cup R
    BY <2>3
  <2>. QED
    BY <2>4 DEF H
<1>9. Joined(n, s, L, R, d, b, k, x)
  <2>1. \A j \in L : k < j /\ j < x
    BY <1>4, <1>7
  <2>2. \A j \in R : x < j
    BY <1>4
  <2> HIDE DEF n, s, L, R
  <2>. QED
    BY <1>1, <1>4, <1>6, <2>1, <2>2, SpellsMerge
<1>10. /\ Spells(m, L \cup R, d, b, k)
       /\ b # 0 => /\ ToSet(m.kids) = ToSet(n.kids) \cup {c \in ToSet(s.kids) : c.left # x}
                   /\ s.kids[1] \in ToSet(s.kids) /\ s.kids[1].left = x
                   /\ Len(n.keys) + 1 \in 1 .. Len(m.kids)
                   /\ m.kids[Len(n.keys) + 1] \in ToSet(n.kids)
                   /\ Before(m.kids[Len(n.keys) + 1], {k} \cup L, x)
  BY <1>9 DEF Joined
<1>11. ToSet(m.kids) \subseteq ToSet(n.kids) \cup ToSet(s.kids)
  <2> HIDE DEF m, L, R
  <2>1. b = 0 => ToSet(m.kids) = {}
    BY <1>10, NoKids
  <2>. QED
    BY <1>10, <2>1
<1>12. IsNodeRec(m) /\ IsNodeRec(s) /\ Len(n.keys) \in Nat
  <2> HIDE DEF m, n, s, L, R
  <2>. QED
    BY <1>4, <1>10, IsNodeSpelt
<1>13. b # 0 => Pred(m.kids[Len(n.keys) + 1].left, Tops(r, d, h, b - 1), x)
  <2> HIDE DEF m
  <2>. QED
    BY <1>1, <1>10, PredDown
<1>14. b # 0 => s.kids[1] \in DOMAIN N /\ IsAt(s.kids[1], b - 1, x)
  <2> SUFFICES ASSUME b # 0 PROVE s.kids[1] \in DOMAIN N /\ s.kids[1].level = b - 1 /\ s.kids[1].left = x
    BY DEF IsAt
  <2> HIDE DEF s, R
  <2>1. /\ Len(s.kids) = Len(s.keys) + 1
        /\ \A i \in 1 .. Len(s.kids) : IsAt(s.kids[i], b - 1, IF i = 1 THEN x ELSE s.keys[i - 1])
    BY <1>4 DEF Spells
  <2>2. Len(s.keys) \in Nat
    BY <1>4, IsNodeSpelt
  <2>3. 1 \in 1 .. Len(s.kids)
    BY <2>1, <2>2
  <2>. QED
    BY <1>4, <1>10, <2>1, <2>3 DEF IsAt
<1>15. Spells(m, Held(r, e, h, b, k), e, b, k)
  <2> DEFINE H == Held(r, e, h, b, k)
  <2>1. \A j \in H : d[j] = e[j]
    BY DEF Held
  <2>2. Spells(m, H, d, b, k)
    BY <1>8, <1>10
  <2> HIDE DEF H, m
  <2>3. Spells(m, H, e, b, k)
    BY <2>1, <2>2, SpellsOther
  <2>. QED
    BY <2>3 DEF H
<1> HIDE DEF m, n, s
<1>16. Fits(m, V, <<b, k>>)
  BY <1>1, <1>2, <1>7, <1>15, FitsAt
<1>17. id # sd
  BY <1>1, <1>3, <1>6
<1>18. /\ DOMAIN V = DOMAIN W \ {<<b, x>>}
       /\ \A q \in DOMAIN V : q # <<b, k>> => V[q] = W[q]
  <2> DEFINE c == b + 1
  <2>1. c \in 1 .. h /\ c - 1 = b
    BY <1>2
  <2> HIDE DEF c
  <2>2. Narrowed(r, h, e, d, c, b)
    BY <1>1, <2>1, ShapeDown
  <2> DEFINE T == Tops(r, e, h, b)
  <2>3. /\ \A q : q[1] # b => (q \in DOMAIN W <=> q \in DOMAIN V)
        /\ \A q \in DOMAIN W : q[1] # b => V[q] = W[q]
        /\ \A q \in DOMAIN W : q[1] = b => q = <<b, q[2]>> /\ q[2] \in S
        /\ \A q \in DOMAIN V : q[1] = b => q = <<b, q[2]>> /\ q[2] \in T
        /\ \A a \in S : <<b, a>> \in DOMAIN W /\ W[<<b, a>>] = Content(r, d, h, b, a)
        /\ \A a \in T : <<b, a>> \in DOMAIN V /\ V[<<b, a>>] = Content(r, e, h, b, a)
    BY <2>2 DEF c, Narrowed
  <2> HIDE DEF V, W
  <2>4. ASSUME NEW a \in T, a # k PROVE Content(r, e, h, b, a) = Content(r, d, h, b, a)
    <3>1. Held(r, e, h, b, a) = Held(r, d, h, b, a) /\ \A j \in Held(r, e, h, b, a) : j \in DOMAIN e
      BY <1>7, <2>4 DEF Held
    <3>2. \A j \in Held(r, e, h, b, a) : e[j] = d[j]
      BY <3>1
    <3>. QED
      BY <3>1, <3>2 DEF Content
  <2>a. S = T \cup {x} /\ x \notin T
    BY <1>7
  <2> HIDE DEF S, T
  <2>5. \A q \in DOMAIN V : q # <<b, k>> => V[q] = W[q]
    <3> SUFFICES ASSUME NEW q \in DOMAIN V, q # <<b, k>>, q[1] = b PROVE V[q] = W[q]
      BY <2>3
    <3> DEFINE a == q[2]
    <3>2. a # k /\ a \in S /\ a \in T /\ q = <<b, a>>
      BY <2>3, <2>a
    <3> HIDE DEF a
    <3>. QED
      BY <2>3, <2>4, <3>2
  <2>6. ASSUME NEW q PROVE q \in DOMAIN V <=> q \in DOMAIN W /\ q # <<b, x>>
    <3>1. <<b, x>>[1] = b /\ <<b, x>>[2] = x
      OBVIOUS
    <3>2. CASE q[1] # b
      BY <2>3, <3>1, <3>2
    <3>3. CASE q[1] = b
      <4>1. q \in DOMAIN V => q \in DOMAIN W /\ q # <<b, x>>
        <5> SUFFICES ASSUME q \in DOMAIN V PROVE q \in DOMAIN W /\ q # <<b, x>>
          OBVIOUS
        <5> DEFINE a == q[2]
        <5>1. q = <<b, a>> /\ a \in T /\ a \in S /\ a # x
          BY <2>3, <2>a, <3>3
        <5>2. q # <<b, x>>
          BY <3>1, <5>1
        <5> HIDE DEF a
        <5>. QED
          BY <2>3, <5>1, <5>2
      <4>2. q \in DOMAIN W /\ q # <<b, x>> => q \in DOMAIN V
        <5> SUFFICES ASSUME q \in DOMAIN W, q # <<b, x>> PROVE q \in DOMAIN V
          OBVIOUS
        <5> DEFINE a == q[2]
        <5>1. q = <<b, a>> /\ a \in T
          BY <2>3, <2>a, <3>3
        <5> HIDE DEF a
        <5>. QED
          BY <2>3, <5>1
      <4>. QED
        BY <4>1, <4>2
    <3>. QED
      BY <3>2, <3>3
  <2>. QED
    BY <2>5, <2>6
<1>19. NobodysChild(N, sd)
  <2> SUFFICES ASSUME NEW f \in DOMAIN N, sd \in ToSet(N[f].kids) PROVE FALSE
    BY DEF NobodysChild
  <2> DEFINE c == b + 1  G == {}  p == Spot(f, h)
  <2>1. c \in Nat /\ c >= c /\ Tree(N, h, Shape(r, e, d, h, c), G)
    BY <1>2
  <2> HIDE DEF c, G
  <2>2. Shaped(Shape(r, e, d, h, c), h)
    BY <1>1, ShapeShaped
  <2> DEFINE X == Shape(r, e, d, h, c)
  <2>3. /\ p[1] # 0 /\ sd.level = p[1] - 1
        /\ sd.left \in {p[2]} \cup DOMAIN X[p]
    <3>1. Tree(N, h, X, G) /\ Shaped(X, h)
      BY <2>1, <2>2
    <3> HIDE DEF X
    <3>. QED
      BY <3>1, KidOf
  <2>4. p \in DOMAIN X /\ p = <<p[1], p[2]>> /\ p[1] \in 0 .. h
    <3>1. Tree(N, h, X, G) /\ Shaped(X, h)
      BY <2>1, <2>2
    <3> HIDE DEF X
    <3>. QED
      BY <3>1, SpotOf
  <2> DEFINE a == p[2]
  <2>5. p = <<c, a>> /\ c \in 0 .. h
    <3>1. p[1] = b + 1
      BY <2>3, <2>4 DEF IsAt
    <3>. QED
      BY <2>4, <3>1 DEF c
  <2>6. a \in Tops(r, e, h, c) /\ X[p] = Content(r, e, h, c, a)
    <3> HIDE DEF p, a
    <3>1. a \in Tops(r, e, h, c) /\ X[<<c, a>>] = Content(r, e, h, c, a)
      BY <1>1, <2>1, <2>4, <2>5, ShapeIn, SMTT(30)
    <3>. QED
      BY <2>5, <3>1
  <2>7. a \in {0} \cup DOMAIN e /\ DOMAIN X[p] \subseteq DOMAIN e
    BY <2>6 DEF Tops, Content, Held
  <2>. QED
    BY <1>1, <2>3, <2>7 DEF IsAt
<1> DEFINE U == [q \in DOMAIN V |-> W[q]]  O == Without(N, sd)
<1>20. Tree(O, h, U, {})
  <2>1. Drops(W, U, Spot(sd, h))
    BY <1>3, <1>18 DEF Drops
  <2> DEFINE G == {}
  <2>2. Tree(N, h, W, G)
    OBVIOUS
  <2> HIDE DEF U, V, W, G
  <2>3. Tree(Without(N, sd), h, U, G)
    BY <1>19, <2>1, <2>2, TreeDrop
  <2>. QED
    BY <2>3 DEF G
<1>21. DOMAIN O = DOMAIN N \ {sd} /\ id \in DOMAIN O
  BY <1>17 DEF Without
<1>22. Tree(With(O, id, m), h, V, {})
  <2>1. ToSet(m.kids) \subseteq DOMAIN O \cup {}
    <3>1. sd \notin ToSet(n.kids) /\ sd \notin ToSet(s.kids)
      BY <1>19 DEF NobodysChild, n, s
    <3>. QED
      BY <1>4, <1>11, <1>21, <3>1
  <2>2. DOMAIN V = DOMAIN U /\ \A q \in DOMAIN U : q # Spot(id, h) => V[q] = U[q]
    BY <1>18
  <2>3. Fits(m, V, Spot(id, h))
    BY <1>16
  <2> HIDE DEF U, V, O
  <2> DEFINE G == {}
  <2>4. Tree(O, h, U, G) /\ ToSet(m.kids) \subseteq DOMAIN O \cup G /\ G \subseteq G
    BY <1>20, <2>1
  <2> HIDE DEF G
  <2>5. Tree(With(O, id, m), h, V, G)
    BY <1>21, <2>2, <2>3, <2>4, TreeReplace
  <2>. QED
    BY <2>5 DEF G
<1>. QED
  BY <1>10, <1>12, <1>13, <1>14, <1>17, <1>22 DEF TreeMerges, m, n, s

-----------------------------------------------------------------------------
\* The store, operation by operation.
Store(blobs, cache, reads, rounds) == [blobs |-> blobs, cache |-> cache, reads |-> reads, rounds |-> rounds]

LEMMA StoreFields ==
  ASSUME NEW b, NEW c, NEW r, NEW s
  PROVE  /\ Store(b, c, r, s).blobs = b /\ Store(b, c, r, s).cache = c
         /\ Store(b, c, r, s).reads = r /\ Store(b, c, r, s).rounds = s
         /\ IsStore(Store(b, c, r, s))
  BY DEF Store, IsStore

LEMMA IsStoreIs ==
  ASSUME NEW o, IsStore(o)
  PROVE  o = Store(o.blobs, o.cache, o.reads, o.rounds)
  BY DEF Store, IsStore

LEMMA AccessIs ==
  ASSUME NEW b, NEW c, NEW r, NEW s
  PROVE  Access(Store(b, c, r, s)) = Store(b, c, r + 1, s)
  BY DEF Store, Access

LEMMA SetBlobIs ==
  ASSUME NEW b, NEW c, NEW r, NEW s, NEW id, NEW n
  PROVE  SetBlob(Store(b, c, r, s), id, n) = Store(b, With(c, id, n), r, s)
  BY DEF Store, SetBlob

LEMMA DestroyIs ==
  ASSUME NEW b, NEW c, NEW r, NEW s, NEW id
  PROVE  Destroy(Store(b, c, r, s), id) = Store(b, Without(c, id), r, s)
  BY DEF Store, Destroy

LEMMA FinalizeIs ==
  ASSUME NEW b, NEW c, NEW r, NEW s
  PROVE  Finalize(Store(b, c, r, s)) = Store(Over(c, b), NoBlobs, 0, IF r = 0 THEN s ELSE Append(s, r))
<1> DEFINE o == Store(b, c, r, s)  F == {"blobs", "cache", "reads", "rounds"}
<1>1. DOMAIN o = F /\ o.blobs = b /\ o.cache = c /\ o.reads = r /\ o.rounds = s
  BY DEF Store
<1> HIDE DEF o
<1> DEFINE t == Finalize(o)
<1>2. DOMAIN t = F /\ t = [f \in F |-> t[f]]
  BY <1>1 DEF Finalize
<1>3. t.blobs = Over(c, b)
  BY <1>1 DEF Finalize
<1>4. t.cache = NoBlobs
  BY <1>1 DEF Finalize
<1>5. t.reads = 0
  BY <1>1 DEF Finalize
<1>6. t.rounds = IF r = 0 THEN s ELSE Append(s, r)
  BY <1>1 DEF Finalize
<1> HIDE DEF t
<1>7. t = Store(Over(c, b), NoBlobs, 0, IF r = 0 THEN s ELSE Append(s, r))
  BY <1>2, <1>3, <1>4, <1>5, <1>6 DEF Store
<1>. QED
  BY <1>7 DEF t, o

LEMMA FetchIs ==
  ASSUME NEW b, NEW c, NEW r, NEW s, NEW id, NEW next, id \notin DOMAIN c
  PROVE  Fetch(Store(b, c, r, s), id, next) = Store(Without(b, id), With(c, next, b[id]), r + 1, s)
<1> DEFINE o == Store(b, c, r, s)  F == {"blobs", "cache", "reads", "rounds"}  a == Access(o)
<1>1. o.blobs = b /\ o.cache = c
  BY DEF Store
<1>2. DOMAIN a = F /\ a.blobs = b /\ a.cache = c /\ a.reads = r + 1 /\ a.rounds = s
  <2>1. a = Store(b, c, r + 1, s)
    BY AccessIs
  <2> HIDE DEF a
  <2>. QED
    BY <2>1 DEF Store
<1> DEFINE t == [a EXCEPT !.blobs = Without(@, id), !.cache = With(@, next, o.blobs[id])]
<1> HIDE DEF a, o
<1>3. Fetch(o, id, next) = t
  BY <1>1 DEF Fetch, a
<1>4. DOMAIN t = F /\ t = [f \in F |-> t[f]]
  BY <1>2
<1>5. t.blobs = Without(b, id)
  BY <1>1, <1>2
<1>6. t.cache = With(c, next, b[id])
  BY <1>1, <1>2
<1>7. t.reads = r + 1 /\ t.rounds = s
  BY <1>1, <1>2
<1> HIDE DEF t
<1>8. t = Store(Without(b, id), With(c, next, b[id]), r + 1, s)
  BY <1>4, <1>5, <1>6, <1>7 DEF Store
<1>. QED
  BY <1>3, <1>8 DEF o

LEMMA ForgetIs ==
  ASSUME NEW b, NEW c, NEW r, NEW s
  PROVE  Forget(Store(b, c, r, s)) = Store(b, c, r, << >>)
  BY DEF Store, Forget

\* Functions that differ in a few points.
LEMMA OverNothing == ASSUME NEW f, f = [x \in DOMAIN f |-> f[x]] PROVE Over(NoBlobs, f) = f
  BY DEF Over, NoBlobs

LEMMA WithIn ==
  ASSUME NEW f, NEW x, NEW n
  PROVE  /\ DOMAIN With(f, x, n) = DOMAIN f \cup {x} /\ With(f, x, n)[x] = n
         /\ \A y \in DOMAIN f : y # x => With(f, x, n)[y] = f[y]
         /\ With(f, x, n) = [y \in DOMAIN With(f, x, n) |-> With(f, x, n)[y]]
  BY DEF With

LEMMA WithTwice ==
  ASSUME NEW f, NEW x, NEW n, NEW m
  PROVE  With(With(f, x, n), x, m) = With(f, x, m)
<1> DEFINE g == With(With(f, x, n), x, m)  k == With(f, x, m)
<1>1. DOMAIN g = DOMAIN k /\ g = [y \in DOMAIN g |-> g[y]] /\ k = [y \in DOMAIN k |-> k[y]]
  BY DEF With
<1>2. \A y \in DOMAIN k : g[y] = k[y]
  BY DEF With
<1> HIDE DEF g, k
<1>3. g = k
  BY <1>1, <1>2
<1>. QED
  BY <1>3 DEF g, k

LEMMA WithSwap ==
  ASSUME NEW f, NEW x, NEW n, NEW y, NEW m, x # y
  PROVE  With(With(f, x, n), y, m) = With(With(f, y, m), x, n)
<1> DEFINE g == With(With(f, x, n), y, m)  k == With(With(f, y, m), x, n)
<1>1. DOMAIN g = DOMAIN k /\ g = [z \in DOMAIN g |-> g[z]] /\ k = [z \in DOMAIN k |-> k[z]]
  BY DEF With
<1>2. \A z \in DOMAIN k : g[z] = k[z]
  BY DEF With
<1> HIDE DEF g, k
<1>3. g = k
  BY <1>1, <1>2
<1>. QED
  BY <1>3 DEF g, k

LEMMA OverOne ==
  ASSUME NEW c, NEW x, DOMAIN c \subseteq {x}, NEW n, NEW f
  PROVE  Over(With(c, x, n), f) = With(f, x, n)
<1> DEFINE g == Over(With(c, x, n), f)  k == With(f, x, n)
<1>1. DOMAIN g = DOMAIN k /\ g = [z \in DOMAIN g |-> g[z]] /\ k = [z \in DOMAIN k |-> k[z]]
  BY DEF With, Over
<1>2. \A z \in DOMAIN k : g[z] = k[z]
  BY DEF With, Over
<1> HIDE DEF g, k
<1>3. g = k
  BY <1>1, <1>2
<1>. QED
  BY <1>3 DEF g, k

LEMMA OverTwo ==
  ASSUME NEW c, NEW x, NEW y, DOMAIN c \subseteq {x, y}, NEW n, NEW m, NEW f, x # y
  PROVE  Over(With(With(c, y, m), x, n), f) = With(With(f, y, m), x, n)
<1> DEFINE g == Over(With(With(c, y, m), x, n), f)  k == With(With(f, y, m), x, n)
<1>1. DOMAIN g = DOMAIN k /\ g = [z \in DOMAIN g |-> g[z]] /\ k = [z \in DOMAIN k |-> k[z]]
  BY DEF With, Over
<1>2. \A z \in DOMAIN k : g[z] = k[z]
  BY DEF With, Over
<1> HIDE DEF g, k
<1>3. g = k
  BY <1>1, <1>2
<1>. QED
  BY <1>3 DEF g, k

LEMMA WithoutWith ==
  ASSUME NEW f, NEW x, NEW y, NEW n, x # y
  PROVE  Without(With(f, x, n), y) = With(Without(f, y), x, n)
<1> DEFINE g == Without(With(f, x, n), y)  k == With(Without(f, y), x, n)
<1>1. DOMAIN g = DOMAIN k /\ g = [z \in DOMAIN g |-> g[z]] /\ k = [z \in DOMAIN k |-> k[z]]
  BY DEF With, Without
<1>2. \A z \in DOMAIN k : g[z] = k[z]
  BY DEF With, Without
<1> HIDE DEF g, k
<1>3. g = k
  BY <1>1, <1>2
<1>. QED
  BY <1>3 DEF g, k

-----------------------------------------------------------------------------
\* What the steps of a call have in common.
LEMMA HeightIsRank ==
  ASSUME rise \in [Labels -> Nat], NEW x \in Labels, NEW h \in Nat
  PROVE  HeightOf(x, h) = Rank(rise, x, h)
<1> DEFINE a == rise[x]  m == Rank(rise, x, h)
<1>1. a \in Nat
  OBVIOUS
<1>2. m \in {a, h} /\ \A y \in {a, h} : m <= y
  BY <1>1 DEF Rank
<1>3. \A z \in {a, h} : (\A y \in {a, h} : z <= y) => z = m
  BY <1>1 DEF Rank
<1>4. (CHOOSE z \in {a, h} : \A y \in {a, h} : z <= y) = m
  <2> HIDE DEF a, m
  <2>. QED
    BY <1>2, <1>3
<1>. QED
  BY <1>4 DEF HeightOf, Min

LEMMA TwosGrow == Twos(0) = << >> /\ \A n \in Nat : Append(Twos(n), 2) = Twos(n + 1)
<1>1. Twos(0) = << >>
  BY DEF Twos
<1>2. ASSUME NEW n \in Nat PROVE Append(Twos(n), 2) = Twos(n + 1)
  <2> DEFINE s == Twos(n)  t == Twos(n + 1)  a == Append(s, 2)
  <2>1. s \in Seq(Nat) /\ Len(s) = n /\ t \in Seq(Nat) /\ Len(t) = n + 1
    BY DEF Twos
  <2>2. (\A i \in 1 .. n : s[i] = 2) /\ \A i \in 1 .. n + 1 : t[i] = 2
    BY DEF Twos
  <2> HIDE DEF s, t
  <2>3. a \in Seq(Nat) /\ Len(a) = n + 1 /\ \A i \in 1 .. n + 1 : a[i] = IF i <= n THEN s[i] ELSE 2
    BY <2>1
  <2> HIDE DEF a
  <2>4. \A i \in 1 .. n + 1 : a[i] = t[i]
    BY <2>2, <2>3
  <2>5. a = t
    BY <2>1, <2>3, <2>4
  <2>. QED
    BY <2>5 DEF s, t, a
<1>. QED
  BY <1>1, <1>2

\* The store o and the root r, after a write back, are the nodes N.
Wrote(o, r, N, k) ==
    /\ IsStore(o) /\ o.cache = NoBlobs /\ o.reads = 0 /\ o.rounds = Twos(k)
    /\ Base(o, r) = N /\ NoId \notin DOMAIN o.blobs

LEMMA SavedIs ==
  ASSUME NEW b, NEW c, NEW r, NEW s, NEW n
  PROVE  Saved(Store(b, c, r, s), n) =
             IF ref = NoId THEN Store(b, c, r, s)
             ELSE Store(Over(With(c, ref, n), b), NoBlobs, 0, IF r = 0 THEN s ELSE Append(s, r))
<1>1. Finalize(SetBlob(Store(b, c, r, s), ref, n)) = Finalize(Store(b, With(c, ref, n), r, s))
  BY SetBlobIs
<1>. QED
  BY <1>1, FinalizeIs DEF Saved

LEMMA SavedByTwos ==
  ASSUME NEW b, NEW c, NEW r, NEW s, NEW n, NEW t, ref # NoId, r = 2, Append(s, r) = t
  PROVE  Saved(Store(b, c, r, s), n) = Store(Over(With(c, ref, n), b), NoBlobs, 0, t)
<1>1. Saved(Store(b, c, r, s), n) = Store(Over(With(c, ref, n), b), NoBlobs, 0, IF r = 0 THEN s ELSE Append(s, r))
  BY SavedIs
<1>2. r # 0
  OBVIOUS
<1>. QED
  BY <1>1, <1>2

LEMMA RoundsSoFar ==
  ASSUME Typed, OnPath, ref # NoId => level < height
  PROVE  /\ ref = NoId => oram.reads = 0 /\ oram.rounds = Twos(height - level) /\ height = level
         /\ ref # NoId => /\ oram.reads = 2 /\ Append(oram.rounds, oram.reads) = Twos(height - level)
<1>1. height \in Nat /\ level \in Nat /\ level <= height
  BY HirbAssumption DEF Typed
<1>2. CASE ref = NoId
  <2>1. height = level
    BY <1>1, <1>2 DEF OnPath, Spot
  <2>2. height - level = 0
    BY <1>1, <2>1
  <2>. QED
    BY <1>2, <2>1, <2>2, TwosGrow DEF OnPath
<1>3. CASE ref # NoId
  <2>1. height - level - 1 \in Nat /\ height - level - 1 + 1 = height - level
    BY <1>1, <1>3
  <2>2. oram.reads = 2 /\ oram.rounds = Twos(height - level - 1)
    BY <1>3 DEF OnPath
  <2> DEFINE k == height - level - 1
  <2>3. k \in Nat /\ k + 1 = height - level /\ oram.rounds = Twos(k)
    BY <2>1, <2>2
  <2> HIDE DEF k
  <2>. QED
    BY <1>3, <2>2, <2>3, TwosGrow
<1>. QED
  BY <1>2, <1>3

LEMMA WritesOne ==
  ASSUME Typed, OnPath, ref # NoId => level < height, NEW c, NEW n,
         ref = NoId => c = NoBlobs, DOMAIN c \subseteq {ref}
  PROVE  Wrote(Saved(Store(oram.blobs, c, oram.reads, oram.rounds), n), RootWith(n), With(Base(oram, root), ref, n),
               height - level)
<1> DEFINE b == oram.blobs  s == Store(b, c, oram.reads, oram.rounds)  o == Saved(s, n)
<1>1. NoId \notin DOMAIN b
  BY DEF Typed
<1>2. CASE ref = NoId
  <2>1. o = Store(b, NoBlobs, 0, Twos(height - level))
    BY <1>2, SavedIs, RoundsSoFar
  <2>2. Base(o, n) = With(Base(oram, root), NoId, n)
    BY <2>1, StoreFields, WithTwice DEF Base
  <2>. QED
    BY <1>1, <1>2, <2>1, <2>2, StoreFields DEF Wrote, RootWith
<1>3. CASE ref # NoId
  <2>1. o = Store(Over(With(c, ref, n), b), NoBlobs, 0, Twos(height - level))
    BY <1>3, SavedByTwos, RoundsSoFar
  <2>2. Over(With(c, ref, n), b) = With(b, ref, n)
    BY OverOne
  <2>3. o = Store(With(b, ref, n), NoBlobs, 0, Twos(height - level))
    BY <2>1, <2>2
  <2> HIDE DEF o, b
  <2>4. Base(o, root) = With(With(b, NoId, root), ref, n)
    BY <1>3, <2>3, StoreFields, WithSwap DEF Base
  <2>5. NoId \notin DOMAIN With(b, ref, n)
    BY <1>1, <1>3 DEF With, b
  <2>6. o.blobs = With(b, ref, n) /\ o.cache = NoBlobs /\ o.reads = 0 /\ o.rounds = Twos(height - level) /\ IsStore(o)
    BY <2>3, StoreFields
  <2>. QED
    BY <1>3, <2>4, <2>5, <2>6 DEF Wrote, RootWith, Base, o, b
<1>. QED
  BY <1>2, <1>3

LEMMA WritesTwo ==
  ASSUME Typed, OnPath, level < height, NEW c, NEW n, NEW id, NEW m,
         ref # NoId, id # NoId, id # ref, DOMAIN c \subseteq {ref, id}
  PROVE  Wrote(Saved(Store(oram.blobs, With(c, id, m), oram.reads, oram.rounds), n), root,
               With(With(Base(oram, root), ref, n), id, m), height - level)
<1> DEFINE b == oram.blobs  s == Store(b, With(c, id, m), oram.reads, oram.rounds)  o == Saved(s, n)
<1>1. NoId \notin DOMAIN b
  BY DEF Typed
<1>2. o = Store(Over(With(With(c, id, m), ref, n), b), NoBlobs, 0, Twos(height - level))
  BY SavedByTwos, RoundsSoFar
<1>3. Over(With(With(c, id, m), ref, n), b) = With(With(b, id, m), ref, n)
  BY OverTwo
<1>4. o = Store(With(With(b, id, m), ref, n), NoBlobs, 0, Twos(height - level))
  BY <1>2, <1>3
<1> HIDE DEF o, b
<1>5. With(With(With(b, id, m), ref, n), NoId, root) = With(With(With(b, NoId, root), ref, n), id, m)
  <2>1. With(With(With(b, id, m), ref, n), NoId, root) = With(With(With(b, id, m), NoId, root), ref, n)
    BY WithSwap
  <2>2. With(With(b, id, m), NoId, root) = With(With(b, NoId, root), id, m)
    BY WithSwap
  <2> DEFINE a == With(b, NoId, root)
  <2>3. With(With(a, id, m), ref, n) = With(With(a, ref, n), id, m)
    BY WithSwap
  <2>. QED
    BY <2>1, <2>2, <2>3
<1>6. NoId \notin DOMAIN With(With(b, id, m), ref, n)
  BY <1>1 DEF With, b
<1>7. o.blobs = With(With(b, id, m), ref, n) /\ o.cache = NoBlobs /\ o.reads = 0 /\ o.rounds = Twos(height - level) /\ IsStore(o)
  BY <1>4, StoreFields
<1>. QED
  BY <1>5, <1>6, <1>7 DEF Wrote, Base, o, b

\* The child i of the node id is fetched, under the name its parent has got.
Fetches(o, r, N, id, i) ==
    LET c    == N[id].kids[i]
        next == Renamed(c)
        s    == Fetch(o, c, next)
    IN  /\ Found(o, c) /\ BlobOf(o, c) = N[c] /\ FetchedAs(o, c, next) = next
        /\ s = Store(Without(o.blobs, c), With(NoBlobs, next, N[c]), o.reads + 1, o.rounds)
        /\ c \in DOMAIN o.blobs /\ next \notin DOMAIN s.blobs /\ NoId \notin DOMAIN s.blobs
        /\ \A x : With(Base(s, r), next, x) = With(Moved(N, id, i), next, x)

LEMMA FetchesChild ==
  ASSUME NEW h \in Nat, NEW N, NEW W, NEW gap, Tree(N, h, W, gap), Shaped(W, h), NEW id \in DOMAIN N,
         NEW i \in 1 .. Len(N[id].kids), N[id].kids[i] \in DOMAIN N,
         NEW o, NEW r, IsStore(o), o.cache = NoBlobs, NoId \notin DOMAIN o.blobs,
         Base(o, r) = With(N, id, Rename(N[id], i))
  PROVE  Fetches(o, r, N, id, i)
<1> DEFINE c == N[id].kids[i]  next == Renamed(c)  s == Fetch(o, c, next)  n == Rename(N[id], i)
<1>0. TreeMoves(N, h, W, gap, id, i)
  BY TreeRename
<1>1. /\ c \in Ids /\ c # id /\ next # id /\ next \in Ids /\ next \notin DOMAIN N
  BY <1>0 DEF TreeMoves
<1>2. c # NoId /\ next # NoId /\ next # c
  BY <1>1, NoIdIsNone
<1>3. DOMAIN Base(o, r) = DOMAIN o.blobs \cup {NoId} /\ \A y \in DOMAIN o.blobs : Base(o, r)[y] = o.blobs[y]
  BY DEF Base, With
<1>4. DOMAIN With(N, id, n) = DOMAIN N /\ With(N, id, n)[c] = N[c]
  BY <1>1 DEF With
<1> HIDE DEF c, next, n
<1>5. c \in DOMAIN o.blobs /\ o.blobs[c] = N[c] /\ next \notin DOMAIN o.blobs
  <2>1. c \in DOMAIN N
    BY DEF c
  <2>2. Base(o, r) = With(N, id, n)
    BY DEF n
  <2>. QED
    BY <1>1, <1>2, <1>3, <1>4, <2>1, <2>2
<1>6. NoBlobs = << >> /\ DOMAIN NoBlobs = {}
  BY DEF NoBlobs
<1>7. Found(o, c) /\ FetchedAs(o, c, next) = next /\ BlobOf(o, c) = N[c]
  BY <1>5, <1>6 DEF Found, FetchedAs, BlobOf, Over
<1>8. s = Store(Without(o.blobs, c), With(NoBlobs, next, N[c]), o.reads + 1, o.rounds)
  <2>1. o = Store(o.blobs, NoBlobs, o.reads, o.rounds)
    BY IsStoreIs
  <2>2. c \notin DOMAIN NoBlobs
    BY <1>6
  <2> DEFINE b == o.blobs  re == o.reads  ro == o.rounds
  <2> HIDE DEF b, re, ro
  <2>3. Fetch(Store(b, NoBlobs, re, ro), c, next) = Store(Without(b, c), With(NoBlobs, next, b[c]), re + 1, ro)
    BY <2>2, FetchIs
  <2>. QED
    BY <1>5, <2>1, <2>3 DEF b, re, ro
<1> HIDE DEF s
<1>9. s.blobs = Without(o.blobs, c)
  BY <1>8, StoreFields
<1>10. next \notin DOMAIN s.blobs /\ NoId \notin DOMAIN s.blobs
  BY <1>5, <1>9 DEF Without
<1>11. Base(s, r) = Without(Base(o, r), c)
  BY <1>2, <1>9, WithoutWith DEF Base
<1>12. ASSUME NEW x PROVE With(Base(s, r), next, x) = With(Moved(N, id, i), next, x)
  <2>1. Moved(N, id, i) = With(Without(Base(o, r), c), next, N[c])
    BY DEF Moved, c, next
  <2>. QED
    BY <1>11, <2>1, WithTwice
<1>. QED
  BY <1>5, <1>7, <1>8, <1>10, <1>12 DEF Fetches, c, next, s

LEMMA OverNothingIn == ASSUME NEW f, NEW x, NEW n PROVE With(Over(NoBlobs, f), x, n) = With(f, x, n)
<1>1. DOMAIN Over(NoBlobs, f) = DOMAIN f /\ \A y \in DOMAIN f : Over(NoBlobs, f)[y] = f[y]
  BY DEF Over, NoBlobs
<1>. QED
  BY <1>1 DEF With

LEMMA OverNothingTwice == ASSUME NEW f PROVE Over(NoBlobs, Over(NoBlobs, f)) = Over(NoBlobs, f)
<1>1. Over(NoBlobs, f) = [y \in DOMAIN f |-> f[y]]
  BY DEF Over, NoBlobs
<1> DEFINE g == Over(NoBlobs, f)
<1>2. g = [x \in DOMAIN g |-> g[x]]
  BY <1>1
<1> HIDE DEF g
<1>3. Over(NoBlobs, g) = g
  BY <1>2, OverNothing
<1>. QED
  BY <1>3 DEF g

LEMMA FinalizeTwo ==
  ASSUME NEW b, NEW c, NEW r, NEW s, NEW t, r = 2, Append(s, r) = t
  PROVE  Finalize(Store(b, c, r, s)) = Store(Over(c, b), NoBlobs, 0, t)
<1>1. Finalize(Store(b, c, r, s)) = Store(Over(c, b), NoBlobs, 0, IF r = 0 THEN s ELSE Append(s, r))
  BY FinalizeIs
<1>2. r # 0
  OBVIOUS
<1>. QED
  BY <1>1, <1>2

\* A dummy round leaves all nodes where they are.
LEMMA RoundIs ==
  ASSUME NEW b, NEW k \in Nat, NEW i
  PROVE  DummyRound(Store(b, NoBlobs, 0, Twos(k)), i) = Store(Over(NoBlobs, b), NoBlobs, 0, Twos(k + 1))
<1> DEFINE s == Twos(k)  t == Twos(k + 1)  c == NoBlobs
<1>1. Append(s, 2) = t
  BY TwosGrow
<1> HIDE DEF s, t, c
<1>2. Access(Store(b, c, 0, s)) = Store(b, c, 1, s)
  <2>1. Access(Store(b, c, 0, s)) = Store(b, c, 0 + 1, s)
    BY AccessIs
  <2>. QED
    BY <2>1
<1>3. Access(Store(b, c, 1, s)) = Store(b, c, 2, s)
  <2>1. Access(Store(b, c, 1, s)) = Store(b, c, 1 + 1, s)
    BY AccessIs
  <2>. QED
    BY <2>1
<1>4. Finalize(Store(b, c, 2, s)) = Store(Over(c, b), NoBlobs, 0, t)
  BY <1>1, FinalizeTwo
<1>. QED
  BY <1>2, <1>3, <1>4 DEF DummyRound, s, t, c

LEMMA DummiesKeep ==
  ASSUME NEW o, NEW r, NEW N, NEW k \in Nat, NEW n \in Nat, Wrote(o, r, N, k)
  PROVE  Wrote(Dummies(o, n), r, N, k + n)
<1> DEFINE b == o.blobs  f == Over(NoBlobs, b)  turns == [i \in 1 .. n |-> i]
           Q(j) == {Store(b, NoBlobs, 0, Twos(j)), Store(f, NoBlobs, 0, Twos(j))}
           Ok == [i \in 0 .. n |-> Q(k + i)]
<1>1. o = Store(b, NoBlobs, 0, Twos(k))
  BY IsStoreIs DEF Wrote
<1>2. o \in Ok[0]
  BY <1>1
<1>3. \A m \in 1 .. n : \A x \in Ok[m - 1] : DummyRound(x, turns[m]) \in Ok[m]
  <2> HIDE DEF Ok, turns
  <2> SUFFICES ASSUME NEW m \in 1 .. n, NEW x \in Ok[m - 1] PROVE DummyRound(x, turns[m]) \in Ok[m]
    OBVIOUS
  <2> DEFINE j == k + (m - 1)
  <2>1. j \in Nat /\ j + 1 = k + m /\ m \in 0 .. n /\ m - 1 \in 0 .. n
    OBVIOUS
  <2>2. x \in {Store(b, NoBlobs, 0, Twos(j)), Store(f, NoBlobs, 0, Twos(j))}
    BY <2>1 DEF Ok
  <2>3. Ok[m] = {Store(b, NoBlobs, 0, Twos(k + m)), Store(f, NoBlobs, 0, Twos(k + m))}
    BY <2>1 DEF Ok
  <2> HIDE DEF j
  <2>4. DummyRound(x, turns[m]) \in {Store(Over(NoBlobs, b), NoBlobs, 0, Twos(j + 1)), Store(Over(NoBlobs, f), NoBlobs, 0, Twos(j + 1))}
    <3> HIDE DEF b, f
    <3>. QED
      BY <2>1, <2>2, RoundIs
  <2>. QED
    BY <2>1, <2>3, <2>4, OverNothingTwice
<1>4. DOMAIN turns = 1 .. n
  OBVIOUS
<1>5. Rounds!Fold(o, turns) \in Ok[n]
  <2> HIDE DEF Ok, turns
  <2>. QED
    BY <1>2, <1>3, <1>4, Rounds!FoldStays
<1>6. Dummies(o, n) = Rounds!Fold(o, turns)
  BY DEF Dummies, Rounds!Fold, FoldLeft, Rounds!MapThenFoldSet, MapThenFoldSet, Max, Rounds!Latest
<1>7. PICK c \in {b, f} : Dummies(o, n) = Store(c, NoBlobs, 0, Twos(k + n))
  BY <1>5, <1>6
<1>8. With(c, NoId, r) = With(b, NoId, r) /\ DOMAIN c = DOMAIN b
  BY OverNothingIn DEF Over, NoBlobs
<1>. QED
  BY <1>7, <1>8, StoreFields DEF Wrote, Base, b

-----------------------------------------------------------------------------
\* What a call leaves behind when it returns: the invariant, the answer of a
\* map, and the one pattern of accesses.
\* What every step has to bring about: the invariant, and the two properties of
\* the step that returns.
Kept ==
    /\ IInv'
    /\ Returns => answer' = Expected /\ oram'.reads = 0 /\ oram'.rounds = [i \in 1 .. height |-> 2]

LEMMA RootIn ==
  ASSUME NEW r \in [Labels -> Nat], NEW h \in Nat, NEW e, NEW d, IsMap(e), IsMap(d), NEW c \in Nat, NEW N, NEW gap,
         Tree(N, h, Shape(r, e, d, h, c), gap)
  PROVE  IsNodeRec(N[NoId])
<1> DEFINE m == IF h >= c THEN e ELSE d
<1>1. NoId \in DOMAIN N /\ Spot(NoId, h) = <<h, 0>>
  BY DEF Tree, Spot
<1>2. (h >= c => m = e) /\ (~(h >= c) => m = d)
  OBVIOUS
<1> HIDE DEF m
<1>3. Spells(N[NoId], Held(r, m, h, h, 0), m, h, 0)
  BY <1>1, <1>2, NodeIn
<1>. QED
  BY <1>3, IsNodeSpelt

LEMMA Rests ==
  ASSUME Typed, Return(Expected), UNCHANGED <<rise, height>>, NEW N, Wrote(oram', root', N, height),
         Tree(N, height, Shape(rise, dict', dict', height, 0), {}), IsDict(dict'), Sized(0)'
  PROVE  Kept
<1>1. /\ oram'.cache = NoBlobs /\ oram'.reads = 0 /\ oram'.rounds = Twos(height) /\ IsStore(oram')
      /\ Base(oram', root') = N /\ NoId \notin DOMAIN oram'.blobs
  BY DEF Wrote
<1>2. /\ answer' = Expected /\ pc' = "idle" /\ call' = Null /\ node' = Leaf /\ ref' = NoId /\ level' = 0
      /\ ind' = 0 /\ sib' = Leaf /\ sibRef' = NoId
  BY DEF Return
<1>3. height \in Nat /\ rise \in [Labels -> Nat] /\ height \in 0 .. MaxHeight
  BY HirbAssumption DEF Typed
<1>4. IsNodeRec(root')
  <2>1. IsMap(dict')
    BY DEF IsDict, IsMap
  <2>2. IsNodeRec(N[NoId])
    <3> DEFINE d == dict'  c == 0
    <3>1. IsMap(d) /\ c \in Nat /\ Tree(N, height, Shape(rise, d, d, height, c), {})
      BY <2>1
    <3> HIDE DEF d, c
    <3>. QED
      BY <1>3, <3>1, RootIn
  <2>3. N[NoId] = root'
    BY <1>1 DEF Base, With
  <2>. QED
    BY <2>2, <2>3
<1>5. Typed'
  BY <1>1, <1>2, <1>3, <1>4 DEF Typed, NoBlobs
<1>6. Resting'
  BY <1>1, <1>2 DEF Resting, Whole
<1>7. IInv'
  BY <1>2, <1>5, <1>6 DEF IInv
<1>. QED
  BY <1>1, <1>2, <1>7 DEF Kept, Twos

\* The node that a descent has come to.
AtNode(k) ==
    LET N == With(Base(oram, root), ref, node)
        M == Held(rise, dict, height, level, k)
    IN  /\ level \in Nat /\ height \in Nat /\ level <= height /\ (ref = NoId <=> level = height)
        /\ rise \in [Labels -> Nat] /\ Lab \in Labels /\ Lab \in Nat /\ IsMap(dict)
        /\ k \in Nat /\ Spot(ref, height) = <<level, k>> /\ Pred(k, Tops(rise, dict, height, level), Lab)
        /\ ref \in DOMAIN N /\ N[ref] = node /\ Spells(node, M, dict, level, k)
        /\ Has(node, Lab) <=> Lab \in DOMAIN dict /\ Rank(rise, Lab, height) = level
        /\ Has(node, Lab) => Lab \in M /\ ValueIn(node, Lab) = dict[Lab]

LEMMA WalkAt ==
  ASSUME Typed, NEW op, Walking(op)
  PROVE  \E k : AtNode(k)
<1> DEFINE N == With(Base(oram, root), ref, node)  k == Spot(ref, height)[2]  M == Held(rise, dict, height, level, k)
<1>1. level \in Nat /\ height \in Nat /\ level <= height /\ rise \in [Labels -> Nat] /\ IsMap(dict)
  BY HirbAssumption DEF Typed, IsDict, IsMap
<1>2. Lab \in Labels /\ Lab \in Nat
  BY HirbAssumption DEF Walking, Lab
<1>3. Tree(N, height, Shape(rise, dict, dict, height, 0), {})
  BY DEF Walking, Whole
<1>4. ref \in DOMAIN N /\ N[ref] = node
  BY DEF With
<1>5. ref # NoId => ref \in Ids /\ ref.level < height
  BY <1>3, <1>4 DEF Tree
<1>6. Spot(ref, height) = <<level, k>> /\ Pred(k, Tops(rise, dict, height, level), Lab)
  <2>1. Spot(ref, height)[1] = level
    BY DEF Walking, OnPath
  <2>2. Spot(ref, height) = <<Spot(ref, height)[1], Spot(ref, height)[2]>>
    BY DEF Spot
  <2>3. Pred(k, Tops(rise, dict, height, level), Lab)
    BY DEF Walking, OnPath
  <2>. QED
    BY <2>1, <2>2, <2>3
<1>7. ref = NoId <=> level = height
  BY <1>1, <1>5, <1>6 DEF Spot
<1> HIDE DEF N, k
<1>8. k \in Nat /\ Spells(node, M, dict, level, k)
  <2>1. 0 \in Nat /\ (level >= 0 => dict = dict) /\ (~(level >= 0) => dict = dict)
    OBVIOUS
  <2>. QED
    BY <1>1, <1>3, <1>4, <1>6, <2>1, NodeIn
<1>9. Has(node, Lab) <=> Lab \in M
  BY <1>2, <1>8, SpellsSearch
<1>10. Lab \in M => ValueIn(node, Lab) = dict[Lab]
  BY <1>2, <1>8, SpellsSearch
<1>11. Lab \in M => Lab \in DOMAIN dict /\ Rank(rise, Lab, height) = level
  BY DEF Held
<1>12. Lab \in DOMAIN dict /\ Rank(rise, Lab, height) = level => Lab \in M
  BY <1>1, <1>6, HeldHere
<1>13. AtNode(k)
  BY <1>1, <1>2, <1>4, <1>6, <1>7, <1>8, <1>9, <1>10, <1>11, <1>12 DEF AtNode, N
<1>. QED
  BY <1>13

\* The node of a descent is written back.
LEMMA WalkSaves ==
  ASSUME Typed, NEW op, Walking(op), NEW k, AtNode(k), NEW n
  PROVE  Wrote(Saved(oram, n), RootWith(n), With(Base(oram, root), ref, n), height - level)
<1> DEFINE ca == oram.cache
<1>1. oram = Store(oram.blobs, ca, oram.reads, oram.rounds)
  BY IsStoreIs DEF Typed
<1>2. OnPath /\ (ref # NoId => level < height)
  BY DEF Walking, AtNode
<1>3. (ref = NoId => ca = NoBlobs) /\ DOMAIN ca \subseteq {ref}
  BY DEF Walking, OnPath, With, NoBlobs
<1> HIDE DEF ca
<1>4. Wrote(Saved(Store(oram.blobs, ca, oram.reads, oram.rounds), n), RootWith(n),
            With(Base(oram, root), ref, n), height - level)
  BY <1>2, <1>3, WritesOne
<1>. QED
  BY <1>1, <1>4

\* The child has the level below, and all of the tree has moved along.
LEMMA DescendsTo ==
  ASSUME Typed, NEW op, Walking(op), NEW k, AtNode(k), level # 0, NEW i \in 1 .. Len(node.kids),
         Pred(node.kids[i].left, Tops(rise, dict, height, level - 1), Lab),
         Lab \in DOMAIN dict => Rank(rise, Lab, height) <= level - 1, Descend(i)
  PROVE  Typed' /\ Walking(op)' /\ pc' = pc /\ UNCHANGED <<call, height, rise, dict>> /\ level' = level - 1
<1> DEFINE N == With(Base(oram, root), ref, node)  W == Shape(rise, dict, dict, height, 0)
           c == node.kids[i]  next == Renamed(c)  n == Rename(node, i)  o == Saved(oram, n)
           r == RootWith(n)  s == Fetch(o, c, next)  O == Moved(N, ref, i)
<1>1. /\ level \in Nat /\ height \in Nat /\ level <= height /\ (ref = NoId <=> level = height)
      /\ rise \in [Labels -> Nat] /\ Lab \in Labels /\ Lab \in Nat /\ IsMap(dict)
      /\ Spot(ref, height) = <<level, k>> /\ ref \in DOMAIN N /\ N[ref] = node
  BY DEF AtNode
<1>2. Tree(N, height, W, {}) /\ Shaped(W, height)
  BY <1>1, ShapeShaped DEF Walking, Whole
<1>3. c \in DOMAIN N
  <2>1. ToSet(node.kids) \subseteq DOMAIN N
    <3>1. ToSet(N[ref].kids) \subseteq DOMAIN N \cup {}
      BY <1>1, <1>2 DEF Tree
    <3>. QED
      BY <1>1, <3>1
  <2>2. node.kids \in Seq(Ids)
    BY SpellsFacts DEF AtNode
  <2>3. c \in ToSet(node.kids)
    <3>1. DOMAIN node.kids = 1 .. Len(node.kids)
      BY <2>2, LenProperties
    <3>. QED
      BY <3>1 DEF ToSet
  <2>. QED
    BY <2>1, <2>3
<1>4. Wrote(o, r, With(Base(oram, root), ref, n), height - level)
  <2> HIDE DEF n
  <2>. QED
    BY WalkSaves
<1>5. With(Base(oram, root), ref, n) = With(N, ref, Rename(N[ref], i))
  BY <1>1, WithTwice
<1>6. Fetches(o, r, N, ref, i)
  <2>1. i \in 1 .. Len(N[ref].kids) /\ N[ref].kids[i] \in DOMAIN N
    BY <1>1, <1>3
  <2> HIDE DEF N, W, o, r
  <2>. QED
    BY <1>1, <1>2, <1>4, <1>5, <2>1, FetchesChild DEF Wrote
<1>7. TreeMoves(N, height, W, {}, ref, i)
  <2>1. i \in 1 .. Len(N[ref].kids) /\ N[ref].kids[i] \in DOMAIN N
    BY <1>1, <1>3
  <2> DEFINE G == {}
  <2>2. Tree(N, height, W, G)
    BY <1>2
  <2> HIDE DEF N, W, G
  <2>3. TreeMoves(N, height, W, G, ref, i)
    BY <1>1, <1>2, <2>1, <2>2, TreeRename
  <2>. QED
    BY <2>3 DEF G
<1>8. N[ref].kids[i] = c
  BY <1>1
<1>9. /\ Tree(O, height, W, {}) /\ c \in Ids /\ next \in Ids /\ Spot(next, height) = Spot(c, height)
      /\ Spot(c, height)[1] = level - 1 /\ Spot(c, height)[2] = c.left
      /\ O[next] = N[c]
  BY <1>1, <1>7, <1>8 DEF TreeMoves
<1>10. next # NoId
  BY <1>9, NoIdIsNone
<1>11. /\ Found(o, c) /\ BlobOf(o, c) = N[c] /\ FetchedAs(o, c, next) = next
       /\ s = Store(Without(o.blobs, c), With(NoBlobs, next, N[c]), o.reads + 1, o.rounds)
       /\ next \notin DOMAIN s.blobs /\ NoId \notin DOMAIN s.blobs
       /\ With(Base(s, r), next, N[c]) = With(O, next, N[c])
  BY <1>6, <1>8 DEF Fetches
<1>12. /\ root' = r /\ node' = N[c] /\ ref' = next /\ oram' = Access(s) /\ level' = level - 1
       /\ UNCHANGED <<call, pc, ind, sib, sibRef, answer, height, size, growAt, rise, dict>>
  BY <1>11 DEF Descend
<1>13. o.reads = 0 /\ o.rounds = Twos(height - level)
  BY <1>4 DEF Wrote
<1> HIDE DEF N, W, c, next, n, o, r, s, O
<1>14. oram' = Store(s.blobs, With(NoBlobs, next, N[c]), 2, Twos(height - level))
  <2>1. s = Store(s.blobs, With(NoBlobs, next, N[c]), 1, Twos(height - level))
    BY <1>11, <1>13, StoreFields
  <2> DEFINE b == s.blobs  ca == With(NoBlobs, next, N[c])  ro == Twos(height - level)
  <2> HIDE DEF b, ca, ro
  <2>2. Access(Store(b, ca, 1, ro)) = Store(b, ca, 1 + 1, ro)
    BY AccessIs
  <2>. QED
    BY <1>12, <2>1, <2>2 DEF b, ca, ro
<1>15. /\ oram'.blobs = s.blobs /\ oram'.cache = With(NoBlobs, next, N[c]) /\ oram'.reads = 2
       /\ oram'.rounds = Twos(height - level) /\ IsStore(oram')
  BY <1>14, StoreFields
<1>16. With(Base(oram', root'), ref', node') = O
  <2>1. Base(oram', root') = Base(s, r)
    BY <1>12, <1>15 DEF Base
  <2>2. With(O, next, N[c]) = O
    BY <1>8, WithTwice DEF O, Moved, next
  <2>. QED
    BY <1>11, <1>12, <2>1, <2>2
<1>17. Walking(op)'
  <2>1. Tree(O, height, Whole', {})
    BY <1>9, <1>12 DEF W, Whole
  <2>2. height' - level' - 1 = height - level
    BY <1>1, <1>12
  <2>3. Spot(ref', height')[1] = level' /\ Spot(ref', height')[2] = c.left
    BY <1>9, <1>12
  <2>4. Pred(c.left, Tops(rise, dict, height, level - 1), Lab)
    BY DEF c
  <2>5. OnPath'
    BY <1>10, <1>12, <1>15, <2>2, <2>3, <2>4 DEF OnPath, Lab
  <2>. QED
    BY <1>12, <1>15, <1>16, <2>1, <2>5 DEF Walking, Sized, Lab
<1>18. Typed'
  <2>1. IsNodeRec(root')
    <3>1. IsNodeRec(O[NoId])
      <4> DEFINE z == 0  G == {}
      <4>1. z \in Nat /\ Tree(O, height, Shape(rise, dict, dict, height, z), G)
        BY <1>9 DEF W
      <4> HIDE DEF z, G
      <4>. QED
        BY <1>1, <4>1, RootIn
    <3>2. O[NoId] = root'
      BY <1>10, <1>12, <1>16 DEF Base, With
    <3>. QED
      BY <3>1, <3>2
  <2>2. level' \in 0 .. height'
    BY <1>1, <1>12
  <2>3. DOMAIN oram'.cache = {next}
    BY <1>15 DEF With, NoBlobs
  <2>4. sibRef = NoId
    BY DEF Walking
  <2>. QED
    BY <1>9, <1>10, <1>11, <1>12, <1>15, <2>1, <2>2, <2>3, <2>4 DEF Typed
<1>. QED
  BY <1>12, <1>17, <1>18

\* A call comes to the root.
LEMMA Enters ==
  ASSUME Typed, Resting, NEW op, NEW l \in Labels, NEW v \in Values \cup {Null}, NEW loop, Enter(op, l, v, loop),
         NEW h \in 0 .. MaxHeight, height' = h, size' = size, Wrote(oram', root', Base(oram', root'), 0),
         Tree(Base(oram', root'), h, Shape(rise, dict, dict, h, 0), {})
  PROVE  Typed' /\ Walking(op)' /\ pc' = loop /\ call' = [op |-> op, label |-> l, value |-> v]
<1> DEFINE N == Base(oram', root')
<1>1. /\ pc' = loop /\ call' = [op |-> op, label |-> l, value |-> v] /\ node' = root' /\ level' = h
      /\ UNCHANGED <<rise, ref, ind, sib, sibRef, dict>>
  BY DEF Enter
<1>2. /\ IsStore(oram') /\ oram'.cache = NoBlobs /\ oram'.reads = 0 /\ oram'.rounds = << >>
      /\ NoId \notin DOMAIN oram'.blobs
  BY TwosGrow DEF Wrote
<1>3. ref' = NoId /\ ind' = 0 /\ sib' = Leaf /\ sibRef' = NoId
  BY <1>1 DEF Resting
<1>4. h \in Nat /\ rise \in [Labels -> Nat] /\ IsMap(dict) /\ l \in Nat \ {0}
  BY HirbAssumption DEF Typed, IsDict, IsMap
<1>5. IsNodeRec(root')
  <2> DEFINE c == 0  G == {}
  <2>1. c \in Nat /\ Tree(N, h, Shape(rise, dict, dict, h, c), G)
    OBVIOUS
  <2> HIDE DEF N, c, G
  <2>2. IsNodeRec(N[NoId])
    BY <1>4, <2>1, RootIn
  <2>. QED
    BY <2>2 DEF N, Base, With
<1>6. Typed'
  BY <1>1, <1>2, <1>3, <1>4, <1>5 DEF Typed, NoBlobs
<1>7. With(Base(oram', root'), ref', node') = N
  <2>1. With(With(oram'.blobs, NoId, root'), NoId, root') = With(oram'.blobs, NoId, root')
    BY WithTwice
  <2>. QED
    BY <1>1, <1>3, <2>1 DEF Base
<1>8. Tree(N, h, Whole', {})
  BY <1>1 DEF Whole
<1>9. OnPath'
  <2>1. Spot(NoId, h) = <<h, 0>>
    BY DEF Spot
  <2>2. Tops(rise, dict, h, h) = {0}
    BY <1>4, TopsFacts
  <2>3. Pred(0, Tops(rise, dict, h, h), l)
    BY <1>4, <2>2 DEF Pred
  <2>. QED
    BY <1>1, <1>2, <1>3, <2>1, <2>3 DEF OnPath, Lab
<1>10. Rank(rise, l, h) <= h
  BY <1>4, RankIn
<1>11. call' \in [op : {op}, label : Labels, value : Values \cup {Null}] /\ Lab' = l
  BY <1>1 DEF Lab
<1>12. Sized(0)'
  BY <1>1 DEF Resting, Sized
<1>13. Walking(op)'
  BY <1>1, <1>3, <1>7, <1>8, <1>9, <1>10, <1>11, <1>12 DEF Walking
<1>. QED
  BY <1>1, <1>6, <1>13

\* The store of a call that has come back, its history of write backs cleared.
LEMMA Cleared ==
  ASSUME Typed, Resting
  PROVE  /\ Wrote(Forget(oram), root, Base(Forget(oram), root), 0)
         /\ Wrote(Forget(Finalize(oram)), root, Base(Forget(Finalize(oram)), root), 0)
         /\ Base(Forget(oram), root) = Base(oram, root) /\ Base(Forget(Finalize(oram)), root) = Base(oram, root)
<1> DEFINE b == oram.blobs  s == oram.rounds  f == Over(NoBlobs, b)
<1>1. oram = Store(b, NoBlobs, 0, s) /\ NoId \notin DOMAIN b
  BY IsStoreIs DEF Typed, Resting
<1>2. Finalize(Store(b, NoBlobs, 0, s)) = Store(f, NoBlobs, 0, s)
  <2> HIDE DEF b, s
  <2> DEFINE r == 0  c == NoBlobs
  <2>1. r = 0
    OBVIOUS
  <2> HIDE DEF r, c
  <2>2. Finalize(Store(b, c, r, s)) = Store(Over(c, b), NoBlobs, 0, IF r = 0 THEN s ELSE Append(s, r))
    BY FinalizeIs
  <2>. QED
    BY <2>1, <2>2 DEF c
<1>3. Forget(oram) = Store(b, NoBlobs, 0, Twos(0))
  BY <1>1, ForgetIs, TwosGrow
<1>4. Forget(Finalize(oram)) = Store(f, NoBlobs, 0, Twos(0))
  BY <1>1, <1>2, ForgetIs, TwosGrow
<1>5. With(f, NoId, root) = With(b, NoId, root) /\ NoId \notin DOMAIN f
  BY <1>1, OverNothingIn DEF Over, NoBlobs
<1> DEFINE p == Forget(oram)  q == Forget(Finalize(oram))
<1> HIDE DEF p, q, f
<1>6. /\ p.blobs = b /\ p.cache = NoBlobs /\ p.reads = 0 /\ p.rounds = Twos(0) /\ IsStore(p)
      /\ q.blobs = f /\ q.cache = NoBlobs /\ q.reads = 0 /\ q.rounds = Twos(0) /\ IsStore(q)
  BY <1>3, <1>4, StoreFields DEF p, q
<1>. QED
  BY <1>1, <1>5, <1>6 DEF Wrote, Base, p, q

LEMMA GetKeeps ==
  ASSUME IInv, NEW l \in Labels, Get(l)
  PROVE  Kept
<1>1. Typed /\ Resting
  BY DEF IInv, Get, Enter
<1>2. UNCHANGED <<root, height, size>> /\ Enter("get", l, Null, "lookup") /\ oram' = Forget(oram)
  BY DEF Get
<1>3. Tree(Base(oram, root), height, Shape(rise, dict, dict, height, 0), {})
  BY <1>1 DEF Resting, Whole
<1>4. height \in 0 .. MaxHeight
  BY <1>1 DEF Typed
<1>5. Typed' /\ Walking("get")' /\ pc' = "lookup"
  BY <1>1, <1>2, <1>3, <1>4, Enters, Cleared
<1>. QED
  BY <1>5 DEF Kept, IInv, Returns

LEMMA DelKeeps ==
  ASSUME IInv, NEW l \in Labels, Del(l), FailedDeletesAt \subseteq {0}
  PROVE  Kept
<1>1. Typed /\ Resting
  BY DEF IInv, Del, Enter
<1>2. UNCHANGED <<root, height, size>> /\ Enter("del", l, Null, "seek") /\ oram' = Forget(Finalize(oram))
  BY DEF Del
<1>3. Tree(Base(oram, root), height, Shape(rise, dict, dict, height, 0), {})
  BY <1>1 DEF Resting, Whole
<1>4. height \in 0 .. MaxHeight
  BY <1>1 DEF Typed
<1>5. Typed' /\ Walking("del")' /\ pc' = "seek" /\ call' = [op |-> "del", label |-> l, value |-> Null]
  BY <1>1, <1>2, <1>3, <1>4, Enters, Cleared
<1>6. (Lab \in DOMAIN dict \/ height = 0)' /\ call'.value = Null
  <2>1. l \in DOMAIN dict \/ height = 0
    BY DEF Del
  <2>. QED
    BY <1>2, <1>5, <2>1 DEF Lab, Enter
<1>. QED
  BY <1>5, <1>6 DEF Kept, IInv, Returns

-----------------------------------------------------------------------------
\* The steps that leave the shape of the tree.
LEMMA FinalizesWalk ==
  ASSUME Typed, NEW op, Walking(op), NEW k, AtNode(k)
  PROVE  Wrote(Finalize(oram), root, With(Base(oram, root), ref, node), height - level)
<1> DEFINE b == oram.blobs  s == oram.rounds  N == With(Base(oram, root), ref, node)
<1>1. /\ level \in Nat /\ height \in Nat /\ level <= height /\ (ref = NoId <=> level = height)
  BY DEF AtNode
<1>2. NoId \notin DOMAIN b /\ IsStore(oram)
  BY DEF Typed
<1>3. CASE ref = NoId
  <2>0. height - level = 0
    BY <1>1, <1>3
  <2>1. oram.cache = NoBlobs /\ root = node /\ oram.reads = 0 /\ s = Twos(0) /\ height - level = 0
    BY <1>3, <2>0, TwosGrow DEF Walking, OnPath
  <2>2. oram = Store(b, NoBlobs, 0, Twos(0))
    BY <1>2, <2>1, IsStoreIs
  <2> DEFINE f == Over(NoBlobs, b)
  <2>3. Finalize(oram) = Store(f, NoBlobs, 0, Twos(0))
    <3> DEFINE c == NoBlobs  r == 0  t == Twos(0)
    <3>1. r = 0
      OBVIOUS
    <3> HIDE DEF c, r, t, b
    <3>2. Finalize(Store(b, c, r, t)) = Store(Over(c, b), NoBlobs, 0, IF r = 0 THEN t ELSE Append(t, r))
      BY FinalizeIs
    <3>. QED
      BY <2>2, <3>1, <3>2 DEF c, r, t
  <2>4. With(f, NoId, root) = With(b, NoId, root) /\ NoId \notin DOMAIN f
    BY <1>2, OverNothingIn DEF Over, NoBlobs
  <2>5. N = With(b, NoId, root)
    BY <1>3, <2>1, WithTwice DEF Base
  <2> HIDE DEF f, N
  <2>. QED
    BY <2>1, <2>3, <2>4, <2>5, StoreFields DEF Wrote, Base, N
<1>4. CASE ref # NoId
  <2>1. oram.cache = With(NoBlobs, ref, node) /\ oram.reads = 2
    BY <1>4 DEF Walking, OnPath
  <2>2. Append(s, 2) = Twos(height - level)
    BY <1>1, <1>4, <2>1, RoundsSoFar DEF Walking
  <2>3. Finalize(oram) = Store(Over(With(NoBlobs, ref, node), b), NoBlobs, 0, Twos(height - level))
    <3> DEFINE c == With(NoBlobs, ref, node)  r == oram.reads  t == Twos(height - level)
    <3>1. r = 2 /\ Append(s, r) = t
      BY <2>1, <2>2
    <3>2. oram = Store(b, c, r, s)
      BY <1>2, <2>1, IsStoreIs
    <3> HIDE DEF c, r, t, b, s
    <3>. QED
      BY <3>1, <3>2, FinalizeTwo DEF c, t
  <2>4. Over(With(NoBlobs, ref, node), b) = With(b, ref, node)
    <3>1. DOMAIN NoBlobs \subseteq {ref}
      BY DEF NoBlobs
    <3>. QED
      BY <3>1, OverOne
  <2>5. With(With(b, ref, node), NoId, root) = N
    BY <1>4, WithSwap DEF Base
  <2>6. NoId \notin DOMAIN With(b, ref, node)
    BY <1>2, <1>4 DEF With, b
  <2> HIDE DEF N, b
  <2>. QED
    BY <2>3, <2>4, <2>5, <2>6, StoreFields DEF Wrote, Base, N
<1>. QED
  BY <1>3, <1>4

\* The call returns with the tree as it is.
LEMMA WalkRests ==
  ASSUME Typed, NEW op, Walking(op), Return(Expected), UNCHANGED <<root, height, size, rise, dict>>,
         Wrote(oram', root, With(Base(oram, root), ref, node), height)
  PROVE  Kept
<1> DEFINE N == With(Base(oram, root), ref, node)
<1>1. Tree(N, height, Shape(rise, dict', dict', height, 0), {})
  BY DEF Walking, Whole
<1>2. IsDict(dict') /\ Sized(0)'
  BY DEF Typed, Walking, Sized
<1>3. Wrote(oram', root', N, height)
  OBVIOUS
<1> HIDE DEF N
<1>. QED
  BY <1>1, <1>2, <1>3, Rests

LEMMA LookupHitKeeps ==
  ASSUME IInv, LookupHit
  PROVE  Kept
<1>1. Typed /\ Walking("get")
  BY DEF IInv, LookupHit
<1>2. PICK k : AtNode(k)
  BY <1>1, WalkAt
<1> DEFINE N == With(Base(oram, root), ref, node)
<1>3. height - level \in Nat /\ level \in Nat /\ height - level + level = height
  BY <1>2 DEF AtNode
<1>4. Wrote(oram', root, N, height)
  <2>1. Wrote(Finalize(oram), root, N, height - level)
    BY <1>1, <1>2, FinalizesWalk
  <2> DEFINE m == height - level
  <2>2. m \in Nat /\ m + level = height /\ Wrote(Finalize(oram), root, N, m)
    BY <1>3, <2>1
  <2> HIDE DEF N, m
  <2>3. Wrote(Dummies(Finalize(oram), level), root, N, m + level)
    BY <1>3, <2>2, DummiesKeep
  <2>. QED
    BY <2>2, <2>3 DEF LookupHit
<1>5. Expected = ValueIn(node, Lab)
  <2>1. Lab \in DOMAIN dict /\ ValueIn(node, Lab) = dict[Lab]
    BY <1>2 DEF AtNode, LookupHit, Lab
  <2>2. call.op = "get"
    BY <1>1 DEF Walking
  <2>. QED
    BY <2>1, <2>2 DEF Expected, Lab
<1>6. Return(Expected) /\ UNCHANGED <<root, height, size, rise, dict>>
  BY <1>5 DEF LookupHit, Lab
<1> HIDE DEF N
<1>. QED
  BY <1>1, <1>4, <1>6, WalkRests DEF N

LEMMA LookupMissKeeps ==
  ASSUME IInv, LookupMiss
  PROVE  Kept
<1>1. Typed /\ Walking("get")
  BY DEF IInv, LookupMiss
<1>2. PICK k : AtNode(k)
  BY <1>1, WalkAt
<1> DEFINE N == With(Base(oram, root), ref, node)
<1>3. level = 0 /\ height - level = height /\ ~Has(node, Lab)
  BY <1>2 DEF AtNode, LookupMiss, Lab
<1>4. Wrote(oram', root, N, height)
  <2>1. Wrote(Finalize(oram), root, N, height - level)
    BY <1>1, <1>2, FinalizesWalk
  <2>. QED
    BY <1>3, <2>1 DEF LookupMiss
<1>5. Expected = "KeyError"
  <2>1. Lab \notin DOMAIN dict
    <3>1. Lab \in DOMAIN dict => Rank(rise, Lab, height) <= level
      BY <1>1 DEF Walking
    <3>2. Lab \in DOMAIN dict => Rank(rise, Lab, height) \in Nat
      BY <1>2, RankIn DEF AtNode
    <3>. QED
      BY <1>2, <1>3, <3>1, <3>2 DEF AtNode
  <2>2. call.op = "get" /\ call.op # "set"
    BY <1>1 DEF Walking
  <2>3. call.label \notin DOMAIN dict
    BY <2>1 DEF Lab
  <2>. QED
    BY <2>2, <2>3 DEF Expected
<1>6. Return(Expected) /\ UNCHANGED <<root, height, size, rise, dict>>
  BY <1>5 DEF LookupMiss
<1> HIDE DEF N
<1>. QED
  BY <1>1, <1>4, <1>6, WalkRests DEF N

\* No node on the way has the label of a call that goes on.
LEMMA GoesDown ==
  ASSUME Typed, NEW op, Walking(op), NEW k, AtNode(k), level > 0, ~Has(node, Lab), NEW i, i = BisectLeft(node, Lab) + 1
  PROVE  /\ level # 0 /\ i \in 1 .. Len(node.kids) /\ Pred(node.kids[i].left, Tops(rise, dict, height, level - 1), Lab)
         /\ Lab \in DOMAIN dict => Rank(rise, Lab, height) <= level - 1
<1>1. /\ level \in Nat /\ height \in Nat /\ rise \in [Labels -> Nat] /\ Lab \in Labels /\ Lab \in Nat /\ IsMap(dict)
      /\ k \in Nat /\ Pred(k, Tops(rise, dict, height, level), Lab)
      /\ Spells(node, Held(rise, dict, height, level, k), dict, level, k)
      /\ ~(Lab \in DOMAIN dict /\ Rank(rise, Lab, height) = level)
  BY DEF AtNode
<1>2. level # 0
  BY <1>1
<1>3. i \in 1 .. Len(node.kids) /\ Pred(node.kids[i].left, Tops(rise, dict, height, level - 1), Lab)
  BY <1>1, <1>2, ChildDown
<1>4. Lab \in DOMAIN dict => Rank(rise, Lab, height) <= level
  BY DEF Walking
<1>5. Rank(rise, Lab, height) \in Nat
  BY <1>1, RankIn
<1>. QED
  BY <1>1, <1>2, <1>3, <1>4, <1>5

LEMMA LookupDownKeeps ==
  ASSUME IInv, LookupDown
  PROVE  Kept
<1>1. Typed /\ Walking("get") /\ pc = "lookup"
  BY DEF IInv, LookupDown
<1>2. PICK k : AtNode(k)
  BY <1>1, WalkAt
<1> DEFINE i == BisectLeft(node, Lab) + 1
<1>3. Descend(i) /\ level > 0 /\ ~Has(node, Lab)
  BY DEF LookupDown, Lab
<1>4. i = BisectLeft(node, Lab) + 1
  OBVIOUS
<1> HIDE DEF i
<1>5. Typed' /\ Walking("get")' /\ pc' = "lookup"
  BY <1>1, <1>2, <1>3, <1>4, GoesDown, DescendsTo
<1>. QED
  BY <1>5 DEF Kept, IInv, Returns

LEMMA DelDownKeeps ==
  ASSUME IInv, DelDown
  PROVE  Kept
<1>1. Typed /\ Walking("del") /\ pc = "seek" /\ (Lab \in DOMAIN dict \/ height = 0) /\ call.value = Null
  BY DEF IInv, DelDown
<1>2. PICK k : AtNode(k)
  BY <1>1, WalkAt
<1> DEFINE i == BisectLeft(node, Lab) + 1
<1>3. Descend(i) /\ level > 0 /\ ~Has(node, Lab)
  BY DEF DelDown, Lab
<1>4. i = BisectLeft(node, Lab) + 1
  OBVIOUS
<1> HIDE DEF i
<1>5. Typed' /\ Walking("del")' /\ pc' = "seek" /\ UNCHANGED <<call, height, rise, dict>>
  BY <1>1, <1>2, <1>3, <1>4, GoesDown, DescendsTo
<1>6. (Lab \in DOMAIN dict \/ height = 0)' /\ call'.value = Null
  BY <1>1, <1>5 DEF Lab
<1>. QED
  BY <1>5, <1>6 DEF Kept, IInv, Returns

LEMMA DelMissKeeps ==
  ASSUME IInv, DelMiss
  PROVE  Kept
<1>1. Typed /\ Walking("del") /\ (Lab \in DOMAIN dict \/ height = 0)
  BY DEF IInv, DelMiss
<1>2. PICK k : AtNode(k)
  BY <1>1, WalkAt
<1> DEFINE N == With(Base(oram, root), ref, node)
<1>3. level = 0 /\ ~Has(node, Lab)
  BY DEF DelMiss, Lab
<1>4. Lab \notin DOMAIN dict
  <2>1. Lab \in DOMAIN dict => Rank(rise, Lab, height) <= level
    BY <1>1 DEF Walking
  <2>2. Lab \in DOMAIN dict => Rank(rise, Lab, height) \in Nat
    BY <1>2, RankIn DEF AtNode
  <2>. QED
    BY <1>2, <1>3, <2>1, <2>2 DEF AtNode
<1>5. height = 0 /\ ref = NoId
  BY <1>1, <1>2, <1>3, <1>4 DEF AtNode
<1>6. oram.cache = NoBlobs /\ root = node /\ oram.reads = 0 /\ oram.rounds = Twos(0)
  BY <1>1, <1>5, TwosGrow DEF Walking, OnPath
<1>7. Base(oram, root) = N
  BY <1>5, <1>6, WithTwice DEF Base
<1>8. Wrote(oram', root, N, height)
  BY <1>1, <1>5, <1>6, <1>7 DEF Wrote, Typed, DelMiss
<1>9. Expected = "KeyError"
  <2>1. call.op = "del"
    BY <1>1 DEF Walking
  <2>. QED
    BY <1>4, <2>1 DEF Expected, Lab
<1>10. Return(Expected) /\ UNCHANGED <<root, height, size, rise, dict>>
  BY <1>9 DEF DelMiss
<1> HIDE DEF N
<1>. QED
  BY <1>1, <1>8, <1>10, WalkRests DEF N

LEMMA SetDownKeeps ==
  ASSUME IInv, SetDown
  PROVE  Kept
<1>1. Typed /\ Walking("set") /\ pc = "place" /\ call.value \in Values
  BY DEF IInv, SetDown, Placing
<1>2. PICK k : AtNode(k)
  BY <1>1, WalkAt
<1> DEFINE i == BisectLeft(node, Lab) + 1
<1>3. rise \in [Labels -> Nat] /\ height \in Nat /\ level \in Nat /\ Lab \in Labels /\ Lab \in Nat
  BY <1>2 DEF AtNode
<1>4. level > Rank(rise, Lab, height)
  BY <1>3, HeightIsRank DEF SetDown, Lab
<1>5. Rank(rise, Lab, height) \in Nat
  BY <1>3, RankIn
<1>6. level > 0 /\ ~Has(node, Lab) /\ Rank(rise, Lab, height) <= level - 1
  BY <1>2, <1>3, <1>4, <1>5 DEF AtNode
<1>7. BisectRight(node, Lab) = BisectLeft(node, Lab)
  <2> DEFINE M == Held(rise, dict, height, level, k)
  <2>1. Spells(node, M, dict, level, k)
    BY <1>2 DEF AtNode
  <2> HIDE DEF M
  <2>2. (Has(node, Lab) <=> Lab \in M) /\ (Lab \notin M => BisectRight(node, Lab) = BisectLeft(node, Lab))
    BY <1>3, <2>1, SpellsSearch
  <2>. QED
    BY <1>6, <2>2
<1>8. Descend(i) /\ i = BisectLeft(node, Lab) + 1
  BY <1>7 DEF SetDown, Lab
<1> HIDE DEF i
<1>9. Typed' /\ Walking("set")' /\ pc' = "place" /\ UNCHANGED <<call, height, rise, dict>> /\ level' = level - 1
  BY <1>1, <1>2, <1>6, <1>8, GoesDown, DescendsTo
<1>10. Placing'
  BY <1>1, <1>6, <1>9 DEF Placing, Lab
<1>. QED
  BY <1>9, <1>10 DEF Kept, IInv, Returns

LEMMA SetUpdateKeeps ==
  ASSUME IInv, SetUpdate
  PROVE  Kept
<1>1. Typed /\ Walking("set") /\ pc = "place" /\ call.value \in Values
  BY DEF IInv, SetUpdate, Placing
<1>2. PICK k : AtNode(k)
  BY <1>1, WalkAt
<1> DEFINE N == With(Base(oram, root), ref, node)  n == Update(node, Lab, call.value)  O == With(N, ref, n)
           v == call.value  d == With(dict, Lab, v)
<1>3. /\ height - level \in Nat /\ level \in Nat /\ height \in Nat /\ height - level + level = height
      /\ rise \in [Labels -> Nat] /\ IsMap(dict) /\ k \in Nat /\ Spot(ref, height) = <<level, k>>
      /\ ref \in DOMAIN N /\ N[ref] = node
  BY <1>2 DEF AtNode
<1>4. Lab \in Held(rise, dict, height, level, k) /\ Lab \in DOMAIN dict
  BY <1>2 DEF AtNode, SetUpdate, Lab
<1>5. Tree(O, height, Shape(rise, d, d, height, 0), {})
  <2> DEFINE z == 0  G == {}
  <2>1. z = 0 /\ G = {} /\ Tree(N, height, Shape(rise, dict, dict, height, z), G)
    BY <1>1 DEF Walking, Whole
  <2>2. v \in Values
    BY <1>1
  <2> HIDE DEF N, d, v
  <2>3. Tree(With(N, ref, Update(N[ref], Lab, v)), height, Shape(rise, With(dict, Lab, v), With(dict, Lab, v), height, 0), {})
    BY <1>3, <1>4, <2>1, <2>2, TreeUpdate
  <2>. QED
    BY <1>3, <2>3 DEF d, v
<1>6. Wrote(oram', root', O, height)
  <2>1. With(N, ref, n) = With(Base(oram, root), ref, n)
    BY WithTwice
  <2>2. Wrote(Saved(oram, n), RootWith(n), O, height - level)
    <3> HIDE DEF n
    <3>. QED
      BY <1>1, <1>2, <2>1, WalkSaves
  <2> DEFINE m == height - level  o == Saved(oram, n)  r == RootWith(n)
  <2>3. m \in Nat /\ m + level = height /\ Wrote(o, r, O, m)
    BY <1>3, <2>2
  <2>4. oram' = Dummies(o, level) /\ root' = r
    BY DEF SetUpdate, Lab
  <2> HIDE DEF O, m, o, r
  <2>5. Wrote(Dummies(o, level), r, O, m + level)
    BY <1>3, <2>3, DummiesKeep
  <2>. QED
    BY <2>3, <2>4, <2>5
<1>7. DOMAIN d = DOMAIN dict /\ d = [x \in DOMAIN d |-> d[x]] /\ \A x \in DOMAIN d : d[x] = IF x = Lab THEN v ELSE dict[x]
  BY <1>4 DEF With
<1>8. dict' = d /\ Return("ok") /\ UNCHANGED <<height, size, rise>>
  BY DEF SetUpdate, Assigned, Lab
<1> HIDE DEF d, O, N, n
<1>9. IsDict(dict')
  BY <1>1, <1>7, <1>8 DEF Typed, IsDict
<1>10. Sized(0)'
  BY <1>1, <1>7, <1>8 DEF Walking, Sized
<1>11. Return(Expected)
  BY <1>1, <1>8 DEF Expected, Walking
<1>12. Tree(O, height, Shape(rise, dict', dict', height, 0), {})
  BY <1>5, <1>8
<1>. QED
  BY <1>1, <1>6, <1>8, <1>9, <1>10, <1>11, <1>12, Rests

-----------------------------------------------------------------------------
\* A new label comes into the tree.
LEMMA RootWrites ==
  ASSUME NEW o, NEW n, NEW f
  PROVE  With(Base(o, RootWith(n)), ref, f) = With(Base(o, root), ref, f)
<1>1. CASE ref = NoId
  BY <1>1, WithTwice DEF Base, RootWith
<1>2. CASE ref # NoId
  BY <1>2 DEF RootWith
<1>. QED
  BY <1>1, <1>2

LEMMA LeafIsNode == IsNodeRec(Leaf)
<1>1. << >> \in Seq(Labels) /\ << >> \in Seq(Values) /\ << >> \in Seq(Ids) /\ Len(<< >>) = 0
  OBVIOUS
<1>. QED
  BY <1>1 DEF IsNodeRec, Leaf, Node, NodeRecs, Increasing

LEMMA SetInsertKeeps ==
  ASSUME IInv, SetInsert
  PROVE  Kept
<1>1. Typed /\ Walking("set") /\ pc = "place" /\ call.value \in Values
  BY DEF IInv, SetInsert, Placing
<1>2. PICK k : AtNode(k)
  BY <1>1, WalkAt
<1> DEFINE N == With(Base(oram, root), ref, node)  v == call.value  d == With(dict, Lab, v)
           i == BisectLeft(node, Lab)  m == Insert(node, Lab, v)
           f == IF level = 0 THEN m ELSE [m EXCEPT !.kids = InsertAt(@, i + 2, Step)]
           hole == IF level = 0 THEN {} ELSE {Step}
<1>3. /\ level \in Nat /\ height \in Nat /\ level <= height
      /\ rise \in [Labels -> Nat] /\ Lab \in Labels /\ Lab \in Nat /\ IsMap(dict) /\ k \in Nat
      /\ Spot(ref, height) = <<level, k>> /\ Pred(k, Tops(rise, dict, height, level), Lab)
      /\ ref \in DOMAIN N /\ N[ref] = node
  BY <1>2 DEF AtNode
<1>4. level = Rank(rise, Lab, height) /\ ~Has(node, Lab)
  BY <1>3, HeightIsRank DEF SetInsert, Lab
<1>5. Lab \notin DOMAIN dict
  BY <1>2, <1>4 DEF AtNode
<1>6. StepAt(Step, level, Lab)
  <2>1. height <= MaxHeight /\ MaxHeight \in Nat
    BY <1>1, HirbAssumption DEF Typed
  <2>2. level # 0 => level - 1 \in 0 .. MaxHeight
    BY <1>3, <2>1
  <2>. QED
    BY <1>3, <2>2 DEF StepAt, Step, Place, Ids, IsAt
<1>7. TreeInserts(rise, height, dict, N, ref, Lab, level, v, Step)
  <2> DEFINE z == 0  G == {}
  <2>1. z = 0 /\ G = {} /\ Tree(N, height, Shape(rise, dict, dict, height, z), G)
    BY <1>1 DEF Walking, Whole
  <2>2. v \in Values
    BY <1>1
  <2> HIDE DEF N, v
  <2>. QED
    BY <1>3, <1>4, <1>5, <1>6, <2>1, <2>2, TreeInsert
<1>8. /\ Tree(With(N, ref, f), height, Shape(rise, d, dict, height, level), hole)
      /\ IsNodeRec(m) /\ i \in Nat
      /\ level # 0 => i + 1 \in 1 .. Len(f.kids) /\ Pred(f.kids[i + 1].left, Tops(rise, dict, height, level - 1), Lab)
  BY <1>3, <1>7 DEF TreeInserts
<1>9. /\ node' = m /\ root' = RootWith(m) /\ ind' = i /\ size' = size + 1 /\ pc' = "split"
      /\ UNCHANGED <<oram, height, growAt, rise, call, ref, level, sib, sibRef, answer, dict>>
  BY DEF SetInsert, Lab
<1>10. sibRef = NoId /\ sib = Leaf
  BY <1>1 DEF Walking
<1>11. SplitNode' = f
  BY <1>9, <1>10 DEF SplitNode, Step, Lab
<1> HIDE DEF N, d, m, f, i
<1>12. SplitNodes' = With(N, ref, f)
  <2>1. SplitNodes' = With(Base(oram, RootWith(m)), ref, f)
    BY <1>9, <1>10, <1>11 DEF SplitNodes
  <2>2. With(Base(oram, RootWith(m)), ref, f) = With(Base(oram, root), ref, f)
    BY RootWrites
  <2>3. With(N, ref, f) = With(Base(oram, root), ref, f)
    BY WithTwice DEF N
  <2>. QED
    BY <2>1, <2>2, <2>3
<1>13. d = With(dict, Lab, call.value)' /\ Step' = Step /\ Lab' = Lab
  BY <1>9 DEF d, Lab, Step
<1>14. OnPath'
  BY <1>1, <1>9, <1>13 DEF Walking, OnPath, RootWith, Lab
<1>15. call' \in [op : {"set"}, label : Labels, value : Values]
  BY <1>1, <1>9 DEF Walking
<1>16. Sized(1)'
  <2>1. size \in Int /\ Cardinality(DOMAIN dict) \in Nat /\ Cardinality(InitialLabels) \in Nat
    BY <1>1, HirbAssumption, FS_CardinalityType DEF Walking, Sized, Typed, IsDict
  <2>2. size + Cardinality(InitialLabels) = Cardinality(DOMAIN dict) + 0
    BY <1>1 DEF Walking, Sized
  <2>. QED
    BY <1>9, <2>1, <2>2 DEF Sized
<1>17. Onward(SplitNode)'
  BY <1>8, <1>9, <1>11, <1>13 DEF Onward, Kid
<1>18. Tree(SplitNodes', height', Shape(rise', With(dict, Lab, call.value)', dict', height', level'), IF level' = 0 THEN {} ELSE {Step'})
  BY <1>8, <1>9, <1>12, <1>13
<1>19. DOMAIN oram.cache \subseteq {ref, sibRef}
  BY <1>1 DEF Typed
<1>20. Splitting'
  BY <1>4, <1>5, <1>8, <1>9, <1>10, <1>13, <1>14, <1>15, <1>16, <1>17, <1>18, <1>19, LeafIsNode DEF Splitting, Lab
<1>21. Typed'
  <2>1. IsNodeRec(root')
    BY <1>1, <1>8, <1>9 DEF RootWith, Typed
  <2>. QED
    BY <1>1, <1>9, <2>1 DEF Typed
<1>. QED
  BY <1>9, <1>20, <1>21 DEF Kept, IInv, Returns

-----------------------------------------------------------------------------
\* A label leaves the tree.
LEMMA DelHitKeeps ==
  ASSUME IInv, DelHit
  PROVE  Kept
<1>1. Typed /\ Walking("del") /\ pc = "seek" /\ call.value = Null
  BY DEF IInv, DelHit
<1>2. PICK k : AtNode(k)
  BY <1>1, WalkAt
<1> DEFINE N == With(Base(oram, root), ref, node)  d == Without(dict, Lab)
           i == BisectLeft(node, Lab)  m == Delete(node, Lab)
           f == IF level = 0 THEN m ELSE [m EXCEPT !.kids = RemoveAt(@, i + 2)]
<1>3. /\ level \in Nat /\ height \in Nat /\ level <= height
      /\ rise \in [Labels -> Nat] /\ Lab \in Labels /\ Lab \in Nat \ {0} /\ IsMap(dict) /\ k \in Nat
      /\ Spot(ref, height) = <<level, k>> /\ Pred(k, Tops(rise, dict, height, level), Lab)
      /\ ref \in DOMAIN N /\ N[ref] = node
  BY <1>2, HirbAssumption DEF AtNode
<1>4. level = Rank(rise, Lab, height) /\ Lab \in DOMAIN dict /\ Lab \in Held(rise, dict, height, level, k)
  BY <1>2 DEF AtNode, DelHit, Lab
<1>5. TreeDeletes(rise, height, dict, N, ref, Lab, level)
  <2> DEFINE z == 0  G == {}
  <2>1. z = 0 /\ G = {} /\ Tree(N, height, Shape(rise, dict, dict, height, z), G)
    BY <1>1 DEF Walking, Whole
  <2> HIDE DEF N
  <2>. QED
    BY <1>3, <1>4, <2>1, TreeDelete
<1>6. /\ Tree(With(N, ref, f), height, Shape(rise, d, dict, height, level), {})
      /\ IsNodeRec(m) /\ i \in Nat
      /\ level # 0 => /\ i + 1 \in 1 .. Len(f.kids) /\ Pred(f.kids[i + 1].left, Tops(rise, dict, height, level - 1), Lab)
                      /\ node.kids[i + 2] \in DOMAIN N /\ IsAt(node.kids[i + 2], level - 1, Lab)
  BY <1>3, <1>5 DEF TreeDeletes
<1>7. /\ node' = m /\ root' = RootWith(m) /\ ind' = i /\ size' = size - 1 /\ pc' = "merge"
      /\ UNCHANGED <<oram, height, growAt, rise, call, ref, level, sib, sibRef, answer, dict>>
  BY DEF DelHit, Lab
<1>8. sibRef = NoId /\ sib = Leaf
  BY <1>1 DEF Walking
<1>9. MergeNode' = f
  BY <1>7, <1>8 DEF MergeNode
<1>10. m.kids = node.kids
  <2>1. node \in NodeRecs
    BY <1>2 DEF AtNode, Spells
  <2>. QED
    BY <2>1 DEF Delete, NodeRecs
<1>11. level # 0 => node.kids[i + 2] \in DOMAIN oram.blobs
  <2> DEFINE c == node.kids[i + 2]
  <2> HIDE DEF c
  <2> SUFFICES ASSUME level # 0 PROVE c \in DOMAIN oram.blobs
    BY DEF c
  <2>1. c \in DOMAIN N /\ c.level = level - 1 /\ c.left = Lab
    BY <1>6 DEF c, IsAt
  <2>2. DOMAIN N = DOMAIN oram.blobs \cup {NoId, ref}
    BY DEF Base, With
  <2>3. c # NoId
    BY <1>3, <2>1 DEF NoId
  <2>4. c # ref
    <3>1. ref # NoId => ref.level = level
      BY <1>3 DEF Spot
    <3>. QED
      BY <1>3, <2>1, <2>3, <3>1
  <2>. QED
    BY <2>1, <2>2, <2>3, <2>4
<1>12. Orphan' = node.kids[i + 2]
  BY <1>7, <1>8, <1>10 DEF Orphan
<1> HIDE DEF N, d, m, f, i
<1>13. With(Base(oram', root'), ref', MergeNode') = With(N, ref, f)
  <2>1. With(Base(oram, RootWith(m)), ref, f) = With(Base(oram, root), ref, f)
    BY RootWrites
  <2>2. With(N, ref, f) = With(Base(oram, root), ref, f)
    BY WithTwice DEF N
  <2>. QED
    BY <1>7, <1>9, <2>1, <2>2
<1>14. d = Without(dict, Lab)' /\ Lab' = Lab
  BY <1>7 DEF d, Lab
<1>15. OnPath'
  BY <1>1, <1>7, <1>14 DEF Walking, OnPath, RootWith, Lab
<1>16. call' \in [op : {"del"}, label : Labels, value : {Null}]
  BY <1>1, <1>7 DEF Walking
<1>17. Sized(-1)'
  <2>1. size \in Int /\ Cardinality(DOMAIN dict) \in Nat /\ Cardinality(InitialLabels) \in Nat
    BY <1>1, HirbAssumption, FS_CardinalityType DEF Walking, Sized, Typed, IsDict
  <2>2. size + Cardinality(InitialLabels) = Cardinality(DOMAIN dict) + 0
    BY <1>1 DEF Walking, Sized
  <2>. QED
    BY <1>7, <2>1, <2>2 DEF Sized
<1>18. Onward(MergeNode)'
  BY <1>6, <1>7, <1>9, <1>14 DEF Onward, Kid
<1>19. Tree(With(Base(oram', root'), ref', MergeNode'), height', Shape(rise', Without(dict, Lab)', dict', height', level'), {})
  BY <1>6, <1>7, <1>13, <1>14
<1>20. DOMAIN oram.cache \subseteq {ref, sibRef}
  BY <1>1 DEF Typed
<1>21. Merging'
  BY <1>4, <1>6, <1>7, <1>8, <1>11, <1>12, <1>14, <1>15, <1>16, <1>17, <1>18, <1>19, <1>20, LeafIsNode DEF Merging, Lab
<1>22. Typed'
  <2>1. IsNodeRec(root')
    BY <1>1, <1>6, <1>7 DEF RootWith, Typed
  <2>. QED
    BY <1>1, <1>7, <2>1 DEF Typed
<1>. QED
  BY <1>7, <1>21, <1>22 DEF Kept, IInv, Returns

-----------------------------------------------------------------------------
\* A split or a merge goes one level down.

\* Where the parent and its sibling are, in a split.
LEMMA SplitIsAt ==
  ASSUME Typed, Splitting
  PROVE  /\ level \in Nat /\ height \in Nat /\ level <= height /\ (ref = NoId <=> level = height)
         /\ rise \in [Labels -> Nat] /\ Lab \in Labels /\ Lab \in Nat \ {0} /\ IsMap(dict)
         /\ IsMap(With(dict, Lab, call.value)) /\ call.value \in Values
         /\ ref \in DOMAIN SplitNodes /\ SplitNodes[ref] = SplitNode
         /\ sibRef # NoId => ref # sibRef /\ ref # NoId
<1>1. level \in Nat /\ height \in Nat /\ level <= height /\ rise \in [Labels -> Nat] /\ IsMap(dict)
  BY HirbAssumption DEF Typed, IsDict, IsMap
<1>2. Lab \in Labels /\ Lab \in Nat \ {0} /\ call.value \in Values
  BY HirbAssumption DEF Splitting, Lab
<1>3. IsMap(With(dict, Lab, call.value))
  BY <1>1, <1>2 DEF IsMap, With
<1>4. sibRef # NoId => ref # sibRef /\ ref # NoId
  <2> SUFFICES ASSUME sibRef # NoId PROVE ref # sibRef /\ ref # NoId
    OBVIOUS
  <2>1. ref # NoId /\ sibRef = Place(level, Lab)
    BY DEF Splitting
  <2>2. Pred(Spot(ref, height)[2], Tops(rise, dict, height, level), Lab)
    BY DEF Splitting, OnPath
  <2>3. ref.left < Lab
    BY <2>1, <2>2 DEF Pred, Spot
  <2>4. sibRef.left = Lab
    BY <2>1 DEF Place
  <2>. QED
    BY <1>2, <2>1, <2>3, <2>4
<1>5. ref \in DOMAIN SplitNodes /\ SplitNodes[ref] = SplitNode
  BY <1>4 DEF SplitNodes, With
<1>6. ref # NoId => ref.level < height
  BY <1>5 DEF Splitting, Tree
<1>7. ref = NoId <=> level = height
  BY <1>1, <1>6 DEF Splitting, OnPath, Spot
<1>. QED
  BY <1>1, <1>2, <1>3, <1>4, <1>5, <1>7

\* Parent and sibling are written back with the new name of the child.
SplitStore(n) == Saved(IF sibRef = NoId THEN oram ELSE SetBlob(oram, sibRef, SplitSib), n)

LEMMA SplitWrites ==
  ASSUME Typed, Splitting, NEW n
  PROVE  Wrote(SplitStore(n), RootWith(n), With(SplitNodes, ref, n), height - level)
<1> DEFINE b == oram.blobs  ca == oram.cache  re == oram.reads  ro == oram.rounds  S == SplitSib
<1>1. oram = Store(b, ca, re, ro)
  BY IsStoreIs DEF Typed
<1>2. OnPath /\ (ref # NoId => level < height) /\ (sibRef # NoId => ref # sibRef /\ ref # NoId)
  BY SplitIsAt DEF Splitting
<1>3. DOMAIN ca \subseteq {ref, sibRef} \ {NoId} /\ (ref = NoId => ca = NoBlobs)
  BY DEF Typed, Splitting, OnPath
<1>4. CASE sibRef = NoId
  <2>1. (ref = NoId => ca = NoBlobs) /\ DOMAIN ca \subseteq {ref}
    BY <1>3, <1>4
  <2>2. SplitStore(n) = Saved(Store(b, ca, re, ro), n)
    BY <1>1, <1>4 DEF SplitStore
  <2>3. With(SplitNodes, ref, n) = With(Base(oram, root), ref, n)
    BY <1>4, WithTwice DEF SplitNodes
  <2> HIDE DEF ca
  <2>4. Wrote(Saved(Store(b, ca, re, ro), n), RootWith(n), With(Base(oram, root), ref, n), height - level)
    BY <1>2, <2>1, WritesOne
  <2>. QED
    BY <2>2, <2>3, <2>4
<1>5. CASE sibRef # NoId
  <2>1. SplitStore(n) = Saved(Store(b, With(ca, sibRef, S), re, ro), n)
    BY <1>1, <1>5, SetBlobIs DEF SplitStore
  <2>2. With(SplitNodes, ref, n) = With(With(Base(oram, root), ref, n), sibRef, S)
    <3> DEFINE B0 == Base(oram, root)  m == SplitNode
    <3>1. SplitNodes = With(With(B0, ref, m), sibRef, S)
      BY <1>5 DEF SplitNodes
    <3> HIDE DEF B0, m, S
    <3>2. With(With(With(B0, ref, m), sibRef, S), ref, n) = With(With(With(B0, ref, m), ref, n), sibRef, S)
      BY <1>2, <1>5, WithSwap
    <3>3. With(With(B0, ref, m), ref, n) = With(B0, ref, n)
      BY WithTwice
    <3>. QED
      BY <3>1, <3>2, <3>3 DEF B0
  <2>3. RootWith(n) = root
    BY <1>2, <1>5 DEF RootWith
  <2>4. DOMAIN ca \subseteq {ref, sibRef} /\ level < height /\ ref # NoId /\ sibRef # ref
    BY <1>2, <1>3, <1>5
  <2> HIDE DEF ca, S
  <2>5. Wrote(Saved(Store(b, With(ca, sibRef, S), re, ro), n), root, With(With(Base(oram, root), ref, n), sibRef, S), height - level)
    BY <1>2, <1>5, <2>4, WritesTwo
  <2>. QED
    BY <2>1, <2>2, <2>3, <2>5
<1>. QED
  BY <1>4, <1>5

LEMMA SetSplitKeeps ==
  ASSUME IInv, SetSplit
  PROVE  Kept
<1> DEFINE N == SplitNodes  n == SplitNode  j == ind + 1  c == Kid(n)  next == Renamed(c)  R == Rename(n, j)
           e == With(dict, Lab, call.value)  W == Shape(rise, e, dict, height, level)
           o == SplitStore(R)  r == RootWith(R)  s == Fetch(o, c, next)  O == Moved(N, ref, j)
           x == Lab  y == Place(level - 2, Lab)  b == level - 1
           left == SplitLeft(N[c], Lab)  right == SplitRight(N[c], Lab)
           f == IF b = 0 THEN right ELSE [right EXCEPT !.kids[1] = y]
           hole == IF b = 0 THEN {} ELSE {y}
<1>1. Typed /\ Splitting /\ pc = "split" /\ level > 0
  BY DEF IInv, SetSplit
<1>2. /\ level \in Nat /\ height \in Nat /\ level <= height /\ (ref = NoId <=> level = height)
      /\ rise \in [Labels -> Nat] /\ Lab \in Labels /\ Lab \in Nat \ {0} /\ IsMap(dict)
      /\ IsMap(e) /\ call.value \in Values
      /\ ref \in DOMAIN N /\ N[ref] = n
      /\ sibRef # NoId => ref # sibRef /\ ref # NoId
  BY <1>1, SplitIsAt
<1>3. b \in Nat /\ b + 1 = level /\ level # 0 /\ b < level
  BY <1>1, <1>2
<1>4. Tree(N, height, W, {Step}) /\ Shaped(W, height)
  <2>1. Tree(N, height, W, {Step})
    BY <1>1, <1>3 DEF Splitting
  <2>2. Shaped(W, height)
    <3> DEFINE d2 == e
    <3> HIDE DEF d2
    <3>1. IsMap(d2)
      BY <1>2 DEF d2
    <3>2. Shaped(Shape(rise, d2, dict, height, level), height)
      BY <1>2, <3>1, ShapeShaped
    <3>. QED
      BY <3>2 DEF d2
  <2>. QED
    BY <2>1, <2>2
<1>5. j \in 1 .. Len(n.kids) /\ Pred(c.left, Tops(rise, dict, height, b), Lab)
  BY <1>1, <1>3 DEF Splitting, Onward
<1>6. c \in DOMAIN N
  <2>1. ToSet(n.kids) \subseteq DOMAIN N \cup {Step}
    BY <1>2, <1>4 DEF Tree
  <2>2. n.kids \in Seq(Ids)
    <3>1. Fits(n, W, Spot(ref, height))
      BY <1>2, <1>4 DEF Tree
    <3>. QED
      BY <3>1, SpellsFacts DEF Fits
  <2>3. c \in ToSet(n.kids)
    <3>1. DOMAIN n.kids = 1 .. Len(n.kids)
      BY <2>2, LenProperties
    <3>. QED
      BY <1>5, <3>1 DEF ToSet, Kid
  <2>4. c # Step
    <3>1. c.left < Lab /\ Step.left = Lab
      BY <1>5 DEF Pred, Step, Place
    <3>. QED
      BY <1>2, <3>1
  <2>. QED
    BY <2>1, <2>3, <2>4
<1>7. Wrote(o, r, With(N, ref, R), height - level)
  <2> HIDE DEF R
  <2>. QED
    BY <1>1, SplitWrites
<1>8. N[ref].kids[j] = c /\ Rename(N[ref], j) = R
  BY <1>2 DEF Kid
<1>9. j \in 1 .. Len(N[ref].kids) /\ N[ref].kids[j] \in DOMAIN N
  BY <1>2, <1>5, <1>6, <1>8
<1>10. Fetches(o, r, N, ref, j) /\ TreeMoves(N, height, W, {Step}, ref, j)
  <2>1. With(N, ref, R) = With(N, ref, Rename(N[ref], j))
    BY <1>8
  <2> DEFINE G == {Step}
  <2>2. Tree(N, height, W, G)
    BY <1>4
  <2> HIDE DEF N, W, o, r, G, j, R
  <2>3. Fetches(o, r, N, ref, j)
    BY <1>2, <1>4, <1>7, <1>9, <2>1, <2>2, FetchesChild DEF Wrote
  <2>4. TreeMoves(N, height, W, G, ref, j)
    BY <1>2, <1>4, <1>9, <2>2, TreeRename
  <2>. QED
    BY <2>3, <2>4 DEF G
<1>11. Spot(ref, height)[1] = level
  BY <1>1 DEF Splitting, OnPath
<1>12. /\ Tree(O, height, W, {Step}) /\ c \in Ids /\ next \in Ids /\ Spot(next, height) = Spot(c, height)
       /\ Spot(c, height)[1] = b /\ Spot(c, height)[2] = c.left
       /\ O[next] = N[c] /\ next \in DOMAIN O
  BY <1>8, <1>10, <1>11 DEF TreeMoves
<1>13. next # NoId
  BY <1>12, NoIdIsNone
<1>14. /\ Found(o, c) /\ BlobOf(o, c) = N[c] /\ FetchedAs(o, c, next) = next
       /\ s = Store(Without(o.blobs, c), With(NoBlobs, next, N[c]), o.reads + 1, o.rounds)
       /\ next \notin DOMAIN s.blobs /\ NoId \notin DOMAIN s.blobs
       /\ \A z : With(Base(s, r), next, z) = With(O, next, z)
  BY <1>8, <1>10 DEF Fetches
<1>15. Step = Place(b, Lab) /\ Step \in Ids /\ IsAt(Step, b, Lab) /\ Step # NoId
  <2>1. b \in 0 .. MaxHeight
    BY <1>1, <1>2, <1>3, HirbAssumption DEF Typed
  <2>2. Step = Place(b, Lab)
    BY DEF Step
  <2> HIDE DEF b
  <2>. QED
    BY <1>2, <2>1, <2>2, NoIdIsNone DEF Place, Ids, IsAt
<1>16. StepAt(y, b, Lab)
  <2>1. b # 0 => level - 2 \in 0 .. MaxHeight /\ level - 2 = b - 1
    BY <1>1, <1>2, <1>3, HirbAssumption DEF Typed
  <2> HIDE DEF b
  <2>. QED
    BY <1>2, <2>1 DEF StepAt, Place, Ids, IsAt
<1>17. /\ root' = r /\ node' = left /\ sib' = right /\ ind' = Len(left.keys) /\ ref' = next /\ sibRef' = Step
       /\ oram' = Create(Access(s), Step) /\ level' = b
       /\ UNCHANGED <<call, pc, answer, height, size, growAt, rise, dict>>
  <2>1. n = IF sibRef = NoId THEN [node EXCEPT !.kids = InsertAt(@, ind + 2, Step)] ELSE node
    BY <1>3 DEF SplitNode
  <2>2. SplitSib = [sib EXCEPT !.kids[1] = Step]
    BY <1>3 DEF SplitSib
  <2>3. /\ root' = r
        /\ IF Found(o, c)
           THEN /\ node'   = SplitLeft(BlobOf(o, c), call.label)
                /\ sib'    = SplitRight(BlobOf(o, c), call.label)
                /\ ind'    = Len(node'.keys)
                /\ ref'    = FetchedAs(o, c, next)
                /\ sibRef' = Step
                /\ oram'   = Create(Access(s), Step)
                /\ level'  = level - 1
                /\ UNCHANGED <<call, pc, answer>>
           ELSE oram' = FetchFails(o) /\ Return("KeyError")
        /\ UNCHANGED <<height, size, growAt, rise, dict>>
    <3> DEFINE n1 == IF sibRef = NoId THEN [node EXCEPT !.kids = InsertAt(@, ind + 2, Place(level - 1, call.label))] ELSE node
               o1 == Saved(IF sibRef = NoId THEN oram ELSE SetBlob(oram, sibRef, [sib EXCEPT !.kids[1] = Place(level - 1, call.label)]),
                           Rename(n1, ind + 1))
               c1 == n1.kids[ind + 1]
    <3>1. n1 = n /\ Place(level - 1, call.label) = Step
      BY <2>1 DEF Step, Lab
    <3>2. o1 = o
      BY <2>2, <3>1 DEF SplitStore
    <3>3. c1 = c
      BY <3>1 DEF Kid
    <3>4. /\ root' = RootWith(Rename(n1, ind + 1))
          /\ IF Found(o1, c1)
             THEN /\ node'   = SplitLeft(BlobOf(o1, c1), call.label)
                  /\ sib'    = SplitRight(BlobOf(o1, c1), call.label)
                  /\ ind'    = Len(node'.keys)
                  /\ ref'    = FetchedAs(o1, c1, Renamed(c1))
                  /\ sibRef' = Place(level - 1, call.label)
                  /\ oram'   = Create(Access(Fetch(o1, c1, Renamed(c1))), Place(level - 1, call.label))
                  /\ level'  = level - 1
                  /\ UNCHANGED <<call, pc, answer>>
             ELSE oram' = FetchFails(o1) /\ Return("KeyError")
          /\ UNCHANGED <<height, size, growAt, rise, dict>>
      BY DEF SetSplit
    <3> HIDE DEF n1, o1, c1
    <3> HIDE DEF o, c
    <3>. QED
      BY <3>1, <3>2, <3>3, <3>4
  <2> HIDE DEF o, c, next, s
  <2>. QED
    BY <1>14, <2>3 DEF Lab
<1>18. TreeSplits(rise, height, dict, e, Lab, O, next, Step, y, b)
  <2>1. Lab \notin DOMAIN dict /\ b < Rank(rise, Lab, height)
    <3>1. Rank(rise, Lab, height) \in Nat
      BY <1>2, RankIn
    <3>2. level = Rank(rise, Lab, height) \/ level < Rank(rise, Lab, height)
      BY <1>1 DEF Splitting
    <3>. QED
      BY <1>1, <1>2, <1>3, <3>1, <3>2 DEF Splitting
  <2>2. DOMAIN e = DOMAIN dict \cup {Lab} /\ \A k \in DOMAIN dict : e[k] = dict[k]
    BY <2>1 DEF With
  <2> DEFINE G == {Step}  k == c.left
  <2>3. Tree(O, height, Shape(rise, e, dict, height, b + 1), G) /\ G = {Step}
    BY <1>3, <1>12
  <2>4. Spot(next, height) = <<b, k>>
    <3>1. Spot(next, height) = <<Spot(next, height)[1], Spot(next, height)[2]>>
      BY DEF Spot
    <3>. QED
      BY <1>12, <3>1
  <2>5. Pred(k, Tops(rise, dict, height, b), Lab)
    BY <1>5
  <2> HIDE DEF N, n, j, c, next, e, o, r, s, O, W, R, y, b, G, k
  <2>. QED
    BY <1>2, <1>3, <1>12, <1>15, <1>16, <2>1, <2>2, <2>3, <2>4, <2>5, TreeSplit
<1>19. /\ Tree(With(With(O, next, left), Step, f), height, Shape(rise, e, dict, height, b), hole)
       /\ Step \notin DOMAIN O /\ IsNodeRec(left) /\ IsNodeRec(right) /\ Len(left.keys) \in Nat
       /\ b # 0 => /\ Len(left.keys) + 1 \in 1 .. Len(left.kids)
                   /\ Pred(left.kids[Len(left.keys) + 1].left, Tops(rise, dict, height, b - 1), Lab)
  BY <1>12, <1>18 DEF TreeSplits
<1>20. o.reads = 0 /\ o.rounds = Twos(height - level)
  BY <1>7 DEF Wrote
<1> HIDE DEF N, n, j, c, next, e, o, r, s, O, W, R, left, right, f, hole, y, b
<1>21. /\ oram'.blobs = s.blobs /\ oram'.cache = With(With(NoBlobs, next, N[c]), Step, NoBlobs) /\ oram'.reads = 2
       /\ oram'.rounds = Twos(height - level) /\ IsStore(oram')
  <2> DEFINE sb == s.blobs  ca == With(NoBlobs, next, N[c])  ro == Twos(height - level)
  <2>1. s = Store(sb, ca, 1, ro)
    BY <1>14, <1>20, StoreFields
  <2> HIDE DEF sb, ca, ro
  <2>2. Access(Store(sb, ca, 1, ro)) = Store(sb, ca, 1 + 1, ro)
    BY AccessIs
  <2>3. Access(s) = Store(sb, ca, 2, ro)
    BY <2>1, <2>2
  <2>4. Create(Access(s), Step) = Store(sb, With(ca, Step, NoBlobs), 2, ro)
    BY <2>3, SetBlobIs DEF Create
  <2>. QED
    BY <1>17, <2>4, StoreFields DEF sb, ca, ro
<1>22. Step # next
  BY <1>12, <1>19
<1>23. Lab' = Lab /\ Step' = y
  <2>1. b - 1 = level - 2
    BY <1>2 DEF b
  <2>. QED
    BY <1>17, <2>1 DEF Lab, Step, y
<1>24. SplitNode' = left /\ SplitSib' = f
  BY <1>15, <1>17, <1>23 DEF SplitNode, SplitSib, f
<1>25. SplitNodes' = With(With(O, next, left), Step, f)
  <2>1. Base(oram', root') = Base(s, r)
    BY <1>17, <1>21 DEF Base
  <2>2. SplitNodes' = With(With(Base(s, r), next, left), Step, f)
    BY <1>15, <1>17, <1>24, <2>1 DEF SplitNodes
  <2>3. With(Base(s, r), next, left) = With(O, next, left)
    BY <1>14
  <2>. QED
    BY <2>2, <2>3
<1>26. OnPath'
  <2>1. height' - level' - 1 = height - level
    BY <1>2, <1>17 DEF b
  <2>2. Spot(ref', height')[1] = level' /\ Spot(ref', height')[2] = c.left
    BY <1>12, <1>17
  <2>3. Pred(c.left, Tops(rise, dict, height, level'), Lab)
    BY <1>5, <1>17
  <2>. QED
    BY <1>13, <1>17, <1>21, <1>23, <2>1, <2>2, <2>3 DEF OnPath
<1>27. e = With(dict, Lab, call.value)'
  BY <1>17, <1>23 DEF e
<1>28. Tree(SplitNodes', height', Shape(rise', With(dict, Lab, call.value)', dict', height', level'), IF level' = 0 THEN {} ELSE {Step'})
  <2>1. hole = IF level' = 0 THEN {} ELSE {Step'}
    BY <1>17, <1>23 DEF hole
  <2>. QED
    BY <1>17, <1>19, <1>25, <1>27, <2>1
<1>29. Onward(SplitNode)'
  BY <1>17, <1>19, <1>23, <1>24 DEF Onward, Kid
<1>30. DOMAIN oram'.cache = {next, Step}
  BY <1>21 DEF With, NoBlobs
<1>31. level' < Rank(rise', Lab', height') /\ sibRef' = Place(level', Lab')
  <2>1. Rank(rise, Lab, height) \in Nat
    BY <1>2, RankIn
  <2>2. level = Rank(rise, Lab, height) \/ level < Rank(rise, Lab, height)
    BY <1>1 DEF Splitting
  <2>. QED
    BY <1>2, <1>3, <1>15, <1>17, <1>23, <2>1, <2>2
<1>32. Splitting'
  <2>1. call' \in [op : {"set"}, label : Labels, value : Values] /\ Lab' \notin DOMAIN dict'
    BY <1>1, <1>17, <1>23 DEF Splitting
  <2>2. Sized(1)'
    BY <1>1, <1>17 DEF Splitting, Sized
  <2>3. IsNodeRec(node') /\ IsNodeRec(sib') /\ ind' \in Nat
    BY <1>17, <1>19
  <2>4. sibRef' # NoId /\ ref' # NoId /\ DOMAIN oram'.cache \subseteq {ref', sibRef'}
    BY <1>13, <1>15, <1>17, <1>30
  <2>. QED
    BY <1>26, <1>28, <1>29, <1>31, <2>1, <2>2, <2>3, <2>4 DEF Splitting
<1>33. IsNodeRec(root')
  <2> DEFINE T == With(With(O, next, left), Step, f)
  <2>1. IsNodeRec(T[NoId])
    <3>1. Tree(T, height, Shape(rise, e, dict, height, b), hole)
      BY <1>19
    <3> HIDE DEF T
    <3>. QED
      BY <1>2, <1>3, <3>1, RootIn
  <2>2. T[NoId] = root'
    <3>1. SplitNodes' = With(With(Base(oram', root'), ref', SplitNode'), sibRef', SplitSib')
      BY <1>15, <1>17 DEF SplitNodes
    <3>2. SplitNodes'[NoId] = root'
      BY <1>13, <1>15, <1>17, <3>1 DEF With, Base
    <3>. QED
      BY <1>25, <3>2
  <2>. QED
    BY <2>1, <2>2
<1>34. DOMAIN oram'.blobs \cap {NoId, ref', sibRef'} = {}
  <2>1. With(Base(s, r), next, left) = With(O, next, left)
    BY <1>14
  <2>2. DOMAIN s.blobs \subseteq DOMAIN O
    <3>1. DOMAIN s.blobs \subseteq DOMAIN With(Base(s, r), next, left)
      BY DEF With, Base
    <3>2. DOMAIN With(O, next, left) = DOMAIN O
      BY <1>12 DEF With
    <3>. QED
      BY <2>1, <3>1, <3>2
  <2>. QED
    BY <1>14, <1>17, <1>19, <1>21, <2>2
<1>35. Typed'
  <2>1. level' \in 0 .. height'
    BY <1>2, <1>3, <1>17
  <2>. QED
    BY <1>1, <1>12, <1>13, <1>15, <1>17, <1>21, <1>30, <1>33, <1>34, <2>1 DEF Typed
<1>. QED
  BY <1>1, <1>17, <1>32, <1>35 DEF Kept, IInv, Returns

LEMMA WithIsMap == ASSUME NEW f, NEW x, NEW n, NEW g, g = With(f, x, n) PROVE g = [y \in DOMAIN g |-> g[y]]
BY DEF With

LEMMA WithSame ==
  ASSUME NEW f, f = [x \in DOMAIN f |-> f[x]], NEW x \in DOMAIN f, NEW n, f[x] = n
  PROVE  With(f, x, n) = f
<1> DEFINE g == With(f, x, n)
<1>1. g = [y \in DOMAIN f |-> g[y]] /\ \A y \in DOMAIN f : g[y] = f[y]
  BY DEF With
<1> HIDE DEF g
<1>2. g = f
  BY <1>1
<1>. QED
  BY <1>2 DEF g

LEMMA SetDoneKeeps ==
  ASSUME IInv, SetDone
  PROVE  Kept
<1> DEFINE N == SplitNodes  d == With(dict, Lab, call.value)
<1>1. Typed /\ Splitting /\ pc = "split" /\ level = 0
  BY DEF IInv, SetDone
<1>2. /\ height \in Nat /\ ref \in DOMAIN N /\ N[ref] = SplitNode /\ Lab \in Labels /\ call.value \in Values
  BY <1>1, SplitIsAt
<1>3. SplitNode = node /\ SplitSib = sib
  BY <1>1 DEF SplitNode, SplitSib
<1>4. With(N, ref, node) = N
  <2>1. N = [y \in DOMAIN N |-> N[y]]
    <3> DEFINE A == With(Base(oram, root), ref, SplitNode)
    <3>1. N = A \/ N = With(A, sibRef, SplitSib)
      BY DEF SplitNodes
    <3> HIDE DEF A, N
    <3>2. A = [y \in DOMAIN A |-> A[y]]
      BY WithIsMap DEF A
    <3>. QED
      BY <3>1, <3>2, WithIsMap
  <2> HIDE DEF N
  <2>. QED
    BY <1>2, <1>3, <2>1, WithSame
<1>5. Wrote(oram', root', N, height)
  <2>1. Wrote(SplitStore(node), RootWith(node), With(N, ref, node), height - level)
    BY <1>1, SplitWrites
  <2>2. oram' = SplitStore(node) /\ root' = root
    BY <1>3 DEF SetDone, SplitStore
  <2>3. RootWith(node) = root
    BY <1>1 DEF RootWith, Splitting, OnPath
  <2>4. height - level = height
    BY <1>1, <1>2
  <2> HIDE DEF N
  <2>. QED
    BY <1>4, <2>1, <2>2, <2>3, <2>4
<1>6. Lab \notin DOMAIN dict
  BY <1>1 DEF Splitting
<1>7. dict' = d /\ Return("ok") /\ UNCHANGED <<height, size, rise>>
  BY DEF SetDone, Assigned, Lab
<1>8. /\ DOMAIN d = DOMAIN dict \cup {Lab} /\ d = [z \in DOMAIN d |-> d[z]]
      /\ \A z \in DOMAIN d : d[z] = IF z = Lab THEN call.value ELSE dict[z]
  BY DEF With
<1>9. Tree(N, height, Shape(rise, dict', dict', height, 0), {})
  <2>1. Tree(N, height, Shape(rise, d, dict, height, 0), {})
    BY <1>1 DEF Splitting
  <2>2. rise \in [Labels -> Nat]
    BY <1>1 DEF Typed
  <2> HIDE DEF N, d
  <2>3. Shape(rise, d, dict, height, 0) = Shape(rise, d, d, height, 0)
    BY <1>2, <2>2, ShapeWhole
  <2>. QED
    BY <1>7, <2>1, <2>3
<1> HIDE DEF d, N
<1>10. IsFiniteSet(DOMAIN dict) /\ DOMAIN dict \subseteq Labels /\ \A z \in DOMAIN dict : dict[z] \in Values
  BY <1>1 DEF Typed, IsDict
<1>11. IsFiniteSet(DOMAIN dict \cup {Lab}) /\ Cardinality(DOMAIN dict \cup {Lab}) = Cardinality(DOMAIN dict) + 1
  BY <1>6, <1>10, FS_AddElement
<1>12. IsDict(dict')
  BY <1>2, <1>7, <1>8, <1>10, <1>11 DEF IsDict
<1>13. Sized(0)'
  <2>1. size \in Int /\ Cardinality(DOMAIN dict) \in Nat /\ Cardinality(InitialLabels) \in Nat
    BY <1>1, <1>10, HirbAssumption, FS_CardinalityType DEF Splitting, Sized
  <2>2. size + Cardinality(InitialLabels) = Cardinality(DOMAIN dict) + 1
    BY <1>1 DEF Splitting, Sized
  <2>3. Cardinality(DOMAIN dict') = Cardinality(DOMAIN dict) + 1
    BY <1>7, <1>8, <1>11
  <2>. QED
    BY <1>7, <2>1, <2>2, <2>3 DEF Sized
<1>14. Return(Expected)
  BY <1>1, <1>7 DEF Expected, Splitting
<1>. QED
  BY <1>1, <1>5, <1>7, <1>9, <1>12, <1>13, <1>14, Rests

MergeNodes == With(Base(oram, root), ref, MergeNode)
MergeStore(n) == Saved(IF sibRef = NoId THEN oram ELSE Destroy(oram, sibRef), n)

LEMMA MergeIsAt ==
  ASSUME Typed, Merging
  PROVE  /\ level \in Nat /\ height \in Nat /\ level <= height /\ (ref = NoId <=> level = height)
         /\ rise \in [Labels -> Nat] /\ Lab \in Labels /\ Lab \in Nat \ {0} /\ IsMap(dict)
         /\ IsMap(Without(dict, Lab))
         /\ ref \in DOMAIN MergeNodes /\ MergeNodes[ref] = MergeNode
         /\ sibRef # NoId => ref # sibRef /\ ref # NoId
<1>1. level \in Nat /\ height \in Nat /\ level <= height /\ rise \in [Labels -> Nat] /\ IsMap(dict)
  BY HirbAssumption DEF Typed, IsDict, IsMap
<1>2. Lab \in Labels /\ Lab \in Nat \ {0}
  BY HirbAssumption DEF Merging, Lab
<1>3. IsMap(Without(dict, Lab))
  BY <1>1 DEF IsMap, Without
<1>4. sibRef # NoId => ref # sibRef /\ ref # NoId
  BY DEF Merging
<1>5. ref \in DOMAIN MergeNodes /\ MergeNodes[ref] = MergeNode
  BY DEF MergeNodes, With
<1>6. ref # NoId => ref.level < height
  BY <1>5 DEF Merging, Tree, MergeNodes
<1>7. ref = NoId <=> level = height
  BY <1>1, <1>6 DEF Merging, OnPath, Spot
<1>. QED
  BY <1>1, <1>2, <1>3, <1>4, <1>5, <1>7

LEMMA MergeWrites ==
  ASSUME Typed, Merging, NEW n
  PROVE  Wrote(MergeStore(n), RootWith(n), With(MergeNodes, ref, n), height - level)
<1> DEFINE b == oram.blobs  ca == oram.cache  re == oram.reads  ro == oram.rounds
           c == IF sibRef = NoId THEN ca ELSE Without(ca, sibRef)
<1>1. oram = Store(b, ca, re, ro)
  BY IsStoreIs DEF Typed
<1>2. OnPath /\ (ref # NoId => level < height) /\ (sibRef # NoId => ref # sibRef /\ ref # NoId)
  BY MergeIsAt DEF Merging
<1>3. (ref = NoId => c = NoBlobs) /\ DOMAIN c \subseteq {ref}
  <2>1. DOMAIN ca \subseteq {ref, sibRef} \ {NoId} /\ (ref = NoId => ca = NoBlobs)
    BY DEF Typed, Merging, OnPath
  <2> HIDE DEF ca
  <2>. QED
    BY <1>2, <2>1 DEF Without
<1>4. MergeStore(n) = Saved(Store(b, c, re, ro), n)
  BY <1>1, DestroyIs DEF MergeStore
<1>5. With(MergeNodes, ref, n) = With(Base(oram, root), ref, n)
  BY WithTwice DEF MergeNodes
<1> HIDE DEF c
<1>6. Wrote(Saved(Store(b, c, re, ro), n), RootWith(n), With(Base(oram, root), ref, n), height - level)
  BY <1>2, <1>3, WritesOne
<1>. QED
  BY <1>4, <1>5, <1>6

LEMMA DelDoneKeeps ==
  ASSUME IInv, DelDone
  PROVE  Kept
<1> DEFINE N == MergeNodes  d == Without(dict, Lab)
<1>1. Typed /\ Merging /\ pc = "merge" /\ level = 0
  BY DEF IInv, DelDone
<1>2. /\ height \in Nat /\ ref \in DOMAIN N /\ N[ref] = MergeNode /\ Lab \in Labels
      /\ (ref = NoId <=> level = height) /\ (sibRef # NoId => ref # sibRef /\ ref # NoId)
  BY <1>1, MergeIsAt
<1>3. MergeNode = node
  BY <1>1 DEF MergeNode
<1>4. With(N, ref, node) = N
  <2>1. N = [y \in DOMAIN N |-> N[y]]
    <3>1. N = With(Base(oram, root), ref, MergeNode)
      BY DEF MergeNodes
    <3> HIDE DEF N
    <3>. QED
      BY <3>1, WithIsMap
  <2> HIDE DEF N
  <2>. QED
    BY <1>2, <1>3, <2>1, WithSame
<1>5. oram' = MergeStore(node)
  <2>1. CASE ref = NoId
    BY <1>2, <2>1 DEF DelDone, MergeStore, Saved
  <2>2. CASE ref # NoId /\ sibRef = NoId
    BY <2>2 DEF DelDone, MergeStore, Saved
  <2>3. CASE ref # NoId /\ sibRef # NoId
    <3> DEFINE b == oram.blobs  ca == oram.cache  re == oram.reads  ro == oram.rounds
    <3>1. oram = Store(b, ca, re, ro)
      BY <1>1, IsStoreIs DEF Typed
    <3>2. oram' = Finalize(Destroy(SetBlob(oram, ref, node), sibRef))
      BY <2>3 DEF DelDone
    <3>3. MergeStore(node) = Finalize(SetBlob(Destroy(oram, sibRef), ref, node))
      BY <2>3 DEF MergeStore, Saved
    <3> HIDE DEF b, ca, re, ro
    <3>4. Destroy(SetBlob(oram, ref, node), sibRef) = Store(b, Without(With(ca, ref, node), sibRef), re, ro)
      BY <3>1, SetBlobIs, DestroyIs
    <3>5. SetBlob(Destroy(oram, sibRef), ref, node) = Store(b, With(Without(ca, sibRef), ref, node), re, ro)
      BY <3>1, SetBlobIs, DestroyIs
    <3>6. Without(With(ca, ref, node), sibRef) = With(Without(ca, sibRef), ref, node)
      BY <1>2, <2>3, WithoutWith
    <3>. QED
      BY <3>2, <3>3, <3>4, <3>5, <3>6
  <2>. QED
    BY <2>1, <2>2, <2>3
<1>6. Wrote(oram', root', N, height)
  <2>1. Wrote(MergeStore(node), RootWith(node), With(N, ref, node), height - level)
    BY <1>1, MergeWrites
  <2>2. root' = root
    BY DEF DelDone
  <2>3. RootWith(node) = root
    BY <1>1 DEF RootWith, Merging, OnPath
  <2>4. height - level = height
    BY <1>1, <1>2
  <2> HIDE DEF N
  <2>. QED
    BY <1>4, <1>5, <2>1, <2>2, <2>3, <2>4
<1>7. Lab \in DOMAIN dict
  BY <1>1 DEF Merging
<1>8. dict' = d /\ Return("ok") /\ UNCHANGED <<height, size, rise>>
  BY DEF DelDone, Lab
<1>9. /\ DOMAIN d = DOMAIN dict \ {Lab} /\ d = [z \in DOMAIN d |-> d[z]] /\ \A z \in DOMAIN d : d[z] = dict[z]
  BY DEF Without
<1>10. Tree(N, height, Shape(rise, dict', dict', height, 0), {})
  <2>1. Tree(N, height, Shape(rise, d, dict, height, 0), {})
    BY <1>1 DEF Merging, MergeNodes
  <2>2. rise \in [Labels -> Nat]
    BY <1>1 DEF Typed
  <2> HIDE DEF N, d
  <2>3. Shape(rise, d, dict, height, 0) = Shape(rise, d, d, height, 0)
    BY <1>2, <2>2, ShapeWhole
  <2>. QED
    BY <1>8, <2>1, <2>3
<1> HIDE DEF d, N
<1>11. IsFiniteSet(DOMAIN dict) /\ DOMAIN dict \subseteq Labels /\ \A z \in DOMAIN dict : dict[z] \in Values
  BY <1>1 DEF Typed, IsDict
<1>12. IsFiniteSet(DOMAIN dict \ {Lab}) /\ Cardinality(DOMAIN dict \ {Lab}) = Cardinality(DOMAIN dict) - 1
  BY <1>7, <1>11, FS_RemoveElement
<1>13. IsDict(dict')
  BY <1>8, <1>9, <1>11, <1>12 DEF IsDict
<1>14. Sized(0)'
  <2>1. size \in Int /\ Cardinality(DOMAIN dict) \in Nat /\ Cardinality(InitialLabels) \in Nat
    BY <1>1, <1>11, HirbAssumption, FS_CardinalityType DEF Merging, Sized
  <2>2. size + Cardinality(InitialLabels) = Cardinality(DOMAIN dict) + -1
    BY <1>1 DEF Merging, Sized
  <2>3. Cardinality(DOMAIN dict') = Cardinality(DOMAIN dict) - 1
    BY <1>8, <1>9, <1>12
  <2>. QED
    BY <1>8, <2>1, <2>2, <2>3 DEF Sized
<1>15. Return(Expected)
  <2>1. call.op = "del" /\ call.label \in DOMAIN dict
    BY <1>1 DEF Merging, Lab
  <2>. QED
    BY <1>8, <2>1 DEF Expected
<1>. QED
  BY <1>1, <1>6, <1>8, <1>10, <1>13, <1>14, <1>15, Rests

LEMMA DelMergeKeeps ==
  ASSUME IInv, DelMerge
  PROVE  Kept
<1> DEFINE N == MergeNodes  n == MergeNode  j == ind + 1  c == Kid(n)  next == Renamed(c)  R == Rename(n, j)
           e == Without(dict, Lab)  W == Shape(rise, e, dict, height, level)
           o == MergeStore(R)  r == RootWith(R)  s == Fetch(o, c, next)  O == Moved(N, ref, j)
           sd == Orphan  sdn == Renamed(sd)  t == Fetch(s, sd, sdn)  b == level - 1  m == Merge(N[c], N[sd])
<1>1. Typed /\ Merging /\ pc = "merge" /\ level > 0
  BY DEF IInv, DelMerge
<1>2. /\ level \in Nat /\ height \in Nat /\ level <= height /\ (ref = NoId <=> level = height)
      /\ rise \in [Labels -> Nat] /\ Lab \in Labels /\ Lab \in Nat \ {0} /\ IsMap(dict) /\ IsMap(e)
      /\ ref \in DOMAIN N /\ N[ref] = n
      /\ sibRef # NoId => ref # sibRef /\ ref # NoId
  BY <1>1, MergeIsAt
<1>3. b \in Nat /\ b + 1 = level /\ level # 0 /\ b < level
  BY <1>1, <1>2
<1>4. Tree(N, height, W, {}) /\ Shaped(W, height)
  <2>1. Tree(N, height, W, {})
    BY <1>1 DEF Merging, MergeNodes
  <2>2. Shaped(W, height)
    <3> DEFINE d2 == e
    <3> HIDE DEF d2
    <3>1. IsMap(d2)
      BY <1>2 DEF d2
    <3>2. Shaped(Shape(rise, d2, dict, height, level), height)
      BY <1>2, <3>1, ShapeShaped
    <3>. QED
      BY <3>2 DEF d2
  <2>. QED
    BY <2>1, <2>2
<1>5. j \in 1 .. Len(n.kids) /\ Pred(c.left, Tops(rise, dict, height, b), Lab)
  BY <1>1, <1>3 DEF Merging, Onward
<1>6. c \in DOMAIN N
  <2>1. ToSet(n.kids) \subseteq DOMAIN N
    <3>1. ToSet(N[ref].kids) \subseteq DOMAIN N \cup {}
      BY <1>2, <1>4 DEF Tree
    <3>. QED
      BY <1>2, <3>1
  <2>2. n.kids \in Seq(Ids)
    <3>1. Fits(n, W, Spot(ref, height))
      BY <1>2, <1>4 DEF Tree
    <3>. QED
      BY <3>1, SpellsFacts DEF Fits
  <2>3. c \in ToSet(n.kids)
    <3>1. DOMAIN n.kids = 1 .. Len(n.kids)
      BY <2>2, LenProperties
    <3>. QED
      BY <1>5, <3>1 DEF ToSet, Kid
  <2>. QED
    BY <2>1, <2>3
<1>7. Wrote(o, r, With(N, ref, R), height - level)
  <2> HIDE DEF R
  <2>. QED
    BY <1>1, MergeWrites
<1>8. N[ref].kids[j] = c /\ Rename(N[ref], j) = R
  BY <1>2 DEF Kid
<1>9. j \in 1 .. Len(N[ref].kids) /\ N[ref].kids[j] \in DOMAIN N
  BY <1>2, <1>5, <1>6, <1>8
<1>10. Fetches(o, r, N, ref, j) /\ TreeMoves(N, height, W, {}, ref, j)
  <2>1. With(N, ref, R) = With(N, ref, Rename(N[ref], j))
    BY <1>8
  <2> DEFINE G == {}
  <2>2. Tree(N, height, W, G)
    BY <1>4
  <2> HIDE DEF N, W, o, r, G, j, R
  <2>3. Fetches(o, r, N, ref, j)
    BY <1>2, <1>4, <1>7, <1>9, <2>1, <2>2, FetchesChild DEF Wrote
  <2>4. TreeMoves(N, height, W, G, ref, j)
    BY <1>2, <1>4, <1>9, <2>2, TreeRename
  <2>. QED
    BY <2>3, <2>4 DEF G
<1>11. Spot(ref, height)[1] = level
  BY <1>1 DEF Merging, OnPath
<1>12. /\ Tree(O, height, W, {}) /\ c \in Ids /\ next \in Ids /\ Spot(next, height) = Spot(c, height)
       /\ Spot(c, height)[1] = b /\ Spot(c, height)[2] = c.left
       /\ O[next] = N[c] /\ next \in DOMAIN O /\ DOMAIN O = (DOMAIN N \ {c}) \cup {next}
       /\ \A z \in DOMAIN N \ {c, ref} : O[z] = N[z]
  BY <1>8, <1>10, <1>11 DEF TreeMoves
<1>13. next # NoId
  BY <1>12, NoIdIsNone
<1>14. /\ Found(o, c) /\ BlobOf(o, c) = N[c] /\ FetchedAs(o, c, next) = next
       /\ s = Store(Without(o.blobs, c), With(NoBlobs, next, N[c]), o.reads + 1, o.rounds)
       /\ next \notin DOMAIN s.blobs /\ NoId \notin DOMAIN s.blobs
       /\ \A z : With(Base(s, r), next, z) = With(O, next, z)
  BY <1>8, <1>10 DEF Fetches
<1>15. /\ sd \in DOMAIN oram.blobs /\ sd.level = b /\ sd.left = Lab
       /\ sd # NoId /\ sd # ref /\ sd # c /\ sd # next
  <2>1. sd \in DOMAIN oram.blobs /\ sd.level = b /\ sd.left = Lab
    BY <1>1, <1>3 DEF Merging, IsAt
  <2>2. sd # NoId /\ sd # ref
    BY <1>1, <2>1 DEF Typed
  <2>3. c.left < Lab /\ next.left < Lab
    <3>1. Spot(next, height)[2] = next.left
      BY <1>13 DEF Spot
    <3>. QED
      BY <1>5, <1>12, <3>1 DEF Pred
  <2>. QED
    BY <1>2, <2>1, <2>2, <2>3
<1>16. sd \in DOMAIN N /\ sd \in DOMAIN O /\ O[sd] = N[sd] /\ sd \in Ids
  <2>1. sd \in DOMAIN N
    BY <1>15 DEF MergeNodes, Base, With
  <2>2. sd \in Ids
    BY <1>4, <1>15, <2>1 DEF Tree
  <2>. QED
    BY <1>12, <1>15, <2>1, <2>2
<1>17. sd \in DOMAIN o.blobs /\ o.blobs[sd] = N[sd]
  <2>1. Base(o, r) = With(N, ref, R)
    BY <1>7 DEF Wrote
  <2>2. sd \in DOMAIN With(N, ref, R) /\ With(N, ref, R)[sd] = N[sd]
    BY <1>15, <1>16 DEF With
  <2>3. sd \in DOMAIN Base(o, r) /\ Base(o, r)[sd] = N[sd]
    BY <2>1, <2>2
  <2> HIDE DEF o, r, N
  <2>. QED
    BY <1>15, <2>3 DEF Base, With
<1>18. o.cache = NoBlobs /\ o.reads = 0 /\ o.rounds = Twos(height - level)
  BY <1>7 DEF Wrote
<1>19. Found(o, sd) /\ BlobOf(o, sd) = N[sd]
  <2> HIDE DEF o, N, sd
  <2>. QED
    BY <1>17, <1>18 DEF Found, BlobOf, Over, NoBlobs
<1>20. sdn \in Ids /\ sdn # sd /\ sdn.level = b /\ sdn.left = Lab /\ sdn # NoId
  <2>1. sdn \in Ids /\ sdn # sd
    BY <1>16, NoIdIsNone
  <2>2. sdn.level = sd.level /\ sdn.left = sd.left
    BY <1>16 DEF Renamed, Ids
  <2>. QED
    BY <1>15, <2>1, <2>2, NoIdIsNone
<1>21. /\ s.blobs = Without(o.blobs, c) /\ s.cache = With(NoBlobs, next, N[c]) /\ s.reads = 1
       /\ s.rounds = Twos(height - level) /\ IsStore(s)
  <2> HIDE DEF s, o, c, next, N
  <2>. QED
    BY <1>14, <1>18, StoreFields
<1>22. FetchedAs(s, sd, sdn) = sdn /\ sd \notin DOMAIN s.cache
  <2>1. DOMAIN s.cache = {next}
    BY <1>21 DEF With, NoBlobs
  <2> HIDE DEF s, sd, sdn
  <2>. QED
    BY <1>15, <2>1 DEF FetchedAs
<1>23. t = Store(Without(s.blobs, sd), With(s.cache, sdn, s.blobs[sd]), 2, Twos(height - level))
  <2> DEFINE sb == s.blobs  ca == s.cache  ro == Twos(height - level)
  <2>1. s = Store(sb, ca, 1, ro) /\ sd \notin DOMAIN ca
    BY <1>21, <1>22, IsStoreIs
  <2> HIDE DEF sb, ca, ro, s, sd, sdn
  <2>2. Fetch(Store(sb, ca, 1, ro), sd, sdn) = Store(Without(sb, sd), With(ca, sdn, sb[sd]), 1 + 1, ro)
    BY <2>1, FetchIs
  <2>. QED
    BY <2>1, <2>2 DEF sb, ca, ro
<1>24. /\ root' = r /\ sib' = N[sd] /\ node' = m /\ ind' = Len(N[c].keys) /\ ref' = next /\ sibRef' = sdn
       /\ oram' = t /\ level' = b
       /\ UNCHANGED <<call, pc, answer, height, size, growAt, rise, dict>>
  <2>1. n = IF sibRef = NoId THEN [node EXCEPT !.kids = RemoveAt(@, ind + 2)] ELSE node
    BY <1>3 DEF MergeNode
  <2>3. /\ root' = r
        /\ IF Found(o, c) /\ Found(o, sd)
           THEN /\ sib'    = BlobOf(o, sd)
                /\ node'   = Merge(BlobOf(o, c), sib')
                /\ ind'    = Len(BlobOf(o, c).keys)
                /\ ref'    = FetchedAs(o, c, next)
                /\ sibRef' = FetchedAs(s, sd, sdn)
                /\ oram'   = t
                /\ level'  = level - 1
                /\ UNCHANGED <<call, pc, answer>>
           ELSE /\ oram' = FetchFails(IF Found(o, c) THEN s ELSE o)
                /\ Return("KeyError")
        /\ UNCHANGED <<height, size, growAt, rise, dict>>
    <3> DEFINE first == sibRef = NoId
               sd1 == IF first THEN node.kids[ind + 2] ELSE sib.kids[1]
               n1 == IF first THEN [node EXCEPT !.kids = RemoveAt(@, ind + 2)] ELSE node
               o1 == Saved(IF first THEN oram ELSE Destroy(oram, sibRef), Rename(n1, ind + 1))
               c1 == n1.kids[ind + 1]
               s1 == Fetch(o1, c1, Renamed(c1))
    <3>1. n1 = n /\ sd1 = sd
      BY <2>1 DEF Orphan
    <3>2. o1 = o
      BY <3>1 DEF MergeStore
    <3>3. c1 = c
      BY <3>1 DEF Kid
    <3>5. s1 = s
      BY <3>2, <3>3
    <3>4. /\ root' = RootWith(Rename(n1, ind + 1))
          /\ IF Found(o1, c1) /\ Found(o1, sd1)
             THEN /\ sib'    = BlobOf(o1, sd1)
                  /\ node'   = Merge(BlobOf(o1, c1), sib')
                  /\ ind'    = Len(BlobOf(o1, c1).keys)
                  /\ ref'    = FetchedAs(o1, c1, Renamed(c1))
                  /\ sibRef' = FetchedAs(s1, sd1, Renamed(sd1))
                  /\ oram'   = Fetch(s1, sd1, Renamed(sd1))
                  /\ level'  = level - 1
                  /\ UNCHANGED <<call, pc, answer>>
             ELSE /\ oram' = FetchFails(IF Found(o1, c1) THEN s1 ELSE o1)
                  /\ Return("KeyError")
          /\ UNCHANGED <<height, size, growAt, rise, dict>>
      BY DEF DelMerge
    <3> HIDE DEF n1, o1, c1, s1, sd1, first
    <3> HIDE DEF o, c, s, sd
    <3>. QED
      BY <3>1, <3>2, <3>3, <3>4, <3>5
  <2> HIDE DEF o, c, next, s, sd, sdn, t
  <2>. QED
    BY <1>14, <1>19, <1>22, <2>3
<1>25. Lab \in DOMAIN dict /\ b < Rank(rise, Lab, height)
  <2>1. Rank(rise, Lab, height) \in Nat
    BY <1>2, RankIn
  <2>2. level = Rank(rise, Lab, height) \/ level < Rank(rise, Lab, height)
    BY <1>1 DEF Merging
  <2>. QED
    BY <1>1, <1>2, <1>3, <2>1, <2>2 DEF Merging
<1>26. TreeMerges(rise, height, dict, e, Lab, O, next, sd, b)
  <2>2. DOMAIN dict = DOMAIN e \cup {Lab} /\ Lab \notin DOMAIN e /\ \A k \in DOMAIN e : e[k] = dict[k]
    BY <1>25 DEF Without
  <2> DEFINE G == {}  k == c.left
  <2>3. Tree(O, height, Shape(rise, e, dict, height, b + 1), G) /\ G = {}
    BY <1>3, <1>12
  <2>4. Spot(next, height) = <<b, k>>
    <3>1. Spot(next, height) = <<Spot(next, height)[1], Spot(next, height)[2]>>
      BY DEF Spot
    <3>. QED
      BY <1>12, <3>1
  <2>5. Pred(k, Tops(rise, dict, height, b), Lab)
    BY <1>5
  <2>6. IsAt(sd, b, Lab)
    BY <1>15 DEF IsAt
  <2> HIDE DEF N, n, j, c, next, e, o, r, s, O, W, R, b, G, k, sd
  <2>. QED
    BY <1>2, <1>3, <1>12, <1>15, <1>16, <1>25, <2>2, <2>3, <2>4, <2>5, <2>6, TreeMerge
<1>27. /\ Tree(With(Without(O, sd), next, m), height, Shape(rise, e, dict, height, b), {})
       /\ IsNodeRec(m) /\ IsNodeRec(N[sd]) /\ Len(N[c].keys) \in Nat
       /\ b # 0 => /\ Len(N[c].keys) + 1 \in 1 .. Len(m.kids)
                   /\ Pred(m.kids[Len(N[c].keys) + 1].left, Tops(rise, dict, height, b - 1), Lab)
                   /\ N[sd].kids[1] \in DOMAIN O /\ IsAt(N[sd].kids[1], b - 1, Lab)
  BY <1>12, <1>16, <1>26 DEF TreeMerges
<1> HIDE DEF N, n, j, c, next, e, o, r, s, O, W, R, m, b, sd, sdn, t
<1>28. /\ oram'.blobs = Without(s.blobs, sd) /\ oram'.cache = With(s.cache, sdn, s.blobs[sd]) /\ oram'.reads = 2
       /\ oram'.rounds = Twos(height - level) /\ IsStore(oram')
  BY <1>23, <1>24, StoreFields
<1>29. Lab' = Lab
  BY <1>24 DEF Lab
<1>30. MergeNode' = m
  BY <1>20, <1>24 DEF MergeNode
<1>31. With(Base(oram', root'), ref', MergeNode') = With(Without(O, sd), next, m)
  <2>1. Base(oram', root') = Without(Base(s, r), sd)
    <3>1. With(Without(s.blobs, sd), NoId, r) = Without(With(s.blobs, NoId, r), sd)
      BY <1>15, WithoutWith
    <3>. QED
      BY <1>24, <1>28, <3>1 DEF Base
  <2>2. With(Without(Base(s, r), sd), next, m) = Without(With(Base(s, r), next, m), sd)
    BY <1>15, WithoutWith
  <2>3. With(Base(s, r), next, m) = With(O, next, m)
    BY <1>14
  <2>4. Without(With(O, next, m), sd) = With(Without(O, sd), next, m)
    BY <1>15, WithoutWith
  <2>. QED
    BY <1>24, <1>30, <2>1, <2>2, <2>3, <2>4
<1>32. OnPath'
  <2>1. height' - level' - 1 = height - level
    BY <1>2, <1>24 DEF b
  <2>2. Spot(ref', height')[1] = level' /\ Spot(ref', height')[2] = c.left
    BY <1>12, <1>24
  <2>3. Pred(c.left, Tops(rise, dict, height, level'), Lab)
    BY <1>5, <1>24
  <2>. QED
    BY <1>13, <1>24, <1>28, <1>29, <2>1, <2>2, <2>3 DEF OnPath
<1>33. e = Without(dict, Lab)'
  BY <1>24, <1>29 DEF e
<1>34. Tree(With(Base(oram', root'), ref', MergeNode'), height', Shape(rise', Without(dict, Lab)', dict', height', level'), {})
  BY <1>24, <1>27, <1>31, <1>33
<1>35. Onward(MergeNode)'
  BY <1>24, <1>27, <1>29, <1>30 DEF Onward, Kid
<1>36. DOMAIN oram'.cache = {next, sdn}
  BY <1>21, <1>28 DEF With, NoBlobs
<1>37. next # sdn
  <2>1. next.left < Lab
    <3>1. Spot(next, height)[2] = next.left
      BY <1>13 DEF Spot
    <3>. QED
      BY <1>5, <1>12, <3>1 DEF Pred
  <2>. QED
    BY <1>2, <1>20, <2>1
<1>38. DOMAIN s.blobs \cup {NoId, next} = DOMAIN O \cup {NoId, next}
  <2>1. With(Base(s, r), next, m) = With(O, next, m)
    BY <1>14
  <2>2. DOMAIN With(Base(s, r), next, m) = DOMAIN s.blobs \cup {NoId, next} /\ DOMAIN With(O, next, m) = DOMAIN O \cup {next}
    BY DEF With, Base
  <2>3. NoId \in DOMAIN O
    BY <1>12 DEF Tree
  <2>. QED
    BY <2>1, <2>2, <2>3
<1>39. sdn \notin DOMAIN s.blobs
  <2>1. Spot(sdn, height) = Spot(sd, height)
    BY <1>15, <1>20 DEF Spot
  <2>2. sdn \notin DOMAIN O
    BY <1>12, <1>16, <1>20, <2>1 DEF Tree
  <2>. QED
    BY <1>20, <1>37, <1>38, <2>2
<1>40. DOMAIN oram'.blobs = DOMAIN s.blobs \ {sd}
  BY <1>28 DEF Without
<1>41. level' # 0 => Orphan' \in DOMAIN oram'.blobs /\ IsAt(Orphan', level' - 1, Lab')
  <2> SUFFICES ASSUME b # 0 PROVE Orphan' \in DOMAIN oram'.blobs /\ IsAt(Orphan', b - 1, Lab)
    BY <1>24, <1>29
  <2> DEFINE a == N[sd].kids[1]
  <2>1. a \in DOMAIN O /\ a.level = b - 1 /\ a.left = Lab
    BY <1>27 DEF IsAt
  <2>2. Orphan' = a
    BY <1>20, <1>24 DEF Orphan
  <2> HIDE DEF a
  <2>3. a # NoId
    BY <1>2, <2>1 DEF NoId
  <2>4. a # next
    <3>1. next.left < Lab
      <4>1. Spot(next, height)[2] = next.left
        BY <1>13 DEF Spot
      <4>. QED
        BY <1>5, <1>12, <4>1 DEF Pred
    <3>. QED
      BY <1>2, <2>1, <3>1
  <2>5. a # sd
    BY <1>3, <1>15, <2>1
  <2>. QED
    BY <1>38, <1>40, <2>1, <2>2, <2>3, <2>4, <2>5 DEF IsAt
<1>42. level' < Rank(rise', Lab', height') /\ ref' # NoId /\ sibRef' \in Ids /\ sibRef' # ref' /\ sibRef' # NoId
  BY <1>13, <1>20, <1>24, <1>25, <1>29, <1>37
<1>43. Merging'
  <2>1. call' \in [op : {"del"}, label : Labels, value : {Null}] /\ Lab' \in DOMAIN dict'
    BY <1>1, <1>24, <1>29 DEF Merging
  <2>2. Sized(-1)'
    BY <1>1, <1>24 DEF Merging, Sized
  <2>3. IsNodeRec(node') /\ IsNodeRec(sib') /\ ind' \in Nat
    BY <1>24, <1>27
  <2>4. DOMAIN oram'.cache \subseteq {ref', sibRef'}
    BY <1>24, <1>36
  <2>. QED
    BY <1>32, <1>34, <1>35, <1>41, <1>42, <2>1, <2>2, <2>3, <2>4 DEF Merging
<1>44. IsNodeRec(root')
  <2> DEFINE T == With(Without(O, sd), next, m)  G == {}
  <2>1. IsNodeRec(T[NoId])
    <3>1. Tree(T, height, Shape(rise, e, dict, height, b), G)
      BY <1>27
    <3> HIDE DEF T, G
    <3>. QED
      BY <1>2, <1>3, <3>1, RootIn
  <2>2. T[NoId] = root'
    <3>1. With(Base(oram', root'), ref', MergeNode')[NoId] = root'
      BY <1>13, <1>24 DEF With, Base
    <3>. QED
      BY <1>31, <3>1
  <2>. QED
    BY <2>1, <2>2
<1>45. DOMAIN oram'.blobs \cap {NoId, ref', sibRef'} = {}
  BY <1>14, <1>24, <1>39, <1>40
<1>46. Typed'
  <2>1. level' \in 0 .. height'
    BY <1>2, <1>3, <1>24
  <2>2. DOMAIN oram'.cache \subseteq {ref', sibRef'} \ {NoId}
    BY <1>13, <1>20, <1>24, <1>36
  <2>. QED
    BY <1>1, <1>12, <1>20, <1>24, <1>28, <1>44, <1>45, <2>1, <2>2 DEF Typed
<1>. QED
  BY <1>1, <1>24, <1>43, <1>46 DEF Kept, IInv, Returns

-----------------------------------------------------------------------------
\* The tree grows by a level.
LEMMA AppendFacts ==
  ASSUME NEW S, NEW s \in Seq(S), NEW e \in S
  PROVE  /\ Append(s, e) \in Seq(S) /\ Len(Append(s, e)) = Len(s) + 1
         /\ \A j \in 1 .. Len(s) : Append(s, e)[j] = s[j]
         /\ Append(s, e)[Len(s) + 1] = e
         /\ ToSet(Append(s, e)) = ToSet(s) \cup {e}
<1> DEFINE t == Append(s, e)  L == Len(s)
<1>1. /\ t \in Seq(S) /\ Len(t) = L + 1 /\ L \in Nat /\ t[L + 1] = e
      /\ \A j \in 1 .. L : t[j] = s[j]
  OBVIOUS
<1>2. DOMAIN s = 1 .. L /\ DOMAIN t = 1 .. L + 1
  BY <1>1
<1> HIDE DEF t, L
<1>3. \A j \in 1 .. L + 1 : j \in 1 .. L \/ j = L + 1
  BY <1>1
<1>4. 1 .. L \subseteq 1 .. L + 1 /\ L + 1 \in 1 .. L + 1
  BY <1>1
<1>5. ToSet(t) = ToSet(s) \cup {e}
  <2>1. \A z : z \in ToSet(t) <=> \E j \in 1 .. L + 1 : z = t[j]
    BY <1>2 DEF ToSet
  <2>2. \A z : z \in ToSet(s) <=> \E j \in 1 .. L : z = s[j]
    BY <1>2 DEF ToSet
  <2>3. ASSUME NEW z \in ToSet(t) PROVE z \in ToSet(s) \cup {e}
    BY <1>1, <1>3, <2>1, <2>2
  <2>4. ASSUME NEW z \in ToSet(s) \cup {e} PROVE z \in ToSet(t)
    BY <1>1, <1>4, <2>1, <2>2
  <2>. QED
    BY <2>3, <2>4
<1>. QED
  BY <1>1, <1>5 DEF t, L

\* A node gets a label at its end, and the child to the right of it.
Appended(n, M, d, l, left, x, v, id) ==
    LET f == Node(Append(n.keys, x), Append(n.vals, v), Append(n.kids, id))
    IN  Spells(f, M \cup {x}, d, l, left) /\ ToSet(f.kids) = ToSet(n.kids) \cup {id}

LEMMA SpellsAppend ==
  ASSUME NEW n, NEW M, NEW d, NEW l, NEW left, Spells(n, M, d, l, left), l # 0, NEW x \in Labels, \A m \in M : m < x,
         NEW id \in Ids, IsAt(id, l - 1, x), NEW v \in Values, d[x] = v
  PROVE  Appended(n, M, d, l, left, x, v, id)
<1> DEFINE ks == n.keys  vs == n.vals  cs == n.kids  L == Len(ks)
           ks1 == Append(ks, x)  vs1 == Append(vs, v)  cs1 == Append(cs, id)
<1>1. /\ ks \in Seq(Labels) /\ vs \in Seq(Values) /\ cs \in Seq(Ids) /\ L \in Nat /\ Len(vs) = L
      /\ (\A i \in 1 .. L : ks[i] \in M) /\ (\A i \in 1 .. L : vs[i] = d[ks[i]])
      /\ (\A m \in M : \E i \in 1 .. L : m = ks[i])
      /\ (\A i, j \in 1 .. L : i < j => ks[i] < ks[j])
      /\ Len(cs) = L + 1
      /\ \A i \in 1 .. L + 1 : IsAt(cs[i], l - 1, IF i = 1 THEN left ELSE ks[i - 1])
  BY SpellsFacts
<1> HIDE DEF ks, vs, cs
<1>2. /\ ks1 \in Seq(Labels) /\ Len(ks1) = L + 1 /\ (\A j \in 1 .. L : ks1[j] = ks[j]) /\ ks1[L + 1] = x
  BY <1>1, AppendFacts
<1>3. /\ vs1 \in Seq(Values) /\ Len(vs1) = L + 1 /\ (\A j \in 1 .. L : vs1[j] = vs[j]) /\ vs1[L + 1] = v
  BY <1>1, AppendFacts
<1>4. /\ cs1 \in Seq(Ids) /\ Len(cs1) = L + 1 + 1 /\ (\A j \in 1 .. L + 1 : cs1[j] = cs[j]) /\ cs1[L + 1 + 1] = id
      /\ ToSet(cs1) = ToSet(cs) \cup {id}
  BY <1>1, AppendFacts
<1> HIDE DEF ks1, vs1, cs1, L
<1>5. \A i, j \in 1 .. L + 1 : i < j => ks1[i] < ks1[j]
  <2> SUFFICES ASSUME NEW i \in 1 .. L + 1, NEW j \in 1 .. L + 1, i < j PROVE ks1[i] < ks1[j]
    OBVIOUS
  <2>1. i \in 1 .. L
    BY <1>1
  <2>2. j \in 1 .. L \/ j = L + 1
    BY <1>1
  <2>. QED
    BY <1>1, <1>2, <2>1, <2>2
<1>6. \A i \in 1 .. L + 1 : ks1[i] \in M \cup {x}
  <2> SUFFICES ASSUME NEW i \in 1 .. L + 1 PROVE ks1[i] \in M \cup {x}
    OBVIOUS
  <2>1. i \in 1 .. L \/ i = L + 1
    BY <1>1
  <2>. QED
    BY <1>1, <1>2, <2>1
<1>7. \A m \in M \cup {x} : \E i \in 1 .. L + 1 : m = ks1[i]
  <2>1. L + 1 \in 1 .. L + 1 /\ 1 .. L \subseteq 1 .. L + 1
    BY <1>1
  <2>. QED
    BY <1>1, <1>2, <2>1
<1>8. \A i \in 1 .. L + 1 : vs1[i] = d[ks1[i]]
  <2> SUFFICES ASSUME NEW i \in 1 .. L + 1 PROVE vs1[i] = d[ks1[i]]
    OBVIOUS
  <2>1. i \in 1 .. L \/ i = L + 1
    BY <1>1
  <2>. QED
    BY <1>1, <1>2, <1>3, <2>1
<1>9. \A i \in 1 .. L + 1 + 1 : IsAt(cs1[i], l - 1, IF i = 1 THEN left ELSE ks1[i - 1])
  <2> SUFFICES ASSUME NEW i \in 1 .. L + 1 + 1 PROVE IsAt(cs1[i], l - 1, IF i = 1 THEN left ELSE ks1[i - 1])
    OBVIOUS
  <2>1. CASE i = 1
    <3>1. 1 \in 1 .. L + 1
      BY <1>1
    <3>. QED
      BY <1>1, <1>4, <2>1, <3>1
  <2>2. CASE i # 1 /\ i \in 1 .. L + 1
    <3>1. i - 1 \in 1 .. L
      BY <1>1, <2>2
    <3>. QED
      BY <1>1, <1>2, <1>4, <2>2, <3>1
  <2>3. CASE i = L + 1 + 1
    <3>1. i - 1 = L + 1 /\ i # 1
      BY <1>1, <2>3
    <3>. QED
      BY <1>2, <1>4, <2>3, <3>1
  <2>. QED
    BY <1>1, <2>1, <2>2, <2>3
<1>10. Spells([keys |-> ks1, vals |-> vs1, kids |-> cs1], M \cup {x}, d, l, left)
  <2> DEFINE Q == M \cup {x}
  <2> HIDE DEF Q
  <2>1. /\ \A i \in 1 .. Len(ks1) : ks1[i] \in Q
        /\ \A m \in Q : \E i \in 1 .. Len(ks1) : m = ks1[i]
    BY <1>2, <1>6, <1>7 DEF Q
  <2>2. /\ Len(vs1) = Len(ks1) /\ (\A i \in 1 .. Len(ks1) : vs1[i] = d[ks1[i]])
        /\ Len(cs1) = Len(ks1) + 1
        /\ (\A i, j \in 1 .. Len(ks1) : i < j => ks1[i] < ks1[j])
        /\ \A i \in 1 .. Len(ks1) + 1 : IsAt(cs1[i], l - 1, IF i = 1 THEN left ELSE ks1[i - 1])
    BY <1>2, <1>3, <1>4, <1>5, <1>8, <1>9
  <2>3. Spells([keys |-> ks1, vals |-> vs1, kids |-> cs1], Q, d, l, left)
    BY <1>2, <1>3, <1>4, <2>1, <2>2, SpellsMade
  <2>. QED
    BY <2>3 DEF Q
<1>. QED
  BY <1>4, <1>10 DEF Appended, Node, ks1, vs1, cs1, ks, vs, cs

LEMMA PlaceFacts ==
  ASSUME NEW h \in 0 .. MaxHeight, NEW k \in {0} \cup Labels
  PROVE  /\ Place(h, k) \in Ids /\ IsAt(Place(h, k), h, k) /\ Place(h, k) # NoId
         /\ Place(h, k).level = h /\ Place(h, k).left = k
         /\ \A j : Place(h, k) = Place(h, j) => k = j
<1>1. Place(h, k) \in Ids /\ IsAt(Place(h, k), h, k) /\ Place(h, k).level = h /\ Place(h, k).left = k
  BY DEF Place, Ids, IsAt
<1>2. ASSUME NEW j, Place(h, k) = Place(h, j) PROVE k = j
  <2>1. Place(h, j).left = j
    BY DEF Place
  <2>. QED
    BY <1>1, <1>2, <2>1
<1>. QED
  BY <1>1, <1>2, NoIdIsNone

\* The labels of the old root between a label that rises and the next one.
Gap(M, P, k) == {j \in M : k < j /\ \A q \in P : q > k => j < q}

\* What the nodes of the old root, cut at the labels P up to a, are like.
Closed(c, M, P, d, h, k, kids) ==
    /\ c \in NodeRecs /\ Spells(c, Gap(M, P, k), d, h, k) /\ ToSet(c.kids) \subseteq kids

Climbed(g, M, P, a, d, h, b, ro, kids) ==
    /\ P \subseteq M /\ a \in {0} \cup P /\ \A q \in P : q <= a
    /\ Spells(g.root, P, d, h + 1, 0) /\ ToSet(g.root.kids) = {Place(h, k) : k \in {0} \cup P}
    /\ g.id = Place(h, a)
    /\ Spells(g.old, {k \in M : k > a}, d, h, a) /\ ToSet(g.old.kids) \subseteq kids
    /\ g.oram = Store(b, g.oram.cache, 0, ro)
    /\ DOMAIN g.oram.cache = {Place(h, k) : k \in ({0} \cup P) \ {a}}
    /\ \A k \in ({0} \cup P) \ {a} : Closed(g.oram.cache[Place(h, k)], M, P, d, h, k, kids)

Turn(h, x) == [label |-> x, rises |-> TRUE, id |-> Place(h, x)]

\* A node with its first child again.
LEMMA RightHasStep ==
  ASSUME NEW n, NEW M, NEW d, NEW l, NEW left, Spells(n, M, d, l, left), NEW x \in M,
         left \in Nat, \A m \in M : left < m, NEW c, c = SplitRight(n, x)
  PROVE  Spells(c, {k \in M : k > x}, d, l, x) /\ ToSet(c.kids) \subseteq ToSet(n.kids)
<1>1. left < x /\ x \in Nat /\ x \in Labels
  BY SpellsFacts
<1> DEFINE p == BisectRight(n, x)  L == Len(n.keys)
<1>2. p \in 1 .. L /\ n.keys[p] = x /\ L \in Nat
  BY <1>1, SpellsSearch, SpellsFacts
<1>3. CASE l = 0
  <2>1. StepAt(n, l, x)
    BY <1>3 DEF StepAt
  <2>2. RightOf(n, M, d, l, left, x, n)
    BY <1>1, <2>1, SpellsRight
  <2>3. Spells(c, {k \in M : k > x}, d, l, x)
    BY <1>3, <2>2 DEF RightOf
  <2>4. c.kids = << >>
    BY <1>3, <2>3, SpellsFacts
  <2>5. ToSet(c.kids) = {}
    BY <2>4 DEF ToSet
  <2>. QED
    BY <2>3, <2>5
<1>4. CASE l # 0
  <2> DEFINE step == n.kids[p + 1]
  <2>1. step \in Ids /\ IsAt(step, l - 1, x) /\ step \in ToSet(n.kids)
    <3>1. p + 1 \in 1 .. L + 1 /\ p + 1 # 1 /\ p + 1 - 1 = p
      BY <1>2
    <3>2. /\ DOMAIN n.kids = 1 .. L + 1
          /\ \A i \in 1 .. L + 1 : n.kids[i] \in Ids /\ IsAt(n.kids[i], l - 1, IF i = 1 THEN left ELSE n.keys[i - 1])
      BY <1>4, SpellsFacts
    <3>. QED
      BY <1>2, <3>1, <3>2 DEF ToSet
  <2> HIDE DEF step
  <2>2. StepAt(step, l, x)
    BY <2>1 DEF StepAt
  <2>3. RightOf(n, M, d, l, left, x, step)
    BY <1>1, <2>2, SpellsRight
  <2>4. /\ c \in NodeRecs /\ c.kids[1] = step
        /\ Spells([c EXCEPT !.kids[1] = step], {k \in M : k > x}, d, l, x)
        /\ ToSet([c EXCEPT !.kids[1] = step].kids) = {e \in ToSet(n.kids) : e.left > x} \cup {step}
    BY <1>4, <2>3 DEF RightOf, step
  <2>5. [c EXCEPT !.kids[1] = step] = c
    <3> DEFINE ks == [c.kids EXCEPT ![1] = step]
    <3>1. c.kids \in Seq(Ids)
      BY <2>4 DEF NodeRecs
    <3>2. ks = c.kids
      <4> DEFINE s == c.kids
      <4>1. s = [i \in DOMAIN s |-> s[i]]
        BY <3>1
      <4>2. s[1] = step
        BY <2>4
      <4> HIDE DEF s
      <4>3. [s EXCEPT ![1] = step] = s
        BY <4>1, <4>2
      <4>. QED
        BY <4>3 DEF s
    <3>3. [c EXCEPT !.kids = ks] = [keys |-> c.keys, vals |-> c.vals, kids |-> ks]
      BY <2>4, NodeExcept
    <3>4. c = [keys |-> c.keys, vals |-> c.vals, kids |-> c.kids]
      BY <2>4 DEF NodeRecs
    <3>. QED
      BY <3>2, <3>3, <3>4
  <2>. QED
    BY <2>1, <2>4, <2>5
<1>. QED
  BY <1>3, <1>4

GapsStayed(M, P, a, x) ==
    /\ Gap(M, P \cup {x}, a) = {k \in {k \in M : k > a} : k < x}
    /\ \A k \in {0} \cup P : k # a /\ a \in {0} \cup P => Gap(M, P \cup {x}, k) = Gap(M, P, k)

\* The labels of a cut stay apart by the cuts that come later.
LEMMA GapsStay ==
  ASSUME NEW M, M \subseteq Nat, NEW P, P \subseteq Nat, NEW a \in Nat, \A q \in P : q <= a, NEW x \in Nat, a < x
  PROVE  GapsStayed(M, P, a, x)
<1>1. Gap(M, P \cup {x}, a) = {k \in {k \in M : k > a} : k < x}
  <2>1. ASSUME NEW j \in M, a < j PROVE (\A q \in P \cup {x} : q > a => j < q) <=> j < x
    <3>1. \A q \in P : ~(q > a)
      BY SMT
    <3>. QED
      BY <3>1
  <2>2. \A j \in M : (j > a) = (a < j)
    BY SMT
  <2>. QED
    BY <2>1, <2>2 DEF Gap
<1>2. ASSUME NEW k \in {0} \cup P, k # a, a \in {0} \cup P PROVE Gap(M, P \cup {x}, k) = Gap(M, P, k)
  <2>1. k < a /\ a \in P
    <3>1. k \in Nat /\ (k \in P => k <= a)
      BY SMT
    <3>. QED
      BY <1>2, <3>1, SMT
  <2>2. ASSUME NEW j \in M, \A q \in P : q > k => j < q PROVE j < x
    <3>1. j < a
      BY <2>1, <2>2, SMT
    <3>. QED
      BY <3>1, SMT
  <2>3. ASSUME NEW j \in M PROVE (\A q \in P \cup {x} : q > k => j < q) <=> (\A q \in P : q > k => j < q)
    BY <2>2
  <2>. QED
    BY <2>3 DEF Gap
<1>. QED
  BY <1>1, <1>2 DEF GapsStayed

LEMMA ClimbStep ==
  ASSUME NEW h \in 0 .. MaxHeight, NEW d, IsMap(d), NEW M, M \subseteq DOMAIN d, NEW P, NEW a, NEW b, NEW ro, NEW kids,
         NEW g, Climbed(g, M, P, a, d, h, b, ro, kids), NEW x \in M, a < x
  PROVE  Climbed(Promote(g, Turn(h, x)), M, P \cup {x}, x, d, h, b, ro, kids)
<1> DEFINE gg == Promote(g, Turn(h, x))  old == g.old  M1 == {k \in M : k > a}  c == SplitLeft(old, x)
           Q == P \cup {x}  ca == g.oram.cache  v == ValueIn(old, x)
<1>1. /\ P \subseteq M /\ a \in {0} \cup P /\ (\A q \in P : q <= a)
      /\ Spells(g.root, P, d, h + 1, 0) /\ ToSet(g.root.kids) = {Place(h, k) : k \in {0} \cup P}
      /\ g.id = Place(h, a)
      /\ Spells(old, M1, d, h, a) /\ ToSet(old.kids) \subseteq kids
      /\ g.oram = Store(b, ca, 0, ro)
      /\ DOMAIN ca = {Place(h, k) : k \in ({0} \cup P) \ {a}}
      /\ \A k \in ({0} \cup P) \ {a} : Closed(ca[Place(h, k)], M, P, d, h, k, kids)
  BY DEF Climbed
<1>2. /\ M \subseteq Labels /\ M \subseteq Nat \ {0} /\ P \subseteq Nat /\ a \in Nat /\ a \in {0} \cup Labels /\ x \in Nat
      /\ x \in Labels /\ x \in M1 /\ MaxHeight \in Nat /\ h \in Nat
  BY <1>1, HirbAssumption DEF IsMap
<1>3. \A q \in P : q < x
  BY <1>1, <1>2
<1>4. h + 1 # 0 /\ h + 1 - 1 = h
  BY <1>2
<1>5. Place(h, x) \in Ids /\ IsAt(Place(h, x), h + 1 - 1, x)
  BY <1>2, <1>4, PlaceFacts
<1>6. v = d[x] /\ v \in Values
  <2>1. v = d[x]
    BY <1>1, <1>2, SpellsSearch, SMTT(30)
  <2>2. \E i \in 1 .. Len(old.keys) : x = old.keys[i] /\ old.vals[i] = d[x] /\ old.vals[i] \in Values
    <3> HIDE DEF old, M1
    <3>1. (\A m \in M1 : \E i \in 1 .. Len(old.keys) : m = old.keys[i]) /\ \A i \in 1 .. Len(old.keys) : old.vals[i] = d[old.keys[i]] /\ old.vals[i] \in Values
      BY <1>1, SpellsFacts
    <3>. QED
      BY <1>2, <3>1
  <2>. QED
    BY <2>1, <2>2
<1>7. /\ gg.root = Node(Append(g.root.keys, x), Append(g.root.vals, v), Append(g.root.kids, Place(h, x)))
      /\ gg.old = SplitRight(old, x) /\ gg.id = Place(h, x) /\ gg.oram = SetBlob(g.oram, g.id, c)
  BY DEF Promote, Turn
<1> HIDE DEF gg, old, M1, c, v
<1>8. Appended(g.root, P, d, h + 1, 0, x, v, Place(h, x))
  <2> DEFINE l == h + 1  id == Place(h, x)
  <2>1. l # 0 /\ id \in Ids /\ IsAt(id, l - 1, x) /\ Spells(g.root, P, d, l, 0)
    BY <1>1, <1>4, <1>5
  <2> HIDE DEF l, id
  <2>2. Appended(g.root, P, d, l, 0, x, v, id)
    BY <1>2, <1>3, <1>6, <2>1, SpellsAppend
  <2>. QED
    BY <2>2 DEF l, id
<1>9. Spells(gg.root, Q, d, h + 1, 0) /\ ToSet(gg.root.kids) = {Place(h, k) : k \in {0} \cup Q}
  <2>1. Spells(gg.root, Q, d, h + 1, 0) /\ ToSet(gg.root.kids) = ToSet(g.root.kids) \cup {Place(h, x)}
    BY <1>7, <1>8 DEF Appended
  <2>. QED
    BY <1>1, <2>1, ZenonT(60)
<1>10. Spells(gg.old, {k \in M : k > x}, d, h, x) /\ ToSet(gg.old.kids) \subseteq kids
  <2>1. \A m \in M1 : a < m
    BY <1>2 DEF M1
  <2>2. Spells(gg.old, {k \in M1 : k > x}, d, h, x) /\ ToSet(gg.old.kids) \subseteq ToSet(old.kids)
    <3> DEFINE n == gg.old
    <3>1. n = SplitRight(old, x)
      BY <1>7
    <3> HIDE DEF n
    <3>2. Spells(n, {k \in M1 : k > x}, d, h, x) /\ ToSet(n.kids) \subseteq ToSet(old.kids)
      BY <1>1, <1>2, <2>1, <3>1, RightHasStep
    <3>. QED
      BY <3>2 DEF n
  <2>3. {k \in M1 : k > x} = {k \in M : k > x}
    BY <1>2 DEF M1
  <2>. QED
    BY <1>1, <2>2, <2>3
<1>16. GapsStayed(M, P, a, x)
  <2>1. M \subseteq Nat
    BY <1>2
  <2>. QED
    BY <1>1, <1>2, <2>1, GapsStay
<1>11. Closed(c, M, Q, d, h, a, kids)
  <2>1. LeftOf(old, M1, d, h, a, x)
    BY <1>1, <1>2, SpellsLeft
  <2>2. Gap(M, Q, a) = {k \in M1 : k < x}
    BY <1>16 DEF M1, GapsStayed
  <2>3. Spells(c, Gap(M, Q, a), d, h, a)
    BY <2>1, <2>2 DEF LeftOf, c
  <2>4. ToSet(c.kids) \subseteq ToSet(old.kids)
    <3>1. CASE h = 0
      <4>1. c.kids = << >>
        BY <2>3, <3>1, SpellsFacts
      <4>2. ToSet(c.kids) = {}
        BY <4>1 DEF ToSet
      <4>. QED
        BY <4>2
    <3>2. CASE h # 0
      <4>1. ToSet(c.kids) = {e \in ToSet(old.kids) : e.left < x}
        BY <2>1, <3>2 DEF LeftOf, c
      <4>. QED
        BY <4>1
    <3>. QED
      BY <3>1, <3>2
  <2>5. c \in NodeRecs
    BY <2>3 DEF Spells
  <2>. QED
    BY <1>1, <2>3, <2>4, <2>5 DEF Closed
<1>12. gg.oram = Store(b, With(ca, Place(h, a), c), 0, ro) /\ gg.oram.cache = With(ca, Place(h, a), c)
  <2> HIDE DEF ca
  <2>1. gg.oram = Store(b, With(ca, Place(h, a), c), 0, ro)
    BY <1>1, <1>7, SetBlobIs
  <2>. QED
    BY <2>1, StoreFields
<1>13. DOMAIN gg.oram.cache = {Place(h, k) : k \in ({0} \cup Q) \ {x}}
  <2>1. DOMAIN gg.oram.cache = {Place(h, k) : k \in ({0} \cup P) \ {a}} \cup {Place(h, a)}
    BY <1>1, <1>12 DEF With
  <2>2. ({0} \cup Q) \ {x} = (({0} \cup P) \ {a}) \cup {a}
    BY <1>1, <1>2, <1>3
  <2>. QED
    BY <2>1, <2>2
<1>14. ASSUME NEW k \in ({0} \cup Q) \ {x} PROVE Closed(gg.oram.cache[Place(h, k)], M, Q, d, h, k, kids)
  <2>1. CASE k = a
    <3>1. gg.oram.cache[Place(h, k)] = c
      BY <1>12, <2>1 DEF With
    <3>. QED
      BY <1>11, <2>1, <3>1
  <2>2. CASE k # a
    <3>1. k \in ({0} \cup P) \ {a}
      BY <2>2
    <3>2. Place(h, k) # Place(h, a) /\ Place(h, k) \in DOMAIN ca
      <4>1. Place(h, k) \in DOMAIN ca
        BY <1>1, <3>1
      <4>2. Place(h, a) # Place(h, k)
        BY <1>2, <2>2, PlaceFacts
      <4>. QED
        BY <4>1, <4>2
    <3>3. gg.oram.cache[Place(h, k)] = ca[Place(h, k)]
      BY <1>12, <3>2 DEF With
    <3>4. Closed(ca[Place(h, k)], M, P, d, h, k, kids)
      BY <1>1, <3>1
    <3>5. Gap(M, Q, k) = Gap(M, P, k)
      BY <1>1, <1>16, <2>2, <3>1 DEF GapsStayed
    <3>. QED
      BY <3>3, <3>4, <3>5 DEF Closed
  <2>. QED
    BY <2>1, <2>2
<1>15. Q \subseteq M /\ x \in {0} \cup Q /\ \A q \in Q : q <= x
  <2>1. \A q \in P : q <= x
    <3>1. ASSUME NEW q \in P PROVE q <= x
      <4>1. q < x /\ q \in Nat
        BY <1>2, <1>3
      <4>. QED
        BY <1>2, <4>1
    <3>. QED
      BY <3>1
  <2>2. x <= x
    BY <1>2
  <2>. QED
    BY <1>1, <2>1, <2>2
<1> HIDE DEF Q
<1>. QED
  BY <1>7, <1>9, <1>10, <1>12, <1>13, <1>14, <1>15 DEF Climbed, gg, Q

Caches == UNION {[D -> NodeRecs] : D \in SUBSET Ids}
Climbers(b, ro) == [root : NodeRecs, old : NodeRecs, id : Ids, oram : {Store(b, c, 0, ro) : c \in Caches}]

Turned(g, t, up, M, P, x, d, h, b, ro, kids) ==
    /\ up => Promote(g, t) \in Climbers(b, ro) /\ Climbed(Promote(g, t), M, P \cup {x}, x, d, h, b, ro, kids)
    /\ ~up => Promote(g, t) = g

\* One turn of the loop, for a label that rises and for one that does not.
LEMMA ClimbTurn ==
  ASSUME NEW h \in 0 .. MaxHeight, NEW d, IsMap(d), NEW M, M \subseteq DOMAIN d, NEW P, NEW a, NEW b, NEW ro, NEW kids,
         NEW g, Climbed(g, M, P, a, d, h, b, ro, kids), NEW x \in M, a < x,
         NEW up \in BOOLEAN, NEW t, t = [label |-> x, rises |-> up, id |-> Place(h, x)]
  PROVE  Turned(g, t, up, M, P, x, d, h, b, ro, kids)
<1> USE DEF Turned
<1>1. CASE ~up
  BY <1>1 DEF Promote
<1>2. CASE up
  <2>1. t = Turn(h, x)
    BY <1>2 DEF Turn
  <2> DEFINE gg == Promote(g, Turn(h, x))  ca == g.oram.cache  cb == gg.oram.cache  c == SplitLeft(g.old, x)
             Q == P \cup {x}
  <2>2. Climbed(gg, M, Q, x, d, h, b, ro, kids)
    BY ClimbStep
  <2>3. /\ gg = [root |-> gg.root, old |-> gg.old, id |-> gg.id, oram |-> gg.oram]
        /\ gg.oram = SetBlob(g.oram, g.id, c) /\ gg.id = Place(h, x)
    BY DEF Promote, Turn
  <2>4. g.oram = Store(b, ca, 0, ro)
    BY DEF Climbed
  <2>5. gg.oram = Store(b, cb, 0, ro) /\ cb = With(ca, g.id, c)
    <3> HIDE DEF ca, c
    <3>1. gg.oram = Store(b, With(ca, g.id, c), 0, ro)
      BY <2>3, <2>4, SetBlobIs
    <3>. QED
      BY <3>1, StoreFields
  <2> HIDE DEF gg, ca, cb, c
  <2>6. cb = [y \in DOMAIN cb |-> cb[y]]
    BY <2>5, WithIsMap
  <2>7. DOMAIN cb \subseteq Ids /\ \A y \in DOMAIN cb : cb[y] \in NodeRecs
    <3>1. DOMAIN cb = {Place(h, k) : k \in ({0} \cup Q) \ {x}} /\ Q \subseteq M
      BY <2>2 DEF Climbed, cb
    <3>2. ASSUME NEW k \in ({0} \cup Q) \ {x} PROVE Place(h, k) \in Ids /\ cb[Place(h, k)] \in NodeRecs
      <4>1. Closed(cb[Place(h, k)], M, Q, d, h, k, kids)
        BY <2>2 DEF Climbed, cb
      <4>2. k \in {0} \cup Labels
        BY <3>1 DEF IsMap
      <4>. QED
        BY <4>1, <4>2, PlaceFacts DEF Closed
    <3>. QED
      BY <3>1, <3>2
  <2>8. cb \in Caches
    BY <2>6, <2>7 DEF Caches
  <2>9. gg.root \in NodeRecs /\ gg.old \in NodeRecs /\ gg.id \in Ids
    <3>1. x \in {0} \cup Labels
      BY DEF IsMap
    <3>2. gg.root \in NodeRecs /\ gg.old \in NodeRecs
      BY <2>2 DEF Climbed, Spells
    <3>. QED
      BY <2>3, <3>1, <3>2, PlaceFacts
  <2>10. gg \in Climbers(b, ro)
    BY <2>3, <2>5, <2>8, <2>9 DEF Climbers
  <2>. QED
    BY <1>2, <2>1, <2>2, <2>10 DEF gg
<1>. QED
  BY <1>1, <1>2

\* The loop, from a root that has no label yet.
Starts(h, n, b, ro) ==
    [root |-> Node(<< >>, << >>, <<Place(h, 0)>>), old |-> n, id |-> Place(h, 0), oram |-> Store(b, NoBlobs, 0, ro)]

LEMMA ClimbStarts ==
  ASSUME NEW h \in 0 .. MaxHeight, NEW d, IsMap(d), NEW M, M \subseteq DOMAIN d, NEW b, NEW ro, NEW n, Spells(n, M, d, h, 0)
  PROVE  /\ Starts(h, n, b, ro) \in Climbers(b, ro)
         /\ Climbed(Starts(h, n, b, ro), M, {}, 0, d, h, b, ro, ToSet(n.kids))
<1> DEFINE g == Starts(h, n, b, ro)  k == Place(h, 0)  e == << >>  o == <<k>>  G == {}  z == 0  l == h + 1
<1>1. k \in Ids /\ IsAt(k, h, 0)
  BY PlaceFacts
<1>2. e \in Seq(Labels) /\ e \in Seq(Values) /\ Len(e) = 0 /\ o \in Seq(Ids) /\ Len(o) = 1 /\ o[1] = k /\ ToSet(o) = {k}
  BY <1>1 DEF ToSet
<1>3. l # 0 /\ l - 1 = h
  BY HirbAssumption
<1>4. g.root = [keys |-> e, vals |-> e, kids |-> o] /\ g.old = n /\ g.id = k /\ g.oram = Store(b, NoBlobs, 0, ro)
      /\ g = [root |-> g.root, old |-> g.old, id |-> g.id, oram |-> g.oram]
  BY DEF Starts, Node
<1>5. G = {} /\ z = 0 /\ z \in Nat
  OBVIOUS
<1> HIDE DEF g, e, o, G, z, l, k
<1>6. Spells([keys |-> e, vals |-> e, kids |-> o], G, d, l, z)
  <2>1. \A i \in 1 .. Len(e) : FALSE
    BY <1>2
  <2>2. Len(o) = Len(e) + 1 /\ \A i \in 1 .. Len(e) + 1 : i = 1
    BY <1>2
  <2>. QED
    BY <1>1, <1>2, <1>3, <1>5, <2>1, <2>2, SpellsMade
<1>7. g.root \in NodeRecs /\ g.old \in NodeRecs
  BY <1>4, <1>6 DEF Spells
<1>8. NoBlobs \in Caches /\ DOMAIN NoBlobs = {}
  <2> DEFINE f == NoBlobs  X == {}
  <2>1. DOMAIN f = X /\ f = [y \in X |-> f[y]] /\ \A y : y \notin X
    BY DEF NoBlobs
  <2> HIDE DEF f, X
  <2>2. f \in [X -> NodeRecs] /\ X \in SUBSET Ids
    BY <2>1
  <2>3. DOMAIN f = {}
    BY <2>1
  <2>4. f \in Caches
    <3> DEFINE C == {[D -> NodeRecs] : D \in SUBSET Ids}  F == [X -> NodeRecs]
    <3>1. F \in C /\ f \in F
      BY <2>2
    <3> HIDE DEF C, F
    <3>2. f \in UNION C
      BY <3>1
    <3>. QED
      BY <3>2 DEF C, Caches
  <2>. QED
    BY <2>3, <2>4 DEF f
<1>9. g \in Climbers(b, ro)
  <2> DEFINE O == {Store(b, c, 0, ro) : c \in Caches}
  <2>3. g.oram \in O
    BY <1>4, <1>8
  <2> HIDE DEF O
  <2>4. g \in [root : NodeRecs, old : NodeRecs, id : Ids, oram : O]
    BY <1>1, <1>4, <1>7, <2>3
  <2>. QED
    BY <2>4 DEF Climbers, O
<1>10. M \subseteq Nat \ {0}
  BY HirbAssumption DEF IsMap
<1>11. {m \in M : m > 0} = M
  <2>1. \A m \in M : m > 0
    <3>1. ASSUME NEW m \in M PROVE m > 0
      <4>1. m \in Nat \ {0}
        BY <1>10
      <4>. QED
        BY <4>1
    <3>. QED
      BY <3>1
  <2>. QED
    BY <2>1
<1>12. ({0} \cup {}) \ {0} = {} /\ {0} \cup {} = {0} /\ {Place(h, j) : j \in {0}} = {k} /\ {Place(h, j) : j \in {}} = {}
  BY DEF k
<1>13. Climbed(g, M, {}, 0, d, h, b, ro, ToSet(n.kids))
  <2>1. Spells(g.root, {}, d, h + 1, 0)
    BY <1>4, <1>5, <1>6 DEF l
  <2>2. ToSet(g.root.kids) = {Place(h, j) : j \in {0} \cup {}}
    BY <1>2, <1>4, <1>12
  <2>3. g.oram.cache = NoBlobs /\ g.oram = Store(b, g.oram.cache, 0, ro)
    BY <1>4, StoreFields
  <2>4. Spells(g.old, {m \in M : m > 0}, d, h, 0) /\ ToSet(g.old.kids) \subseteq ToSet(n.kids)
    BY <1>4, <1>11
  <2>5. g.id = Place(h, 0)
    BY <1>4 DEF k
  <2>6. DOMAIN g.oram.cache = {Place(h, j) : j \in ({0} \cup {}) \ {0}}
    <3> DEFINE J == ({0} \cup {}) \ {0}
    <3>1. J = {}
      BY <1>12
    <3>2. \A j : j \notin J
      BY <3>1
    <3> HIDE DEF J
    <3> DEFINE T == {Place(h, j) : j \in J}
    <3>3. T = {}
      BY <3>2
    <3> HIDE DEF T
    <3>4. DOMAIN g.oram.cache = T
      BY <1>8, <2>3, <3>3
    <3>. QED
      BY <3>4 DEF J, T
  <2>. QED
    BY <2>1, <2>2, <2>3, <2>4, <2>5, <2>6, <1>12 DEF Climbed
<1>. QED
  BY <1>9, <1>13 DEF g

\* The labels of the old root that rise out of it.
Risen(r, M, h) == {k \in M : Rank(r, k, h + 1) > h}

Ends(g, r, M, d, h, b, ro, kids) ==
    /\ Grown = [root |-> g.root, oram |-> SetBlob(g.oram, g.id, g.old)]
    /\ \E a : Climbed(g, M, Risen(r, M, h), a, d, h, b, ro, kids)

LEMMA GrownClimbs ==
  ASSUME rise \in [Labels -> Nat], IsMap(dict), NEW h \in 0 .. MaxHeight, h = height, NEW M, M \subseteq DOMAIN dict,
         Spells(root, M, dict, h, 0), NEW b, NEW ro, oram = Store(b, NoBlobs, 0, ro)
  PROVE  \E g : Ends(g, rise, M, dict, h, b, ro, ToSet(root.kids))
<1> DEFINE ks == root.keys  L == Len(ks)  kids == ToSet(root.kids)
           up(x) == HeightOf(x, height + 1) > height
           turns == [i \in DOMAIN ks |-> [label |-> ks[i], rises |-> up(ks[i]), id |-> Place(height, ks[i])]]
           first == [root |-> Node(<< >>, << >>, <<Place(height, 0)>>), old |-> root, id |-> Place(height, 0), oram |-> oram]
           Ups(p) == {k \in M : Rank(rise, k, h + 1) > h /\ \E i \in 1 .. p : k = ks[i]}
           Good(p) == {g \in Climbers(b, ro) : \E a : Climbed(g, M, Ups(p), a, dict, h, b, ro, kids)}
           Ok == [p \in 0 .. L |-> Good(p)]
<1>1. /\ L \in Nat /\ DOMAIN ks = 1 .. L /\ M \subseteq Nat \ {0} /\ M \subseteq Labels
      /\ \A i \in 1 .. L : ks[i] \in M /\ ks[i] \in Nat \ {0} /\ ks[i] \in Labels
      /\ \A m \in M : \E i \in 1 .. L : m = ks[i]
      /\ \A i, j \in 1 .. L : i < j => ks[i] < ks[j]
  BY SpellsFacts, SMTT(30)
<1>2. first \in Ok[0]
  <2>1. first = Starts(h, root, b, ro)
    BY DEF Starts
  <2>2. Ups(0) = {}
    OBVIOUS
  <2>3. first \in Climbers(b, ro) /\ Climbed(first, M, {}, 0, dict, h, b, ro, kids)
    BY <2>1, ClimbStarts
  <2> HIDE DEF first, Ups
  <2>4. first \in Good(0)
    BY <2>2, <2>3
  <2> HIDE DEF Good, L
  <2>. QED
    BY <1>1, <2>4 DEF L
<1>3. \A p \in 1 .. L : \A g \in Ok[p - 1] : Promote(g, turns[p]) \in Ok[p]
  <2> HIDE DEF ks
  <2> SUFFICES ASSUME NEW p \in 1 .. L, NEW g \in Ok[p - 1] PROVE Promote(g, turns[p]) \in Ok[p]
    OBVIOUS
  <2> DEFINE x == ks[p]  t == turns[p]  P == Ups(p - 1)
  <2>1. x \in M /\ x \in Nat /\ x \in Labels /\ p \in Nat /\ p - 1 \in 0 .. L /\ p \in 0 .. L
    BY <1>1
  <2>2. t = [label |-> x, rises |-> up(x), id |-> Place(h, x)]
    BY <1>1
  <2>3. up(x) <=> Rank(rise, x, h + 1) > h
    <3>1. h + 1 \in Nat
      BY HirbAssumption
    <3>. QED
      BY <2>1, <3>1, HeightIsRank
  <2>4. up(x) \in BOOLEAN
    OBVIOUS
  <2>5. g \in Good(p - 1)
    BY <2>1
  <2>6. PICK a : Climbed(g, M, P, a, dict, h, b, ro, kids)
    BY <2>5
  <2>7. a < x
    <3>1. a \in {0} \cup P
      BY <2>6 DEF Climbed
    <3>2. CASE a = 0
      BY <1>1, <2>1, <3>2
    <3>3. CASE a \in P
      <4>1. PICK i \in 1 .. p - 1 : a = ks[i]
        BY <3>3
      <4>2. i \in 1 .. L /\ i < p
        BY <1>1, <2>1
      <4>. QED
        BY <1>1, <4>1, <4>2
    <3>. QED
      BY <3>1, <3>2, <3>3
  <2>8. /\ up(x) => Ups(p) = P \cup {x}
        /\ ~up(x) => Ups(p) = P
    <3>1. 1 .. p = 1 .. p - 1 \cup {p}
      BY <2>1
    <3> DEFINE R(k) == Rank(rise, k, h + 1) > h
    <3>2. up(x) <=> R(x)
      BY <2>3
    <3> HIDE DEF up, R
    <3>3. \A k \in M : (\E i \in 1 .. p : k = ks[i]) <=> (\E i \in 1 .. p - 1 : k = ks[i]) \/ k = x
      BY <3>1
    <3>. QED
      BY <2>1, <3>2, <3>3 DEF R
  <2> HIDE DEF t, up, Ups, x
  <2> DEFINE u == up(x)
  <2>9. u \in BOOLEAN /\ t = [label |-> x, rises |-> u, id |-> Place(h, x)]
    BY <2>2, <2>4
  <2> HIDE DEF u
  <2>10. /\ u => Promote(g, t) \in Climbers(b, ro) /\ Climbed(Promote(g, t), M, P \cup {x}, x, dict, h, b, ro, kids)
         /\ ~u => Promote(g, t) = g
    <3> HIDE DEF P, kids
    <3>1. Climbed(g, M, P, a, dict, h, b, ro, kids)
      BY <2>6
    <3>2. Turned(g, t, u, M, P, x, dict, h, b, ro, kids)
      BY <2>1, <2>7, <2>9, <3>1, ClimbTurn
    <3>. QED
      BY <3>2 DEF Turned
  <2> DEFINE gg == Promote(g, t)
  <2> HIDE DEF gg
  <2>11. gg \in Good(p)
    <3>1. CASE u
      <4>1. Climbed(gg, M, Ups(p), x, dict, h, b, ro, kids)
        BY <2>8, <2>10, <3>1 DEF u, gg
      <4>. QED
        BY <2>10, <3>1, <4>1 DEF gg
    <3>2. CASE ~u
      <4>1. Ups(p) = P /\ gg = g
        BY <2>8, <2>10, <3>2 DEF u, gg
      <4>. QED
        BY <2>5, <4>1
    <3>. QED
      BY <3>1, <3>2
  <2> HIDE DEF Good
  <2>. QED
    BY <2>1, <2>11 DEF gg, t
<1>4. DOMAIN turns = 1 .. L
  BY <1>1
<1> DEFINE F == Climbs!Fold(first, turns)
<1>5. F \in Ok[L]
  <2> HIDE DEF Ok, turns, first, L
  <2>1. L \in Nat
    BY <1>1 DEF L
  <2>. QED
    BY <1>2, <1>3, <1>4, <2>1, Climbs!FoldStays
<1>6. Grown = [root |-> F.root, oram |-> SetBlob(F.oram, F.id, F.old)]
  BY DEF Grown, Climbs!Fold, FoldLeft, Climbs!MapThenFoldSet, MapThenFoldSet, Max, Climbs!Latest
<1> HIDE DEF F, turns, first
<1>7. Ups(L) = Risen(rise, M, h)
  BY <1>1 DEF Risen
<1>8. F \in Good(L)
  <2> HIDE DEF Good, L
  <2>1. L \in 0 .. L
    BY <1>1 DEF L
  <2>. QED
    BY <1>5, <2>1
<1> HIDE DEF Ups, L
<1>. QED
  BY <1>6, <1>7, <1>8 DEF Ends

\* What the new height changes: the labels of the root are now on two levels.
LevelsGrow(r, d, h, M, P) ==
    /\ \A l \in 0 .. h - 1 : /\ Tops(r, d, h + 1, l) = Tops(r, d, h, l)
                             /\ \A k : Held(r, d, h + 1, l, k) = Held(r, d, h, l, k)
    /\ Tops(r, d, h + 1, h) = {0} \cup P /\ \A k \in {0} \cup P : Held(r, d, h + 1, h, k) = Gap(M, P, k)
    /\ Tops(r, d, h + 1, h + 1) = {0} /\ Held(r, d, h + 1, h + 1, 0) = P

LEMMA RankGrows ==
  ASSUME NEW r \in [Labels -> Nat], NEW h \in Nat, NEW d, IsMap(d),
         NEW M, M = Held(r, d, h, h, 0), NEW P, P = Risen(r, M, h)
  PROVE  LevelsGrow(r, d, h, M, P)
<1>1. DOMAIN d \subseteq Labels /\ Labels \subseteq Nat \ {0}
  BY HirbAssumption DEF IsMap
<1>2. ASSUME NEW k \in DOMAIN d
      PROVE  /\ \A l \in 0 .. h - 1 : (Rank(r, k, h + 1) > l <=> Rank(r, k, h) > l) /\ (Rank(r, k, h + 1) = l <=> Rank(r, k, h) = l)
             /\ Rank(r, k, h) = h <=> r[k] >= h
             /\ Rank(r, k, h + 1) > h <=> r[k] > h
             /\ Rank(r, k, h + 1) = h <=> r[k] = h
             /\ ~(Rank(r, k, h + 1) > h + 1) /\ ~(Rank(r, k, h) > h)
             /\ Rank(r, k, h + 1) = h + 1 <=> r[k] > h
             /\ k > 0 /\ k \in Nat /\ r[k] \in Nat
  <2>1. r[k] \in Nat /\ k \in Nat \ {0}
    BY <1>1
  <2>. QED
    BY <2>1 DEF Rank
<1>3. ASSUME NEW l \in 0 .. h - 1
      PROVE  Tops(r, d, h + 1, l) = Tops(r, d, h, l) /\ \A k : Held(r, d, h + 1, l, k) = Held(r, d, h, l, k)
  <2>1. Tops(r, d, h + 1, l) = Tops(r, d, h, l)
    BY <1>2 DEF Tops
  <2>. QED
    BY <1>2, <2>1 DEF Held
<1>4. M = {k \in DOMAIN d : r[k] >= h}
  <2>1. Tops(r, d, h, h) = {0}
    BY <1>2 DEF Tops
  <2>2. \A k \in DOMAIN d : \A j \in {0} : j > 0 => k < j
    OBVIOUS
  <2>. QED
    BY <1>2, <2>1, <2>2 DEF Held
<1>5. P = {k \in DOMAIN d : r[k] > h} /\ P \subseteq M
  <2>1. \A k \in DOMAIN d : r[k] > h => r[k] >= h
    BY <1>2
  <2>. QED
    BY <1>2, <1>4, <2>1 DEF Risen
<1>6. Tops(r, d, h + 1, h) = {0} \cup P
  BY <1>2, <1>5 DEF Tops
<1>7. ASSUME NEW k \in {0} \cup P PROVE Held(r, d, h + 1, h, k) = Gap(M, P, k)
  <2>1. k \in Nat
    BY <1>2, <1>5
  <2>2. ASSUME NEW j \in Held(r, d, h + 1, h, k) PROVE j \in Gap(M, P, k)
    <3>1. j \in DOMAIN d /\ j > k /\ r[j] = h /\ \A q \in {0} \cup P : q > k => j < q
      BY <1>2, <1>6 DEF Held
    <3>2. j \in M
      BY <1>2, <1>4, <3>1
    <3>3. k < j
      BY <1>2, <2>1, <3>1
    <3>. QED
      BY <3>1, <3>2, <3>3 DEF Gap
  <2>3. ASSUME NEW j \in Gap(M, P, k) PROVE j \in Held(r, d, h + 1, h, k)
    <3>1. j \in DOMAIN d /\ j \in M /\ k < j /\ \A q \in P : q > k => j < q
      BY <1>4 DEF Gap
    <3>2. j > k /\ ~(j < j) /\ j \in Nat
      BY <1>2, <2>1, <3>1
    <3>3. j \notin P
      BY <3>1, <3>2
    <3>4. r[j] = h
      BY <1>2, <1>4, <1>5, <3>1, <3>3
    <3>5. \A q \in {0} \cup P : q > k => j < q
      BY <2>1, <3>1
    <3>. QED
      BY <1>2, <1>6, <3>1, <3>2, <3>4, <3>5 DEF Held
  <2>. QED
    BY <2>2, <2>3
<1>8. Tops(r, d, h + 1, h + 1) = {0}
  BY <1>2 DEF Tops
<1>9. Held(r, d, h + 1, h + 1, 0) = P
  <2>1. \A k \in DOMAIN d : \A j \in {0} : j > 0 => k < j
    OBVIOUS
  <2>. QED
    BY <1>2, <1>5, <1>8, <2>1 DEF Held
<1>. QED
  BY <1>3, <1>6, <1>7, <1>8, <1>9 DEF LevelsGrow

AllClosed(c, M, P, d, h, kids) ==
    /\ DOMAIN c = {Place(h, k) : k \in {0} \cup P}
    /\ \A k \in {0} \cup P : Closed(c[Place(h, k)], M, P, d, h, k, kids)

\* All nodes of the old root are in the cache at the end.
LEMMA ClimbEnds ==
  ASSUME NEW h \in 0 .. MaxHeight, NEW d, IsMap(d), NEW M, M \subseteq DOMAIN d, NEW P, NEW a, NEW b, NEW ro, NEW kids,
         NEW g, Climbed(g, M, P, a, d, h, b, ro, kids), NEW c, c = With(g.oram.cache, g.id, g.old)
  PROVE  AllClosed(c, M, P, d, h, kids)
<1> DEFINE ca == g.oram.cache
<1>1. /\ P \subseteq M /\ a \in {0} \cup P /\ (\A q \in P : q <= a) /\ g.id = Place(h, a)
      /\ Spells(g.old, {k \in M : k > a}, d, h, a) /\ ToSet(g.old.kids) \subseteq kids
      /\ DOMAIN ca = {Place(h, k) : k \in ({0} \cup P) \ {a}}
      /\ \A k \in ({0} \cup P) \ {a} : Closed(ca[Place(h, k)], M, P, d, h, k, kids)
  BY DEF Climbed
<1>2. M \subseteq Nat \ {0} /\ M \subseteq Labels /\ a \in Nat
  BY <1>1, HirbAssumption DEF IsMap
<1>3. Gap(M, P, a) = {k \in M : k > a}
  <2>1. \A q \in P : ~(q > a)
    <3>1. ASSUME NEW q \in P PROVE ~(q > a)
      <4>1. q <= a /\ q \in Nat
        BY <1>1, <1>2
      <4>. QED
        BY <1>2, <4>1
    <3>. QED
      BY <3>1
  <2>2. \A k \in M : a < k <=> k > a
    BY <1>2
  <2>. QED
    BY <2>1, <2>2 DEF Gap
<1>4. Closed(g.old, M, P, d, h, a, kids)
  BY <1>1, <1>3 DEF Closed, Spells
<1> HIDE DEF ca
<1>5. DOMAIN c = DOMAIN ca \cup {Place(h, a)} /\ c[Place(h, a)] = g.old /\ \A y \in DOMAIN ca : y # Place(h, a) => c[y] = ca[y]
  <2> DEFINE id == g.id  n == g.old
  <2>1. c = With(ca, id, n) /\ id = Place(h, a)
    BY <1>1 DEF ca
  <2> HIDE DEF id, n
  <2>2. DOMAIN c = DOMAIN ca \cup {id} /\ c[id] = n /\ \A y \in DOMAIN ca : y # id => c[y] = ca[y]
    BY <2>1 DEF With
  <2>. QED
    BY <2>1, <2>2 DEF n
<1>6. DOMAIN c = {Place(h, k) : k \in {0} \cup P}
  <2>1. {0} \cup P = (({0} \cup P) \ {a}) \cup {a}
    BY <1>1
  <2>. QED
    BY <1>1, <1>5, <2>1
<1>7. ASSUME NEW k \in {0} \cup P PROVE Closed(c[Place(h, k)], M, P, d, h, k, kids)
  <2>1. CASE k = a
    BY <1>4, <1>5, <2>1
  <2>2. CASE k # a
    <3>1. Place(h, k) \in DOMAIN ca /\ Closed(ca[Place(h, k)], M, P, d, h, k, kids)
      BY <1>1, <2>2
    <3>2. Place(h, k) # Place(h, a)
      <4>1. a \in {0} \cup Labels
        BY <1>1, <1>2
      <4>. QED
        BY <2>2, <4>1, PlaceFacts
    <3>. QED
      BY <1>5, <3>1, <3>2
  <2>. QED
    BY <2>1, <2>2
<1>. QED
  BY <1>6, <1>7 DEF AllClosed

\* What is known of a node of the tree that has grown.
Stands(T, r, d, H, id, l, k) ==
    /\ Spot(id, H) = <<l, k>> /\ l \in 0 .. H /\ k \in Tops(r, d, H, l)
    /\ Spells(T[id], Held(r, d, H, l, k), d, l, k)
    /\ ToSet(T[id].kids) \subseteq DOMAIN T
    /\ id # NoId => id \in Ids /\ id.level = l /\ id.left = k /\ l < H
    /\ id = NoId => l = H

Upright(T, r, d, H) ==
    /\ \A id \in DOMAIN T : \E l, k : Stands(T, r, d, H, id, l, k)
    /\ \A l \in 0 .. H : \A k \in Tops(r, d, H, l) : \E id \in DOMAIN T : Spot(id, H) = <<l, k>>
    /\ \A id, other \in DOMAIN T : Spot(id, H) = Spot(other, H) => id = other

LEMMA StandsTree ==
  ASSUME NEW r \in [Labels -> Nat], NEW H \in Nat, NEW d, IsMap(d), NEW T, NoId \in DOMAIN T,
         Upright(T, r, d, H)
  PROVE  Tree(T, H, Shape(r, d, d, H, 0), {})
<1> DEFINE V == Shape(r, d, d, H, 0)
<1> HIDE DEF V
<1>1. ASSUME NEW id \in DOMAIN T PROVE Spot(id, H) \in DOMAIN V /\ Fits(T[id], V, Spot(id, H)) /\ ToSet(T[id].kids) \subseteq DOMAIN T
  <2>1. PICK l, k : Stands(T, r, d, H, id, l, k)
    BY DEF Upright
  <2> DEFINE z == 0  m == T[id]
  <2>2. /\ z \in Nat /\ V = Shape(r, d, d, H, z) /\ l \in 0 .. H /\ k \in Tops(r, d, H, l) /\ Spot(id, H) = <<l, k>>
        /\ Spells(m, Held(r, d, H, l, k), d, l, k) /\ ToSet(m.kids) \subseteq DOMAIN T
    BY <2>1 DEF Stands, V
  <2> HIDE DEF z, m
  <2>3. <<l, k>> \in DOMAIN V
    BY <2>2, ShapeIn
  <2>4. Fits(m, Shape(r, d, d, H, z), <<l, k>>)
    BY <2>2, FitsAt
  <2>. QED
    BY <2>2, <2>3, <2>4 DEF m
<1>2. ASSUME NEW id \in DOMAIN T, id # NoId PROVE id \in Ids /\ id.level < H
  BY <1>2 DEF Stands, Upright
<1>3. ASSUME NEW q \in DOMAIN V PROVE \E id \in DOMAIN T : Spot(id, H) = q
  <2>1. q = <<q[1], q[2]>> /\ q[1] \in 0 .. H /\ q[2] \in Tops(r, d, H, q[1])
    BY ShapeAt DEF V
  <2>. QED
    BY <2>1 DEF Upright
<1> DEFINE G == {}
<1>4. \A id \in DOMAIN T : ToSet(T[id].kids) \subseteq DOMAIN T \cup G
  BY <1>1
<1> HIDE DEF G
<1>5. Tree(T, H, V, G)
  BY <1>1, <1>2, <1>3, <1>4 DEF Tree, Upright
<1>. QED
  BY <1>5 DEF V, G

LEMMA TreeGrows ==
  ASSUME NEW r \in [Labels -> Nat], NEW h \in 0 .. MaxHeight, NEW d, IsMap(d),
         NEW N, Tree(N, h, Shape(r, d, d, h, 0), {}), NEW M, M = Held(r, d, h, h, 0), NEW P, P = Risen(r, M, h),
         NEW b, NoId \notin DOMAIN b, DOMAIN N = DOMAIN b \cup {NoId}, \A id \in DOMAIN b : N[id] = b[id],
         NEW c, DOMAIN c = {Place(h, k) : k \in {0} \cup P}, NEW kids, kids \subseteq DOMAIN b,
         \A k \in {0} \cup P : Closed(c[Place(h, k)], M, P, d, h, k, kids),
         NEW n, Spells(n, P, d, h + 1, 0), ToSet(n.kids) = {Place(h, k) : k \in {0} \cup P},
         NEW T, T = With(Over(c, b), NoId, n), NEW H, H = h + 1
  PROVE  Tree(T, H, Shape(r, d, d, H, 0), {})
<1> DEFINE W == Shape(r, d, d, h, 0)
<1>1. h \in Nat /\ H \in Nat /\ MaxHeight \in Nat
  BY HirbAssumption
<1>2. LevelsGrow(r, d, h, M, P)
  BY <1>1, RankGrows
<1>3. Shaped(W, h)
  BY <1>1, ShapeShaped
<1>4. P \subseteq Labels /\ P \subseteq Nat /\ Labels \subseteq Nat
  <2>1. P \subseteq DOMAIN d
    BY DEF Risen, Held
  <2>. QED
    BY <2>1, HirbAssumption DEF IsMap
<1>5. ASSUME NEW k \in {0} \cup P
      PROVE  Place(h, k) \in Ids /\ Place(h, k) # NoId /\ Place(h, k).level = h /\ Place(h, k).left = k
  <2>1. k \in {0} \cup Labels
    BY <1>4
  <2>. QED
    BY <2>1, PlaceFacts
<1> HIDE DEF W
<1>6. ASSUME NEW id \in DOMAIN b
      PROVE  /\ id \in Ids /\ id # NoId /\ id.level < h /\ id.level \in Nat /\ id.left \in Nat
             /\ Spot(id, h) = <<id.level, id.left>> /\ Spot(id, H) = <<id.level, id.left>>
             /\ id.left \in Tops(r, d, h, id.level)
             /\ Spells(b[id], Held(r, d, h, id.level, id.left), d, id.level, id.left)
             /\ ToSet(b[id].kids) \subseteq DOMAIN b
  <2>1. id \in DOMAIN N /\ id # NoId /\ N[id] = b[id]
    OBVIOUS
  <2>2. Tree(N, h, W, {})
    BY DEF W
  <2>3. id \in Ids /\ id.level < h
    BY <2>1, <2>2 DEF Tree
  <2> DEFINE l == id.level  k == id.left
  <2>4. Spot(id, h) = <<l, k>> /\ Spot(id, H) = <<l, k>>
    BY <2>1 DEF Spot
  <2>5. l \in Nat /\ k \in Nat
    <3>1. l \in 0 .. MaxHeight /\ k \in {0} \cup Labels
      BY <2>3 DEF Ids
    <3> HIDE DEF l, k
    <3>. QED
      BY <1>1, <1>4, <3>1
  <2> HIDE DEF l, k
  <2> DEFINE z == 0  G == {}
  <2>6. z \in Nat /\ Tree(N, h, Shape(r, d, d, h, z), G) /\ IsMap(d)
    OBVIOUS
  <2> HIDE DEF z, G
  <2>7. k \in Tops(r, d, h, l) /\ Spells(N[id], Held(r, d, h, l, k), d, l, k)
    BY <1>1, <2>1, <2>4, <2>5, <2>6, NodeIn
  <2>8. ToSet(N[id].kids) \subseteq DOMAIN N
    BY <2>1, <2>2 DEF Tree
  <2>9. \A e \in ToSet(N[id].kids) : e # NoId
    <3> DEFINE E == {}
    <3>1. Tree(N, h, W, E)
      BY <2>2
    <3> HIDE DEF E
    <3>. QED
      BY <1>1, <1>3, <2>1, <3>1, KidOf, SMTT(30)
  <2>10. ToSet(b[id].kids) \subseteq DOMAIN b
    BY <2>1, <2>8, <2>9
  <2>. QED
    BY <2>1, <2>3, <2>4, <2>5, <2>7, <2>10 DEF l, k
<1>7. /\ DOMAIN T = {NoId} \cup DOMAIN c \cup DOMAIN b /\ T[NoId] = n
      /\ \A id \in DOMAIN c : id # NoId => T[id] = c[id]
      /\ \A id \in DOMAIN b : id \notin DOMAIN c => T[id] = b[id]
  BY DEF With, Over
<1>8. ASSUME NEW id \in DOMAIN b PROVE Stands(T, r, d, H, id, id.level, id.left)
  <2>1. id \notin DOMAIN c
    BY <1>1, <1>5, <1>6
  <2>2. T[id] = b[id]
    BY <1>7, <2>1
  <2>3. id.level \in 0 .. h - 1 /\ id.level \in 0 .. H /\ id.level < H
    BY <1>1, <1>6
  <2>4. /\ Tops(r, d, H, id.level) = Tops(r, d, h, id.level)
        /\ Held(r, d, H, id.level, id.left) = Held(r, d, h, id.level, id.left)
    BY <1>2, <2>3 DEF LevelsGrow
  <2>5. ToSet(T[id].kids) \subseteq DOMAIN T
    BY <1>6, <1>7, <2>2
  <2>. QED
    BY <1>6, <2>2, <2>3, <2>4, <2>5 DEF Stands
<1>9. ASSUME NEW k \in {0} \cup P PROVE Stands(T, r, d, H, Place(h, k), h, k)
  <2>1. Place(h, k) \in DOMAIN c /\ T[Place(h, k)] = c[Place(h, k)]
    BY <1>5, <1>7
  <2>2. Spells(c[Place(h, k)], Gap(M, P, k), d, h, k) /\ ToSet(c[Place(h, k)].kids) \subseteq kids
    BY DEF Closed
  <2>3. k \in Tops(r, d, H, h) /\ Held(r, d, H, h, k) = Gap(M, P, k)
    BY <1>2 DEF LevelsGrow
  <2>4. Spot(Place(h, k), H) = <<h, k>>
    BY <1>5 DEF Spot
  <2>5. h \in 0 .. H /\ h < H
    BY <1>1
  <2>6. ToSet(T[Place(h, k)].kids) \subseteq DOMAIN T
    BY <1>7, <2>1, <2>2
  <2>. QED
    BY <1>5, <2>1, <2>2, <2>3, <2>4, <2>5, <2>6 DEF Stands
<1>10. Stands(T, r, d, H, NoId, H, 0)
  <2>1. Tops(r, d, H, H) = {0} /\ Held(r, d, H, H, 0) = P
    BY <1>2 DEF LevelsGrow
  <2>2. H \in 0 .. H /\ Spot(NoId, H) = <<H, 0>>
    BY <1>1 DEF Spot
  <2>3. ToSet(T[NoId].kids) \subseteq DOMAIN T
    BY <1>7
  <2>. QED
    BY <1>7, <2>1, <2>2, <2>3 DEF Stands
<1>11. ASSUME NEW id \in DOMAIN T PROVE \E l, k : Stands(T, r, d, H, id, l, k)
  <2>1. CASE id = NoId
    BY <1>10, <2>1
  <2>2. CASE id \in DOMAIN b
    BY <1>8, <2>2
  <2>3. CASE id \in DOMAIN c
    <3>1. PICK k \in {0} \cup P : id = Place(h, k)
      BY <2>3
    <3>. QED
      BY <1>9, <3>1
  <2>. QED
    BY <1>7, <2>1, <2>2, <2>3
<1>14. ASSUME NEW l \in 0 .. H, NEW k \in Tops(r, d, H, l) PROVE \E id \in DOMAIN T : Spot(id, H) = <<l, k>>
  <2>1. CASE l \in 0 .. h - 1
    <3>1. k \in Tops(r, d, h, l) /\ l \in 0 .. h
      BY <1>1, <1>2, <2>1 DEF LevelsGrow
    <3>2. <<l, k>> \in DOMAIN W
      BY <1>1, <3>1, ShapeAt DEF W
    <3>3. PICK id \in DOMAIN N : Spot(id, h) = <<l, k>>
      BY <3>2 DEF Tree, W
    <3>4. id # NoId
      BY <1>1, <2>1, <3>3 DEF Spot
    <3>5. Spot(id, H) = <<l, k>> /\ id \in DOMAIN b
      BY <3>3, <3>4 DEF Spot
    <3>. QED
      BY <1>7, <3>5
  <2>2. CASE l = h
    <3>1. k \in {0} \cup P
      BY <1>2, <2>2 DEF LevelsGrow
    <3>2. Place(h, k) \in DOMAIN T /\ Spot(Place(h, k), H) = <<h, k>>
      BY <1>5, <1>7, <3>1 DEF Spot
    <3>. QED
      BY <2>2, <3>2
  <2>3. CASE l = H
    <3>1. k = 0
      BY <1>2, <2>3 DEF LevelsGrow
    <3>. QED
      BY <1>7, <2>3, <3>1 DEF Spot
  <2>4. l \in 0 .. h - 1 \/ l = h \/ l = H
    BY <1>1
  <2>. QED
    BY <2>1, <2>2, <2>3, <2>4
<1>15. ASSUME NEW id \in DOMAIN T, NEW other \in DOMAIN T, Spot(id, H) = Spot(other, H) PROVE id = other
  <2>1. PICK l, k : Stands(T, r, d, H, id, l, k)
    BY <1>11
  <2>2. PICK s, j : Stands(T, r, d, H, other, s, j)
    BY <1>11
  <2>3. l = s /\ k = j
    BY <1>15, <2>1, <2>2 DEF Stands
  <2>4. CASE id = NoId \/ other = NoId
    BY <1>1, <2>1, <2>2, <2>3, <2>4 DEF Stands
  <2>5. CASE id # NoId /\ other # NoId
    <3>1. id.level = l /\ other.level = l /\ id.left = k /\ other.left = k
      BY <2>1, <2>2, <2>3, <2>5 DEF Stands
    <3>2. CASE l = h
      <4>1. id \in DOMAIN c /\ other \in DOMAIN c
        BY <1>1, <1>6, <1>7, <2>5, <3>1, <3>2
      <4>2. PICK i \in {0} \cup P : id = Place(h, i)
        BY <4>1
      <4>3. PICK o \in {0} \cup P : other = Place(h, o)
        BY <4>1
      <4>4. i = k /\ o = k
        BY <1>5, <3>1, <4>2, <4>3
      <4>. QED
        BY <4>2, <4>3, <4>4
    <3>3. CASE l # h
      <4>1. id \in DOMAIN b /\ other \in DOMAIN b
        BY <1>5, <1>7, <2>5, <3>1, <3>3
      <4>2. Spot(id, h) = Spot(other, h) /\ id \in DOMAIN N /\ other \in DOMAIN N
        BY <1>6, <3>1, <4>1
      <4>. QED
        BY <4>2 DEF Tree
    <3>. QED
      BY <3>2, <3>3
  <2>. QED
    BY <2>4, <2>5
<1>16. NoId \in DOMAIN T
  BY <1>7
<1>. QED
  <2>1. Upright(T, r, d, H)
    BY <1>11, <1>14, <1>15 DEF Upright
  <2>. QED
    BY <1>1, <1>16, <2>1, StandsTree

LEMMA GrowsTo ==
  ASSUME Typed, Resting, oram' = Forget(Finalize(Grown.oram)), root' = Grown.root, NEW H, H = height + 1
  PROVE  /\ Wrote(oram', root', Base(oram', root'), 0)
         /\ Tree(Base(oram', root'), H, Shape(rise, dict, dict, H, 0), {})
<1> DEFINE h == height  b == oram.blobs  ro == oram.rounds  N == Base(oram, root)  M == Held(rise, dict, h, h, 0)
           P == Risen(rise, M, h)  kids == ToSet(root.kids)
<1>1. /\ rise \in [Labels -> Nat] /\ IsMap(dict) /\ h \in 0 .. MaxHeight /\ h \in Nat /\ NoId \notin DOMAIN b
      /\ oram = Store(b, NoBlobs, 0, ro)
  <2>1. rise \in [Labels -> Nat] /\ IsMap(dict) /\ h \in 0 .. MaxHeight /\ NoId \notin DOMAIN b /\ IsStore(oram)
    BY DEF Typed, IsDict, IsMap
  <2>2. h \in Nat
    BY <2>1, HirbAssumption
  <2>3. oram = Store(b, NoBlobs, 0, ro)
    BY <2>1, IsStoreIs DEF Resting
  <2>. QED
    BY <2>1, <2>2, <2>3
<1>2. DOMAIN N = DOMAIN b \cup {NoId} /\ N[NoId] = root /\ \A id \in DOMAIN b : N[id] = b[id]
  BY <1>1 DEF Base, With
<1>3. Tree(N, h, Shape(rise, dict, dict, h, 0), {})
  BY DEF Resting, Whole
<1> HIDE DEF h, b, ro, N
<1>4. Spells(root, M, dict, h, 0) /\ kids \subseteq DOMAIN b
  <2> DEFINE z == 0  G == {}
  <2>1. z \in Nat /\ Tree(N, h, Shape(rise, dict, dict, h, z), G) /\ Spot(NoId, h) = <<h, z>> /\ NoId \in DOMAIN N
    BY <1>2, <1>3 DEF Spot
  <2> HIDE DEF z, G
  <2>2. Spells(N[NoId], Held(rise, dict, h, h, z), dict, h, z) /\ ToSet(N[NoId].kids) \subseteq DOMAIN N \cup G
    BY <1>1, <2>1, NodeIn, SMTT(30)
  <2>3. Shaped(Shape(rise, dict, dict, h, z), h)
    BY <1>1, ShapeShaped
  <2>4. \A e \in ToSet(N[NoId].kids) : e # NoId
    <3> DEFINE W == Shape(rise, dict, dict, h, z)
    <3>1. Tree(N, h, W, G) /\ Shaped(W, h)
      BY <2>1, <2>3
    <3> HIDE DEF W
    <3>. QED
      BY <1>1, <2>1, <3>1, KidOf
  <2>. QED
    BY <1>2, <2>2, <2>4 DEF z, G
<1>5. M \subseteq DOMAIN dict
  BY DEF Held
<1> HIDE DEF M, kids
<1>6. PICK g : Ends(g, rise, M, dict, h, b, ro, kids)
  BY <1>1, <1>4, <1>5, GrownClimbs DEF h, kids
<1> DEFINE c == With(g.oram.cache, g.id, g.old)  f == Over(c, b)  n == g.root
<1> HIDE DEF P
<1>7. PICK a : Climbed(g, M, P, a, dict, h, b, ro, kids)
  BY <1>6 DEF Ends, P
<1>8. Grown.root = n /\ Grown.oram = Store(b, c, 0, ro)
  <2>1. Grown.root = g.root /\ Grown.oram = SetBlob(g.oram, g.id, g.old)
    BY <1>6 DEF Ends
  <2>2. g.oram = Store(b, g.oram.cache, 0, ro)
    BY <1>7 DEF Climbed
  <2> DEFINE o == g.oram  ca == o.cache  id == g.id  old == g.old
  <2> HIDE DEF id, old, o
  <2>3. o = Store(b, ca, 0, ro)
    BY <2>2 DEF o
  <2> HIDE DEF ca
  <2>4. SetBlob(o, id, old) = Store(b, With(ca, id, old), 0, ro)
    BY <2>3, SetBlobIs
  <2>. QED
    BY <2>1, <2>4 DEF o, id, old, ca
<1>9. /\ DOMAIN c = {Place(h, k) : k \in {0} \cup P}
      /\ \A k \in {0} \cup P : Closed(c[Place(h, k)], M, P, dict, h, k, kids)
  <2> DEFINE e == c
  <2>1. e = With(g.oram.cache, g.id, g.old)
    OBVIOUS
  <2> HIDE DEF e
  <2>2. AllClosed(e, M, P, dict, h, kids)
    BY <1>1, <1>5, <1>7, <2>1, ClimbEnds
  <2>. QED
    BY <2>2 DEF e, AllClosed
<1>10. Spells(n, P, dict, h + 1, 0) /\ ToSet(n.kids) = {Place(h, k) : k \in {0} \cup P} /\ P \subseteq M
  BY <1>7 DEF Climbed
<1> HIDE DEF c, n
<1>11. oram' = Store(f, NoBlobs, 0, << >>) /\ root' = n
  <2>1. Finalize(Grown.oram) = Store(f, NoBlobs, 0, ro)
    <3> DEFINE z == 0
    <3>1. z = 0
      OBVIOUS
    <3> HIDE DEF z
    <3>2. Finalize(Store(b, c, z, ro)) = Store(Over(c, b), NoBlobs, 0, IF z = 0 THEN ro ELSE Append(ro, z))
      BY FinalizeIs
    <3>. QED
      BY <1>8, <3>1, <3>2
  <2> HIDE DEF f
  <2>. QED
    BY <1>8, <2>1, ForgetIs
<1>12. Base(oram', root') = With(f, NoId, n)
  BY <1>11, StoreFields DEF Base
<1>13. NoId \notin DOMAIN f
  <2>1. \A k \in {0} \cup P : Place(h, k) # NoId
    <3>1. ASSUME NEW k \in {0} \cup P PROVE Place(h, k) # NoId
      <4>1. k \in {0} \cup Labels
        BY <1>1, <1>5, <1>10 DEF IsMap
      <4>. QED
        BY <1>1, <4>1, PlaceFacts
    <3>. QED
      BY <3>1
  <2>2. NoId \notin DOMAIN c
    BY <1>9, <2>1
  <2>. QED
    BY <1>1, <2>2 DEF Over
<1>14. Wrote(oram', root', Base(oram', root'), 0)
  <2> HIDE DEF f
  <2>1. IsStore(oram') /\ oram'.cache = NoBlobs /\ oram'.reads = 0 /\ oram'.rounds = << >> /\ oram'.blobs = f
    BY <1>11 DEF Store, IsStore
  <2>. QED
    BY <1>13, <2>1, TwosGrow DEF Wrote
<1>15. Tree(With(f, NoId, n), H, Shape(rise, dict, dict, H, 0), {})
  <2> DEFINE T == With(f, NoId, n)  R == rise  d == dict
  <2>1. T = With(Over(c, b), NoId, n) /\ H = h + 1
    BY DEF h
  <2>2. M = Held(R, d, h, h, 0) /\ P = Risen(R, M, h)
    BY DEF M, P
  <2>3. R \in [Labels -> Nat] /\ IsMap(d) /\ Tree(N, h, Shape(R, d, d, h, 0), {})
    BY <1>1, <1>3
  <2>4. /\ \A k \in {0} \cup P : Closed(c[Place(h, k)], M, P, d, h, k, kids)
        /\ Spells(n, P, d, h + 1, 0)
    BY <1>9, <1>10
  <2> HIDE DEF T, R, d
  <2>5. Tree(T, H, Shape(R, d, d, H, 0), {})
    BY <1>1, <1>2, <1>4, <1>9, <1>10, <2>1, <2>2, <2>3, <2>4, TreeGrows
  <2>. QED
    BY <2>5 DEF T, R, d
<1>. QED
  BY <1>12, <1>14, <1>15

LEMMA SetKeeps ==
  ASSUME IInv, NEW l \in Labels, NEW v \in Values, Set(l, v)
  PROVE  Kept
<1>1. Typed /\ Resting
  BY DEF IInv, Set, Enter
<1>2. Enter("set", l, v, "place") /\ size' = size
  BY DEF Set
<1>3. height \in 0 .. MaxHeight
  BY <1>1 DEF Typed
<1>4. PICK h \in 0 .. MaxHeight : /\ height' = h /\ Wrote(oram', root', Base(oram', root'), 0)
                                 /\ Tree(Base(oram', root'), h, Shape(rise, dict, dict, h, 0), {})
  <2>1. CASE size = growAt
    <3>1. oram' = Forget(Finalize(Grown.oram)) /\ root' = Grown.root /\ height' = height + 1 /\ height < MaxHeight
      BY <2>1 DEF Set
    <3> DEFINE H == height + 1
    <3>2. H \in 0 .. MaxHeight
      BY <1>3, <3>1, HirbAssumption
    <3>3. H = height + 1
      OBVIOUS
    <3> HIDE DEF H
    <3>4. /\ Wrote(oram', root', Base(oram', root'), 0)
          /\ Tree(Base(oram', root'), H, Shape(rise, dict, dict, H, 0), {})
      BY <1>1, <3>1, <3>3, GrowsTo
    <3>. QED
      BY <3>1, <3>2, <3>3, <3>4
  <2>2. CASE size # growAt
    <3>1. oram' = Forget(Finalize(oram)) /\ UNCHANGED <<root, height>>
      BY <2>2 DEF Set
    <3>2. Tree(Base(oram, root), height, Shape(rise, dict, dict, height, 0), {})
      BY <1>1 DEF Resting, Whole
    <3>. QED
      BY <1>1, <1>3, <3>1, <3>2, Cleared
  <2>. QED
    BY <2>1, <2>2
<1>5. Typed' /\ Walking("set")' /\ pc' = "place" /\ call' = [op |-> "set", label |-> l, value |-> v]
  BY <1>1, <1>2, <1>4, Enters
<1>6. call'.value \in Values /\ (Rank(rise, Lab, height) <= level)'
  <2>1. rise' \in [Labels -> Nat] /\ height' \in Nat /\ Lab' \in Labels /\ level' = height'
    BY <1>2, <1>4, <1>5, HirbAssumption DEF Typed, Lab, Enter
  <2>2. Rank(rise', Lab', height') \in 0 .. height'
    BY <2>1, RankIn
  <2>. QED
    BY <1>5, <2>1, <2>2
<1>. QED
  BY <1>5, <1>6 DEF Kept, IInv, Returns, Placing

-----------------------------------------------------------------------------
\* The tree that __init__ builds.
Ranks(S, n, f) ==
    /\ n \in Nat
    /\ \A k \in S : f[k] \in 0 .. n - 1
    /\ \A k, m \in S : k < m => f[k] < f[m]
    /\ \A i \in 0 .. n - 1 : \E k \in S : f[k] = i

\* A number is counted by those below it.
LEMMA Ranked ==
  ASSUME NEW S \in SUBSET Nat, IsFiniteSet(S), NEW n, n = Cardinality(S),
         NEW f, f = [k \in S |-> Cardinality({j \in S : j < k})]
  PROVE  Ranks(S, n, f)
<1> DEFINE below(k) == {j \in S : j < k}
<1>1. n \in Nat
  BY FS_CardinalityType
<1>2. ASSUME NEW k \in S, NEW T \in SUBSET S, k \notin T
      PROVE  IsFiniteSet(T) /\ Cardinality(T) \in Nat /\ Cardinality(T) <= Cardinality(S \ {k})
  <2>1. T \in SUBSET (S \ {k})
    BY <1>2
  <2>2. IsFiniteSet(S \ {k})
    BY FS_RemoveElement
  <2>3. IsFiniteSet(T) /\ Cardinality(T) <= Cardinality(S \ {k})
    BY <2>1, <2>2, FS_Subset
  <2>. QED
    BY <2>3, FS_CardinalityType
<1>3. ASSUME NEW k \in S PROVE f[k] \in 0 .. n - 1
  <2> DEFINE T == below(k)
  <2>1. T \in SUBSET S /\ k \notin T /\ f[k] = Cardinality(T)
    OBVIOUS
  <2> HIDE DEF T
  <2>2. Cardinality(T) \in Nat /\ Cardinality(T) <= Cardinality(S \ {k})
    BY <1>2, <2>1
  <2>3. Cardinality(S \ {k}) = n - 1
    BY FS_RemoveElement
  <2>. QED
    BY <1>1, <2>1, <2>2, <2>3
<1>4. ASSUME NEW k \in S, NEW m \in S, k < m PROVE f[k] < f[m]
  <2> DEFINE A == below(k)  C == below(m)
  <2>1. k \in C /\ k \notin A /\ A \in SUBSET C /\ C \in SUBSET S /\ m \notin C /\ f[k] = Cardinality(A) /\ f[m] = Cardinality(C)
    <3>1. \A j \in S : j < k => j < m
      BY <1>4
    <3>2. ~(k < k) /\ ~(m < m)
      OBVIOUS
    <3>3. f[k] = Cardinality(A) /\ f[m] = Cardinality(C)
      OBVIOUS
    <3>. QED
      BY <1>4, <3>1, <3>2, <3>3
  <2> HIDE DEF A, C
  <2>2. IsFiniteSet(C) /\ Cardinality(C) \in Nat
    BY <1>2, <2>1
  <2>3. IsFiniteSet(A) /\ Cardinality(A) <= Cardinality(C) /\ (Cardinality(C) = Cardinality(A) => C = A)
    BY <2>1, <2>2, FS_Subset
  <2>4. Cardinality(A) \in Nat
    BY <2>3, FS_CardinalityType
  <2>. QED
    BY <2>1, <2>2, <2>3, <2>4
<1>5. ASSUME NEW i \in 0 .. n - 1 PROVE \E k \in S : f[k] = i
  <2> DEFINE R == 0 .. n - 1
  <2>1. IsFiniteSet(R) /\ Cardinality(R) = n
    <3>1. 0 \in Int /\ n - 1 \in Int
      BY <1>1
    <3>. QED
      BY <1>1, <3>1, FS_Interval, SMTT(30)
  <2>2. f \in [S -> R]
    BY <1>3
  <2>3. ASSUME NEW k \in S, NEW m \in S, f[k] = f[m] PROVE k = m
    <3>1. f[k] \in Nat
      BY <1>1, <1>3
    <3>2. ~(k < m) /\ ~(m < k)
      BY <1>4, <2>3, <3>1
    <3>. QED
      BY <3>2
  <2> HIDE DEF R
  <2>4. f \in Injection(S, R)
    BY <2>2, <2>3 DEF Injection, IsInjective
  <2>5. f \in Surjection(S, R)
    BY <2>1, <2>4, FS_Injection
  <2>6. i \in R
    BY DEF R
  <2>. QED
    BY <2>5, <2>6 DEF Surjection
<1>. QED
  BY <1>1, <1>3, <1>4, <1>5 DEF Ranks

LEMMA AscendingSpells ==
  ASSUME NEW S \in SUBSET Nat, IsFiniteSet(S)
  PROVE  /\ Ascending(S) \in Seq(S) /\ Increasing(Ascending(S)) /\ ToSet(Ascending(S)) = S
<1> DEFINE n == Cardinality(S)  f == [k \in S |-> Cardinality({j \in S : j < k})]  s == Ascending(S)
<1>1. /\ n \in Nat
      /\ \A k \in S : f[k] \in 0 .. n - 1
      /\ \A k, m \in S : k < m => f[k] < f[m]
      /\ \A i \in 0 .. n - 1 : \E k \in S : f[k] = i
  <2>1. n = Cardinality(S) /\ f = [k \in S |-> Cardinality({j \in S : j < k})]
    OBVIOUS
  <2> HIDE DEF n, f
  <2>2. Ranks(S, n, f)
    BY <2>1, Ranked
  <2>. QED
    BY <2>2 DEF Ranks
<1>2. /\ s = [i \in 1 .. n |-> CHOOSE k \in S : Cardinality({j \in S : j < k}) = i - 1]
      /\ \A k \in S : f[k] = Cardinality({j \in S : j < k})
  BY DEF Ascending
<1> HIDE DEF n, f, s
<1>3. ASSUME NEW i \in 1 .. n PROVE s[i] \in S /\ f[s[i]] = i - 1
  <2>1. i - 1 \in 0 .. n - 1
    BY <1>1
  <2>2. \E k \in S : Cardinality({j \in S : j < k}) = i - 1
    BY <1>1, <1>2, <2>1
  <2>3. s[i] = CHOOSE k \in S : Cardinality({j \in S : j < k}) = i - 1
    BY <1>2
  <2>4. s[i] \in S /\ Cardinality({j \in S : j < s[i]}) = i - 1
    BY <2>2, <2>3
  <2>. QED
    BY <1>2, <2>4
<1>4. s \in Seq(S) /\ Len(s) = n /\ DOMAIN s = 1 .. n
  <2>1. s \in [1 .. n -> S]
    BY <1>2, <1>3
  <2>2. s \in Seq(S)
    BY <1>1, <2>1
  <2>. QED
    BY <1>1, <2>1, <2>2
<1>5. ASSUME NEW i \in 1 .. n, NEW j \in 1 .. n, i < j PROVE s[i] < s[j]
  <2>1. s[i] \in S /\ s[j] \in S /\ f[s[i]] = i - 1 /\ f[s[j]] = j - 1
    BY <1>3
  <2>2. s[i] # s[j]
    BY <1>1, <1>5, <2>1
  <2>3. ~(s[j] < s[i])
    <3>1. s[j] < s[i] => j - 1 < i - 1
      BY <1>1, <2>1
    <3>. QED
      BY <1>1, <1>5, <3>1
  <2>4. s[i] \in Nat /\ s[j] \in Nat
    BY <2>1
  <2>. QED
    BY <2>2, <2>3, <2>4
<1>6. ASSUME NEW k \in S PROVE \E i \in 1 .. n : s[i] = k
  <2> DEFINE i == f[k] + 1
  <2>1. i \in 1 .. n /\ i - 1 = f[k]
    BY <1>1
  <2> HIDE DEF i
  <2>2. s[i] \in S /\ f[s[i]] = f[k]
    BY <1>3, <2>1
  <2>3. f[k] \in Nat
    BY <1>1
  <2>4. ~(s[i] < k) /\ ~(k < s[i])
    <3> DEFINE m == s[i]
    <3>1. (m < k => f[m] < f[k]) /\ (k < m => f[k] < f[m])
      BY <1>1, <2>2
    <3>. QED
      BY <2>2, <2>3, <3>1
  <2>5. s[i] = k
    <3>1. s[i] \in Nat /\ k \in Nat
      BY <2>2
    <3>. QED
      BY <2>4, <3>1
  <2>. QED
    BY <2>1, <2>5
<1>7. Increasing(s)
  BY <1>4, <1>5 DEF Increasing
<1>8. ToSet(s) = S
  <2>1. \A x : x \in ToSet(s) <=> \E i \in 1 .. n : s[i] = x
    BY <1>4 DEF ToSet
  <2>. QED
    BY <1>3, <1>6, <2>1
<1>. QED
  BY <1>4, <1>7, <1>8 DEF s

LEMMA MembersAre ==
  ASSUME rise \in [Labels -> Nat], NEW d, IsMap(d), NEW h \in Nat, NEW l, NEW left
  PROVE  Lefts(d, h, l) = Tops(rise, d, h, l) /\ Members(d, h, l, left) = Held(rise, d, h, l, left)
<1>1. \A k \in DOMAIN d : HeightOf(k, h) = Rank(rise, k, h)
  BY HeightIsRank DEF IsMap
<1>2. Lefts(d, h, l) = Tops(rise, d, h, l)
  BY <1>1 DEF Lefts, Tops
<1>. QED
  BY <1>1, <1>2 DEF Members, Held

Built(n, M, d, l, left) ==
    /\ Spells(n, M, d, l, left)
    /\ \A c \in ToSet(n.kids) : c = Place(l - 1, c.left) /\ c.left \in {left} \cup M /\ l # 0

LEMMA NodeAtSpells ==
  ASSUME rise \in [Labels -> Nat], NEW d, IsDict(d), NEW h \in 0 .. MaxHeight, NEW l \in 0 .. h, NEW left \in {0} \cup Labels,
         NEW M, M = Held(rise, d, h, l, left), NEW n, n = NodeAt(d, h, l, left)
  PROVE  Built(n, M, d, l, left)
<1> DEFINE keys == Ascending(M)  L == Len(keys)  vals == [i \in DOMAIN keys |-> d[keys[i]]]
           at(i) == Place(l - 1, IF i = 0 THEN left ELSE keys[i])
           some == [i \in 0 .. L |-> at(i)]
           kids == IF l = 0 THEN << >> ELSE [i \in 1 .. L + 1 |-> some[i - 1]]
<1>1. h \in Nat /\ l \in Nat /\ MaxHeight \in Nat /\ Labels \subseteq Nat
  BY HirbAssumption
<1>2. n = [keys |-> keys, vals |-> vals, kids |-> kids]
  <2>1. Members(d, h, l, left) = M
    <3>1. IsMap(d)
      BY DEF IsDict, IsMap
    <3>. QED
      BY <1>1, <3>1, MembersAre
  <2>. QED
    BY <2>1 DEF NodeAt, Node
<1>3. M \subseteq Labels /\ M \subseteq DOMAIN d /\ IsFiniteSet(M) /\ M \subseteq Nat
  <2>1. M \subseteq DOMAIN d
    BY DEF Held
  <2>2. IsFiniteSet(M)
    BY <2>1, FS_Subset DEF IsDict
  <2>. QED
    BY <1>1, <2>1, <2>2 DEF IsDict
<1>4. keys \in Seq(M) /\ Increasing(keys) /\ ToSet(keys) = M
  BY <1>3, AscendingSpells
<1> HIDE DEF keys
<1>5. /\ L \in Nat /\ DOMAIN keys = 1 .. L /\ keys \in Seq(Labels)
      /\ \A i \in 1 .. L : keys[i] \in M /\ keys[i] \in Labels /\ keys[i] \in DOMAIN d
      /\ \A m \in M : \E i \in 1 .. L : m = keys[i]
  <2>1. L \in Nat /\ DOMAIN keys = 1 .. L /\ \A i \in 1 .. L : keys[i] \in M
    BY <1>4, LenProperties, ElementOfSeq
  <2>2. keys = [i \in 1 .. L |-> keys[i]]
    BY <1>4, <2>1
  <2>3. keys \in [1 .. L -> Labels]
    BY <1>3, <2>1, <2>2
  <2>4. keys \in Seq(Labels)
    BY <2>1, <2>3
  <2>5. \A m \in M : \E i \in 1 .. L : m = keys[i]
    BY <1>4, <2>1 DEF ToSet
  <2>. QED
    BY <1>3, <2>1, <2>4, <2>5
<1>6. vals \in Seq(Values) /\ Len(vals) = L /\ \A i \in 1 .. L : vals[i] = d[keys[i]]
  <2>1. vals \in [1 .. L -> Values]
    BY <1>5, SMTT(30) DEF IsDict
  <2> HIDE DEF L
  <2>2. vals \in Seq(Values)
    BY <1>5, <2>1
  <2>3. DOMAIN vals = 1 .. L
    BY <1>5
  <2>4. Len(vals) = L
    BY <1>5, <2>2, <2>3, LenProperties
  <2>. QED
    BY <1>5, <2>2, <2>4
<1> HIDE DEF vals, L
<1>7. CASE l = 0
  <2>1. kids = << >> /\ kids \in Seq(Ids) /\ ToSet(kids) = {}
    BY <1>7 DEF ToSet
  <2> HIDE DEF kids
  <2>2. Spells([keys |-> keys, vals |-> vals, kids |-> kids], M, d, l, left)
    BY <1>4, <1>5, <1>6, <1>7, <2>1, SpellsMade DEF Increasing, L
  <2>. QED
    BY <1>2, <2>1, <2>2 DEF Built
<1>8. CASE l # 0
  <2>1. ASSUME NEW i \in 1 .. L + 1 PROVE kids[i] = Place(l - 1, IF i = 1 THEN left ELSE keys[i - 1])
    <3>1. i - 1 \in 0 .. L /\ (i - 1 = 0 <=> i = 1)
      BY <1>5
    <3>. QED
      BY <1>8, <3>1
  <2>2. DOMAIN kids = 1 .. L + 1 /\ kids = [i \in 1 .. L + 1 |-> kids[i]]
    BY <1>8
  <2> HIDE DEF kids, at, some
  <2>3. ASSUME NEW i \in 1 .. L + 1, NEW k, k = IF i = 1 THEN left ELSE keys[i - 1]
        PROVE  kids[i] = Place(l - 1, k) /\ kids[i] \in Ids /\ IsAt(kids[i], l - 1, k) /\ kids[i].left = k /\ k \in {left} \cup M
    <3>1. k \in {left} \cup M
      <4>1. i # 1 => i - 1 \in 1 .. L
        BY <1>5
      <4>. QED
        BY <1>5, <2>3, <4>1
    <3>2. k \in {0} \cup Labels
      BY <1>3, <3>1
    <3> DEFINE b == l - 1
    <3>3. b \in 0 .. MaxHeight
      BY <1>1, <1>8
    <3> HIDE DEF b
    <3>4. Place(b, k) \in Ids /\ IsAt(Place(b, k), b, k) /\ Place(b, k).left = k
      BY <3>2, <3>3, PlaceFacts
    <3>. QED
      BY <2>1, <2>3, <3>1, <3>4 DEF b
  <2>4. kids \in Seq(Ids) /\ Len(kids) = L + 1
    <3>1. kids \in [1 .. L + 1 -> Ids]
      BY <2>2, <2>3
    <3>2. L + 1 \in Nat
      BY <1>5
    <3>3. kids \in Seq(Ids)
      BY <3>1, <3>2
    <3>. QED
      BY <2>2, <3>2, <3>3, LenProperties
  <2>5. \A i \in 1 .. L + 1 : IsAt(kids[i], l - 1, IF i = 1 THEN left ELSE keys[i - 1])
    BY <2>3
  <2>6. Spells([keys |-> keys, vals |-> vals, kids |-> kids], M, d, l, left)
    BY <1>4, <1>5, <1>6, <1>8, <2>4, <2>5, SpellsMade DEF Increasing, L
  <2>7. ASSUME NEW c \in ToSet(kids) PROVE c = Place(l - 1, c.left) /\ c.left \in {left} \cup M
    <3>1. PICK i \in 1 .. L + 1 : c = kids[i]
      BY <2>2 DEF ToSet
    <3>. QED
      BY <2>3, <3>1
  <2>. QED
    BY <1>2, <1>8, <2>6, <2>7 DEF Built
<1>. QED
  BY <1>7, <1>8

\* The blobs of __init__ and its root are the tree of the initial data.
LEMMA TreeBuilt ==
  ASSUME rise \in [Labels -> Nat], NEW d, IsDict(d), NEW h \in 0 .. MaxHeight,
         NEW b, b = [id \in Places(d, h) |-> NodeAt(d, h, id.level, id.left)],
         NEW n, n = NodeAt(d, h, h, 0), NEW T, T = With(b, NoId, n)
  PROVE  Tree(T, h, Shape(rise, d, d, h, 0), {}) /\ NoId \notin DOMAIN b /\ IsNodeRec(n)
<1> DEFINE tops(l) == Tops(rise, d, h, l)
<1>1. h \in Nat /\ MaxHeight \in Nat /\ IsMap(d) /\ 0 \in {0} \cup Labels /\ h \in 0 .. h /\ Labels \subseteq Nat
  BY HirbAssumption DEF IsMap, IsDict
<1>2. \A l : Lefts(d, h, l) = tops(l)
  BY <1>1, MembersAre
<1>3. ASSUME NEW l \in 0 .. h PROVE tops(l) \subseteq {0} \cup Labels /\ tops(l) \subseteq Nat
  BY <1>1, TopsFacts
<1>4. ASSUME NEW id \in DOMAIN b
      PROVE  /\ id.level \in 0 .. h - 1 /\ id.left \in tops(id.level) /\ id = Place(id.level, id.left)
             /\ id \in Ids /\ id # NoId
  <2>1. PICK l \in 0 .. h - 1 : id \in {Place(l, left) : left \in Lefts(d, h, l)}
    BY DEF Places
  <2>2. PICK k \in tops(l) : id = Place(l, k)
    BY <1>2, <2>1
  <2>3. k \in {0} \cup Labels /\ l \in 0 .. MaxHeight
    BY <1>1, <1>3
  <2>4. Place(l, k) \in Ids /\ Place(l, k) # NoId /\ Place(l, k).level = l /\ Place(l, k).left = k
    BY <2>3, PlaceFacts
  <2>. QED
    BY <2>2, <2>4
<1>5. ASSUME NEW l \in 0 .. h - 1, NEW k \in tops(l) PROVE Place(l, k) \in DOMAIN b
  BY <1>2 DEF Places
<1>6. NoId \notin DOMAIN b /\ DOMAIN T = DOMAIN b \cup {NoId} /\ T[NoId] = n
      /\ \A id \in DOMAIN b : T[id] = NodeAt(d, h, id.level, id.left)
  <2>1. NoId \notin DOMAIN b
    BY <1>4
  <2>. QED
    BY <2>1 DEF With
<1> HIDE DEF tops
<1>7. ASSUME NEW l \in 0 .. h, NEW k \in tops(l), NEW m, m = NodeAt(d, h, l, k)
      PROVE  Spells(m, Held(rise, d, h, l, k), d, l, k) /\ ToSet(m.kids) \subseteq DOMAIN b
  <2> DEFINE M == Held(rise, d, h, l, k)
  <2>1. k \in {0} \cup Labels /\ M = Held(rise, d, h, l, k)
    BY <1>3
  <2> HIDE DEF M
  <2>2. Built(m, M, d, l, k)
    BY <1>7, <2>1, NodeAtSpells
  <2>3. ASSUME NEW c \in ToSet(m.kids) PROVE c \in DOMAIN b
    <3>1. c = Place(l - 1, c.left) /\ c.left \in {k} \cup M /\ l # 0
      BY <2>2 DEF Built
    <3>2. l - 1 \in 0 .. h - 1 /\ l \in Nat /\ l - 1 \in 0 .. h
      BY <1>1, <3>1
    <3>3. c.left \in tops(l - 1)
      <4>1. ASSUME NEW j \in DOMAIN d PROVE (Rank(rise, j, h) >= l => j \in tops(l - 1)) /\ Rank(rise, j, h) \in 0 .. h
        <5>1. Rank(rise, j, h) \in 0 .. h
          BY <1>1, RankIn DEF IsMap
        <5>2. Rank(rise, j, h) >= l => Rank(rise, j, h) > l - 1
          BY <1>1, <3>2, <5>1
        <5>. QED
          BY <5>1, <5>2 DEF tops, Tops
      <4>2. \A j \in M : j \in DOMAIN d /\ Rank(rise, j, h) = l
        BY <2>1 DEF Held
      <4>3. k = 0 \/ (k \in DOMAIN d /\ Rank(rise, k, h) > l)
        BY DEF tops, Tops
      <4>4. 0 \in tops(l - 1)
        BY DEF tops, Tops
      <4>5. l >= l /\ \A j \in DOMAIN d : Rank(rise, j, h) > l => Rank(rise, j, h) >= l
        BY <3>2, <4>1
      <4>6. \A j \in M : j \in tops(l - 1)
        BY <4>1, <4>2, <4>5
      <4>. QED
        BY <3>1, <4>1, <4>3, <4>4, <4>5, <4>6
    <3>. QED
      BY <1>5, <3>1, <3>2, <3>3
  <2>. QED
    BY <2>1, <2>2, <2>3 DEF Built
<1>8. 0 \in tops(h) /\ tops(h) = {0}
  <2>1. h >= h
    BY <1>1
  <2>2. Tops(rise, d, h, h) = {0}
    BY <1>1, <2>1, TopsFacts
  <2>. QED
    BY <2>2 DEF tops
<1>9. Spells(n, Held(rise, d, h, h, 0), d, h, 0) /\ ToSet(n.kids) \subseteq DOMAIN b
  BY <1>1, <1>7, <1>8
<1>10. Stands(T, rise, d, h, NoId, h, 0)
  <2>1. Spot(NoId, h) = <<h, 0>>
    BY DEF Spot
  <2>. QED
    BY <1>1, <1>6, <1>8, <1>9, <2>1 DEF Stands, tops
<1>11. ASSUME NEW id \in DOMAIN b PROVE Stands(T, rise, d, h, id, id.level, id.left)
  <2> DEFINE l == id.level  k == id.left  m == T[id]
  <2>1. l \in 0 .. h - 1 /\ k \in tops(l) /\ id \in Ids /\ id # NoId /\ m = NodeAt(d, h, l, k)
    BY <1>4, <1>6
  <2>2. l \in 0 .. h /\ l < h
    BY <1>1, <2>1
  <2> HIDE DEF l, k, m
  <2>3. Spells(m, Held(rise, d, h, l, k), d, l, k) /\ ToSet(m.kids) \subseteq DOMAIN b
    BY <1>7, <2>1, <2>2
  <2>4. Spot(id, h) = <<l, k>>
    BY <2>1 DEF Spot, l, k
  <2>. QED
    BY <1>6, <2>1, <2>2, <2>3, <2>4 DEF Stands, tops, l, k, m
<1>12. ASSUME NEW id \in DOMAIN T PROVE \E l, k : Stands(T, rise, d, h, id, l, k)
  <2>1. CASE id = NoId
    BY <1>10, <2>1
  <2>2. CASE id \in DOMAIN b
    BY <1>11, <2>2
  <2>. QED
    BY <1>6, <2>1, <2>2
<1>13. ASSUME NEW l \in 0 .. h, NEW k \in Tops(rise, d, h, l) PROVE \E id \in DOMAIN T : Spot(id, h) = <<l, k>>
  <2>1. CASE l = h
    BY <1>6, <1>8, <2>1 DEF Spot, tops
  <2>2. CASE l # h
    <3>1. l \in 0 .. h - 1 /\ k \in tops(l)
      BY <1>1, <2>2 DEF tops
    <3>2. Place(l, k) \in DOMAIN b /\ Place(l, k) \in DOMAIN T
      BY <1>5, <1>6, <3>1
    <3>3. Spot(Place(l, k), h) = <<l, k>>
      BY <1>4, <3>2 DEF Spot, Place
    <3>. QED
      BY <3>2, <3>3
  <2>. QED
    BY <2>1, <2>2
<1>14. ASSUME NEW id \in DOMAIN T, NEW other \in DOMAIN T, Spot(id, h) = Spot(other, h) PROVE id = other
  <2>1. CASE id = NoId /\ other = NoId
    BY <2>1
  <2>2. \A e \in DOMAIN b : Spot(e, h) = <<e.level, e.left>> /\ e.level # h /\ e = Place(e.level, e.left)
    <3>1. ASSUME NEW e \in DOMAIN b PROVE Spot(e, h) = <<e.level, e.left>> /\ e.level # h /\ e = Place(e.level, e.left)
      <4>1. e.level \in 0 .. h - 1 /\ e # NoId /\ e = Place(e.level, e.left)
        BY <1>4
      <4>2. e.level # h
        BY <1>1, <4>1
      <4>. QED
        BY <4>1, <4>2 DEF Spot
    <3>. QED
      BY <3>1
  <2>3. CASE id \in DOMAIN b /\ other \in DOMAIN b
    BY <1>14, <2>2, <2>3
  <2>4. CASE (id = NoId /\ other \in DOMAIN b) \/ (other = NoId /\ id \in DOMAIN b)
    <3>1. Spot(NoId, h)[1] = h
      BY DEF Spot
    <3>. QED
      BY <1>14, <2>2, <2>4, <3>1
  <2>. QED
    BY <1>6, <2>1, <2>3, <2>4
<1>15. NoId \in DOMAIN T
  BY <1>6
<1>16. Tree(T, h, Shape(rise, d, d, h, 0), {})
  <2> DEFINE r == rise
  <2>1. r \in [Labels -> Nat] /\ Upright(T, r, d, h)
    BY <1>12, <1>13, <1>14 DEF Upright
  <2> HIDE DEF r
  <2>2. Tree(T, h, Shape(r, d, d, h, 0), {})
    BY <1>1, <1>15, <2>1, StandsTree
  <2>. QED
    BY <2>2 DEF r
<1>. QED
  BY <1>6, <1>9, <1>16, IsNodeSpelt

LEMMA InitHolds ==
  ASSUME Init
  PROVE  IInv
<1>1. PICK d \in [InitialLabels -> Values], h \in InitialHeights : Construct(d, h)
  BY DEF Init
<1> DEFINE b == [id \in Places(d, h) |-> NodeAt(d, h, id.level, id.left)]  n == NodeAt(d, h, h, 0)
<1>2. /\ root = n /\ oram = [blobs |-> b, cache |-> NoBlobs, reads |-> 0, rounds |-> << >>] /\ height = h /\ size = 0 /\ dict = d
  BY <1>1 DEF Construct, NewStore
<1>3. rise \in [Labels -> Nat]
  <2>1. rise \in [Labels -> 0 .. MaxHeight] /\ 0 .. MaxHeight \subseteq Nat
    BY HirbAssumption DEF Init, Rises
  <2>. QED
    BY <2>1
<1>4. h \in 0 .. MaxHeight /\ h \in Nat /\ IsDict(d) /\ DOMAIN d = InitialLabels
  <2>1. h \in 0 .. MaxHeight /\ MaxHeight \in Nat
    BY HirbAssumption
  <2>2. IsDict(d) /\ DOMAIN d = InitialLabels
    BY HirbAssumption DEF IsDict
  <2>. QED
    BY <2>1, <2>2
<1> HIDE DEF b, n
<1> DEFINE T == With(b, NoId, n)
<1>5. Tree(T, h, Shape(rise, d, d, h, 0), {}) /\ NoId \notin DOMAIN b /\ IsNodeRec(n)
  <2>1. b = [id \in Places(d, h) |-> NodeAt(d, h, id.level, id.left)] /\ n = NodeAt(d, h, h, 0) /\ T = With(b, NoId, n)
    BY DEF b, n
  <2> HIDE DEF T
  <2>. QED
    BY <1>3, <1>4, <2>1, TreeBuilt
<1>6. /\ oram.blobs = b /\ oram.cache = NoBlobs /\ oram.reads = 0 /\ IsStore(oram) /\ DOMAIN NoBlobs = {}
      /\ Base(oram, root) = T
  BY <1>2 DEF IsStore, Base, NoBlobs
<1> HIDE DEF T
<1>7. Sized(0)
  <2>1. Cardinality(DOMAIN d) \in Nat /\ Cardinality(InitialLabels) = Cardinality(DOMAIN d)
    BY <1>4, FS_CardinalityType DEF IsDict
  <2>. QED
    BY <1>2, <2>1 DEF Sized
<1>8. Resting
  BY <1>2, <1>5, <1>6, <1>7 DEF Resting, Whole, Init, Idle
<1>9. Typed
  <2>1. level \in 0 .. height /\ ref = NoId /\ sibRef = NoId
    BY <1>2, <1>4 DEF Init, Idle
  <2>. QED
    BY <1>2, <1>3, <1>4, <1>5, <1>6, <2>1 DEF Typed
<1>. QED
  BY <1>8, <1>9 DEF IInv, Init, Idle

LEMMA StutterKeeps ==
  ASSUME IInv, UNCHANGED vars
  PROVE  Kept
<1>1. /\ oram' = oram /\ root' = root /\ height' = height /\ size' = size /\ growAt' = growAt /\ rise' = rise
      /\ call' = call /\ pc' = pc /\ node' = node /\ ref' = ref /\ level' = level /\ ind' = ind /\ sib' = sib
      /\ sibRef' = sibRef /\ answer' = answer /\ dict' = dict
  BY DEF vars
<1>2. Typed' = Typed
  BY <1>1 DEF Typed
<1>3. Resting' = Resting
  BY <1>1 DEF Resting, Sized, Whole
<1>4. OnPath' = OnPath
  BY <1>1 DEF OnPath, Lab
<1>5. ASSUME NEW op PROVE Walking(op)' = Walking(op)
  BY <1>1, <1>4 DEF Walking, Sized, Whole, Lab
<1>6. Placing' = Placing
  BY <1>1, <1>5 DEF Placing, Lab
<1>7. Splitting' = Splitting
  BY <1>1, <1>4 DEF Splitting, Sized, Lab, SplitNodes, SplitNode, SplitSib, Step, Onward, Kid
<1>8. Merging' = Merging
  BY <1>1, <1>4 DEF Merging, Sized, Lab, MergeNode, Orphan, Onward, Kid
<1>9. IInv'
  BY <1>1, <1>2, <1>3, <1>5, <1>6, <1>7, <1>8 DEF IInv, Lab
<1>. QED
  BY <1>1, <1>9 DEF Kept, Returns

\* Every step of every call.
LEMMA StepKeeps ==
  ASSUME IInv, [Next]_vars, FailedDeletesAt \subseteq {0}
  PROVE  Kept
<1>1. ASSUME NEW l \in Labels, Get(l) PROVE Kept
  BY <1>1, GetKeeps
<1>2. ASSUME NEW l \in Labels, Del(l) PROVE Kept
  BY <1>2, DelKeeps
<1>3. ASSUME NEW l \in Labels, NEW v \in Values, Set(l, v) PROVE Kept
  BY <1>3, SetKeeps
<1>4. CASE LookupHit
  BY <1>4, LookupHitKeeps
<1>5. CASE LookupMiss
  BY <1>5, LookupMissKeeps
<1>6. CASE LookupDown
  BY <1>6, LookupDownKeeps
<1>7. CASE SetDown
  BY <1>7, SetDownKeeps
<1>8. CASE SetUpdate
  BY <1>8, SetUpdateKeeps
<1>9. CASE SetInsert
  BY <1>9, SetInsertKeeps
<1>10. CASE SetSplit
  BY <1>10, SetSplitKeeps
<1>11. CASE SetDone
  BY <1>11, SetDoneKeeps
<1>12. CASE DelHit
  BY <1>12, DelHitKeeps
<1>13. CASE DelMiss
  BY <1>13, DelMissKeeps
<1>14. CASE DelDown
  BY <1>14, DelDownKeeps
<1>15. CASE DelMerge
  BY <1>15, DelMergeKeeps
<1>16. CASE DelDone
  BY <1>16, DelDoneKeeps
<1>17. CASE UNCHANGED vars
  BY <1>17, StutterKeeps
<1>. QED
  BY <1>1, <1>2, <1>3, <1>4, <1>5, <1>6, <1>7, <1>8, <1>9, <1>10, <1>11, <1>12, <1>13, <1>14, <1>15, <1>16, <1>17 DEF Next

-----------------------------------------------------------------------------
\* What the properties say, state by state.
\* The blobs of the store are nodes of a tree, which the node in hand and its
\* sibling may belong to as well.
LEMMA BlobsAreNodes ==
  ASSUME IInv, NEW id \in DOMAIN oram.blobs
  PROVE  id \in Ids /\ IsNodeRec(oram.blobs[id])
<1> DEFINE N == Base(oram, root)
<1>1. /\ Typed /\ id \notin {NoId, ref, sibRef} /\ id \in DOMAIN N /\ N[id] = oram.blobs[id]
  BY DEF IInv, Typed, Base, With
<1> HIDE DEF N
<1>2. ASSUME NEW T, NEW h, NEW W, NEW gap, Tree(T, h, W, gap), id \in DOMAIN T, T[id] = N[id]
      PROVE  id \in Ids /\ IsNodeRec(oram.blobs[id])
  <2>1. id \in Ids /\ Fits(T[id], W, Spot(id, h))
    BY <1>1, <1>2 DEF Tree
  <2> DEFINE n == T[id]  p == Spot(id, h)  M == DOMAIN W[p]  d == W[p]  l == p[1]  left == p[2]
  <2>2. Spells(n, M, d, l, left)
    BY <2>1 DEF Fits
  <2> HIDE DEF n, M, d, l, left
  <2>3. IsNodeRec(n)
    BY <2>2, IsNodeSpelt
  <2>. QED
    BY <1>1, <1>2, <2>1, <2>3 DEF n
<1>3. ASSUME NEW n PROVE id \in DOMAIN With(N, ref, n) /\ With(N, ref, n)[id] = N[id]
  BY <1>1 DEF With
<1>4. CASE Resting
  BY <1>1, <1>2, <1>4 DEF Resting, N
<1>5. ASSUME NEW op, Walking(op) PROVE id \in Ids /\ IsNodeRec(oram.blobs[id])
  BY <1>2, <1>3, <1>5 DEF Walking, N
<1>6. CASE Splitting
  <2> DEFINE F == With(N, ref, SplitNode)  T == SplitNodes
  <2>1. id \in DOMAIN F /\ F[id] = N[id]
    BY <1>3
  <2>2. T = IF sibRef = NoId THEN F ELSE With(F, sibRef, SplitSib)
    BY DEF SplitNodes, N
  <2> HIDE DEF F
  <2>3. id \in DOMAIN T /\ T[id] = N[id]
    BY <1>1, <2>1, <2>2 DEF With
  <2>. QED
    BY <1>2, <1>6, <2>3 DEF Splitting
<1>7. CASE Merging
  BY <1>2, <1>3, <1>7 DEF Merging, N
<1>. QED
  BY <1>4, <1>5, <1>6, <1>7 DEF IInv, Placing

\* The node in hand and its sibling.
LEMMA InHand ==
  ASSUME IInv
  PROVE  IsNodeRec(node) /\ IsNodeRec(sib)
<1>1. CASE Resting
  BY <1>1, LeafIsNode DEF Resting
<1>2. ASSUME NEW op, Walking(op) PROVE IsNodeRec(node) /\ IsNodeRec(sib)
  <2>1. PICK k : AtNode(k)
    BY <1>2, WalkAt DEF IInv
  <2>2. Spells(node, Held(rise, dict, height, level, k), dict, level, k)
    BY <2>1 DEF AtNode
  <2>. QED
    BY <1>2, <2>2, IsNodeSpelt, LeafIsNode DEF Walking
<1>. QED
  BY <1>1, <1>2 DEF IInv, Placing, Splitting, Merging

LEMMA RecIsNode ==
  ASSUME NEW n, IsNodeRec(n)
  PROVE  IsNode(n)
<1>1. /\ n \in NodeRecs /\ Increasing(n.keys) /\ Len(n.vals) = Len(n.keys)
      /\ n.keys \in Seq(Labels) /\ n.vals \in Seq(Values) /\ n.kids \in Seq(Ids)
  BY DEF IsNodeRec, NodeRecs
<1>2. DOMAIN n = {"keys", "vals", "kids"}
  BY <1>1 DEF NodeRecs
<1>3. DOMAIN n.keys = 1 .. Len(n.keys) /\ DOMAIN n.vals = 1 .. Len(n.keys)
  BY <1>1
<1>4. ASSUME NEW i \in DOMAIN n.keys PROVE n.keys[i] \in Labels /\ n.vals[i] \in Values
  BY <1>1, <1>3, ElementOfSeq
<1>5. ASSUME NEW i \in DOMAIN n.kids PROVE n.kids[i] \in Idents
  <2>1. n.kids[i] \in Ids
    BY <1>1
  <2>. QED
    BY <2>1 DEF Ids, Idents
<1>6. \A i, j \in DOMAIN n.keys : i < j => n.keys[i] < n.keys[j]
  BY <1>1, <1>3 DEF Increasing
<1>. QED
  BY <1>1, <1>2, <1>4, <1>5, <1>6 DEF IsNode

LEMMA IInvTypeOK ==
  ASSUME IInv
  PROVE  TypeOK
<1>1. IsNode(root) /\ IsNode(node) /\ IsNode(sib)
  BY InHand, RecIsNode DEF IInv, Typed
<1>2. ASSUME NEW id \in DOMAIN oram.blobs PROVE id \in Idents /\ IsNode(oram.blobs[id])
  <2>1. id \in Ids /\ IsNodeRec(oram.blobs[id])
    BY BlobsAreNodes
  <2>. QED
    BY <2>1, RecIsNode DEF Ids, Idents
<1>3. ref \in Idents /\ sibRef \in Idents /\ DOMAIN oram.cache \subseteq Idents
  BY DEF IInv, Typed, Ids, Idents
<1>4. height \in 0 .. MaxHeight /\ level \in 0 .. MaxHeight
  BY HirbAssumption DEF IInv, Typed
<1>5. oram.reads \in Nat /\ size \in Int
  BY DEF IInv, Resting, Walking, Placing, Splitting, Merging, OnPath, Sized
<1>6. pc \in {"idle", "lookup", "place", "split", "seek", "merge"} /\ ((pc = "idle") = (call = Null))
  <2> DEFINE Calls == [op : {"get", "set", "del"}, label : Labels, value : Values \cup {Null}]
  <2>1. Null \notin Calls
    BY HirbAssumption
  <2>2. ASSUME NEW op \in {"get", "set", "del"}, Walking(op) PROVE call \in Calls
    <3>1. call \in [op : {op}, label : Labels, value : Values \cup {Null}]
      BY <2>2 DEF Walking
    <3>. QED
      BY <3>1
  <2>3. Splitting \/ Merging => call \in Calls
    BY DEF Splitting, Merging
  <2> HIDE DEF Calls
  <2>4. Resting => call = Null
    BY DEF Resting
  <2>5. Placing => call \in Calls
    BY <2>2 DEF Placing
  <2>6. \/ pc = "idle" /\ call = Null
        \/ pc \in {"lookup", "place", "split", "seek", "merge"} /\ call \in Calls
    BY <2>2, <2>3, <2>4, <2>5 DEF IInv
  <2>. QED
    BY <2>1, <2>6
<1>. QED
  BY <1>1, <1>2, <1>3, <1>4, <1>5, <1>6 DEF TypeOK

LEMMA IInvHistory ==
  ASSUME IInv
  PROVE  HistoryIndependent
<1> SUFFICES ASSUME pc = "idle" PROVE
        LET held == Over(oram.cache, oram.blobs)
        IN  /\ Unnamed(root) = NodeAt(dict, height, height, 0)
            /\ {PlaceOf(id) : id \in DOMAIN held} = Places(dict, height)
            /\ \A id, other \in DOMAIN held : PlaceOf(id) = PlaceOf(other) => id = other
            /\ \A id \in DOMAIN held :
                  Unnamed(held[id]) = NodeAt(dict, height, id.level, id.left)
            /\ \A n \in {root} \cup Range(held) : ToSet(n.kids) \subseteq DOMAIN held
  BY DEF HistoryIndependent
<1> DEFINE held == Over(oram.cache, oram.blobs)  b == oram.blobs  N == Base(oram, root)  h == height  d == dict
           W == Shape(rise, d, d, h, 0)
<1>1. /\ Typed /\ Resting /\ rise \in [Labels -> Nat] /\ IsMap(d) /\ h \in Nat /\ h \in 0 .. MaxHeight /\ NoId \notin DOMAIN b
  <2>1. Typed /\ Resting
    BY DEF IInv
  <2>. QED
    BY <2>1, HirbAssumption DEF Typed, IsDict, IsMap
<1>2. DOMAIN held = DOMAIN b /\ \A id \in DOMAIN b : held[id] = b[id]
  BY <1>1 DEF Resting, Over, NoBlobs
<1>3. DOMAIN N = DOMAIN b \cup {NoId} /\ N[NoId] = root /\ \A id \in DOMAIN b : N[id] = b[id]
  BY <1>1 DEF Base, With
<1>4. Tree(N, h, W, {}) /\ Shaped(W, h)
  BY <1>1, ShapeShaped DEF Resting, Whole
<1> HIDE DEF held, b, N, h, d, W
<1>5. ASSUME NEW id \in DOMAIN b
      PROVE  /\ id \in Ids /\ id # NoId /\ id.level \in 0 .. h - 1 /\ Spot(id, h) = <<id.level, id.left>>
             /\ PlaceOf(id) = Place(id.level, id.left)
  <2>1. id \in Ids /\ id # NoId /\ id.level < h
    BY <1>1, <1>3, <1>4 DEF Tree
  <2>2. id.level \in Nat /\ id = [level |-> id.level, left |-> id.left, turn |-> id.turn]
    BY <2>1, HirbAssumption DEF Ids
  <2>3. PlaceOf(id) = Place(id.level, id.left)
    BY <2>1 DEF PlaceOf, Place, Ids
  <2>. QED
    BY <1>1, <2>1, <2>2, <2>3 DEF Spot
<1>6. ASSUME NEW id \in DOMAIN N, NEW l \in Nat, NEW k, Spot(id, h) = <<l, k>>
      PROVE  k \in Lefts(d, h, l) /\ Unnamed(N[id]) = NodeAt(d, h, l, k) /\ ToSet(N[id].kids) \subseteq DOMAIN b
  <2> DEFINE z == 0  G == {}  r == rise  n == N[id]
  <2>1. z \in Nat /\ Tree(N, h, Shape(r, d, d, h, z), G) /\ r \in [Labels -> Nat]
    BY <1>1, <1>4 DEF W
  <2> HIDE DEF z, G, r
  <2>2. k \in Tops(r, d, h, l) /\ Spells(N[id], Held(r, d, h, l, k), d, l, k)
    BY <1>1, <1>6, <2>1, NodeIn
  <2>3. Lefts(d, h, l) = Tops(r, d, h, l) /\ Members(d, h, l, k) = Held(r, d, h, l, k)
    BY <1>1, MembersAre DEF r
  <2>4. ToSet(N[id].kids) \subseteq DOMAIN N
    BY <1>4 DEF Tree
  <2>5. \A e \in ToSet(N[id].kids) : e # NoId
    <3> DEFINE E == {}
    <3>1. Tree(N, h, W, E) /\ Shaped(W, h)
      BY <1>4
    <3> HIDE DEF E
    <3>. QED
      BY <1>1, <3>1, KidOf
  <2>6. Spells(n, Members(d, h, l, k), d, l, k)
    BY <2>2, <2>3
  <2> HIDE DEF n
  <2>7. Unnamed(n) = NodeAt(d, h, l, k)
    BY <2>6, SpellsNodeAt
  <2>. QED
    BY <1>3, <2>2, <2>3, <2>4, <2>5, <2>7 DEF n
<1>7. Unnamed(root) = NodeAt(d, h, h, 0) /\ ToSet(root.kids) \subseteq DOMAIN b
  <2>1. Spot(NoId, h) = <<h, 0>> /\ NoId \in DOMAIN N
    BY <1>3 DEF Spot
  <2>. QED
    BY <1>1, <1>3, <1>6, <2>1
<1>8. ASSUME NEW id \in DOMAIN b
      PROVE  /\ Unnamed(held[id]) = NodeAt(d, h, id.level, id.left) /\ id.left \in Lefts(d, h, id.level)
             /\ ToSet(held[id].kids) \subseteq DOMAIN b
  <2> DEFINE l == id.level  k == id.left
  <2>1. id \in DOMAIN N /\ l \in Nat /\ Spot(id, h) = <<l, k>> /\ N[id] = held[id]
    <3>1. l \in 0 .. h - 1
      BY <1>5
    <3>. QED
      BY <1>2, <1>3, <1>5, <3>1
  <2> HIDE DEF l, k
  <2>2. k \in Lefts(d, h, l) /\ Unnamed(N[id]) = NodeAt(d, h, l, k) /\ ToSet(N[id].kids) \subseteq DOMAIN b
    BY <1>6, <2>1
  <2>. QED
    BY <2>1, <2>2 DEF l, k
<1>9. {PlaceOf(id) : id \in DOMAIN b} = Places(d, h)
  <2>1. ASSUME NEW id \in DOMAIN b PROVE PlaceOf(id) \in Places(d, h)
    <3>1. PlaceOf(id) = Place(id.level, id.left) /\ id.level \in 0 .. h - 1 /\ id.left \in Lefts(d, h, id.level)
      BY <1>5, <1>8
    <3>. QED
      BY <3>1 DEF Places
  <2>2. ASSUME NEW p \in Places(d, h) PROVE \E id \in DOMAIN b : PlaceOf(id) = p
    <3>1. PICK l \in 0 .. h - 1 : p \in {Place(l, left) : left \in Lefts(d, h, l)}
      BY DEF Places
    <3>2. PICK k \in Lefts(d, h, l) : p = Place(l, k)
      BY <3>1
    <3>3. l \in 0 .. h /\ l # h
      BY <1>1
    <3>4. <<l, k>> \in DOMAIN W
      <4>1. Lefts(d, h, l) = Tops(rise, d, h, l)
        BY <1>1, MembersAre
      <4>. QED
        BY <1>1, <3>3, <4>1, ShapeAt DEF W
    <3>5. PICK id \in DOMAIN N : Spot(id, h) = <<l, k>>
      BY <1>4, <3>4 DEF Tree
    <3>6. id \in DOMAIN b
      BY <1>3, <3>3, <3>5 DEF Spot
    <3>. QED
      BY <1>5, <3>2, <3>5, <3>6
  <2>. QED
    BY <2>1, <2>2
<1>10. ASSUME NEW id \in DOMAIN b, NEW other \in DOMAIN b, PlaceOf(id) = PlaceOf(other) PROVE id = other
  <2>1. PlaceOf(id) = Place(id.level, id.left) /\ PlaceOf(other) = Place(other.level, other.left)
    BY <1>5
  <2>2. id.level = other.level /\ id.left = other.left
    <3>1. Place(id.level, id.left).level = id.level /\ Place(id.level, id.left).left = id.left
      BY DEF Place
    <3>2. Place(other.level, other.left).level = other.level /\ Place(other.level, other.left).left = other.left
      BY DEF Place
    <3>3. Place(id.level, id.left) = Place(other.level, other.left)
      BY <1>10, <2>1
    <3>. QED
      BY <3>1, <3>2, <3>3
  <2>3. Spot(id, h) = Spot(other, h)
    BY <1>5, <2>2
  <2>. QED
    BY <1>3, <1>4, <2>3 DEF Tree
<1>11. ASSUME NEW n \in {root} \cup Range(held) PROVE ToSet(n.kids) \subseteq DOMAIN b
  <2>1. CASE n = root
    BY <1>7, <2>1
  <2>2. CASE n \in Range(held)
    <3>1. PICK id \in DOMAIN b : n = held[id]
      BY <1>2, <2>2 DEF Range
    <3>. QED
      BY <1>8, <3>1
  <2>. QED
    BY <2>1, <2>2
<1>. QED
  BY <1>2, <1>7, <1>8, <1>9, <1>10, <1>11 DEF held, d, h

LEMMA IInvSize ==
  ASSUME IInv, InitialLabels = {}
  PROVE  SizeIsItemCount
<1>1. IsFiniteSet(DOMAIN dict) /\ Cardinality({}) = 0
  BY FS_EmptySet DEF IInv, Typed, IsDict
<1>2. Cardinality(DOMAIN dict) \in Nat
  BY <1>1, FS_CardinalityType
<1>. QED
  BY <1>1, <1>2 DEF IInv, Resting, Sized, SizeIsItemCount

-----------------------------------------------------------------------------
\* Every call keeps the invariant, as long as deletes of absent labels are
\* asked of a tree of height 0 at most: above, the store is left with an
\* unfinished access (DelMiss).
THEOREM Invariant ==
  ASSUME FailedDeletesAt \subseteq {0}
  PROVE  Spec => []IInv
<1>1. Init => IInv
  BY InitHolds
<1>2. IInv /\ [Next]_vars => IInv'
  BY StepKeeps DEF Kept
<1>. QED
  BY <1>1, <1>2, PTL DEF Spec

\* The types of all variables hold in every state, and every node is sorted,
\* which the bisections of lookup, __setitem__ and __delitem__ rely on.
THEOREM Sorted ==
  ASSUME FailedDeletesAt \subseteq {0}
  PROVE  Spec => []TypeOK
<1>1. IInv => TypeOK
  BY IInvTypeOK
<1>. QED
  BY <1>1, Invariant, PTL

\* Between calls root and blobs are the tree that map and height determine,
\* whatever calls of lookup, __setitem__ and __delitem__ led there.
THEOREM OneTreePerMap ==
  ASSUME FailedDeletesAt \subseteq {0}
  PROVE  Spec => []HistoryIndependent
<1>1. IInv => HistoryIndependent
  BY IInvHistory
<1>. QED
  BY <1>1, Invariant, PTL

\* _size, which __len__ returns and the growth test reads, is the number of
\* items of a tree that was built without initial data.
THEOREM SizeIsRight ==
  ASSUME FailedDeletesAt \subseteq {0}, InitialLabels = {}
  PROVE  Spec => []SizeIsItemCount
<1>1. IInv => SizeIsItemCount
  BY IInvSize
<1>. QED
  BY <1>1, Invariant, PTL

\* Every call returns what a dictionary would (README.rst:193).
THEOREM AnswersAsAMap ==
  ASSUME FailedDeletesAt \subseteq {0}
  PROVE  Spec => AnswersLikeADictionary
<1>1. IInv /\ [Next]_vars => [Returns => answer' = Expected]_vars
  BY StepKeeps DEF Kept
<1>. QED
  BY <1>1, Invariant, PTL DEF Spec, AnswersLikeADictionary

\* Every call makes two accesses and a write back per level (hirb.py:138),
\* whatever it looks for and wherever it finds it.
THEOREM OnePattern ==
  ASSUME FailedDeletesAt \subseteq {0}
  PROVE  Spec => SamePattern
<1>1. IInv /\ [Next]_vars => [Returns => oram'.reads = 0 /\ oram'.rounds = [i \in 1 .. height |-> 2]]_vars
  BY StepKeeps DEF Kept
<1>. QED
  BY <1>1, Invariant, PTL DEF Spec, SamePattern
=============================================================================
