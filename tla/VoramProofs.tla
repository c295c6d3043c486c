---------------------------- MODULE VoramProofs ----------------------------
(***************************************************************************)
(* What TLAPS proves of the bucket tree of voram.py, for trees, nodes and  *)
(* blobs of any size: no assertion of the code fails, every node can be    *)
(* decrypted, and the tree is a store of whole blobs.                      *)
(***************************************************************************)
EXTENDS Voram, SequenceTheorems, FiniteSetTheorems, TLAPS

\* Induction along the loops of the code.
Readings  == INSTANCE FoldSteps WITH Op <- ReadNode
Unpacking == INSTANCE FoldSteps WITH Op <- Unpack
Packing   == INSTANCE FoldSteps WITH Op <- Pack
Writings  == INSTANCE FoldSteps WITH Op <- WriteRead
Climbs    == INSTANCE FoldSteps WITH Op <- Climb
Visits    == INSTANCE FoldSteps WITH Op <- Visit
Joins     == INSTANCE FoldSteps WITH Op <- Concat
Weights   == INSTANCE FoldSteps WITH Op <- Weigh

-----------------------------------------------------------------------------
\* Powers of two: as many as subsets.
LEMMA Powers == \A n \in Nat : 2 ^ n \in Nat \ {0} /\ 2 ^ (n + 1) = 2 * 2 ^ n
<1>1. ASSUME NEW n \in Nat
      PROVE  2 ^ n \in Nat /\ IsFiniteSet(SUBSET (1 .. n)) /\ Cardinality(SUBSET (1 .. n)) = 2 ^ n
  <2>1. IsFiniteSet(1 .. n) /\ Cardinality(1 .. n) = n
    BY FS_Interval
  <2>2. IsFiniteSet(SUBSET (1 .. n)) /\ Cardinality(SUBSET (1 .. n)) = 2 ^ Cardinality(1 .. n)
    BY <2>1, FS_SUBSET
  <2>3. Cardinality(SUBSET (1 .. n)) \in Nat
    BY <2>2, FS_CardinalityType
  <2>. QED
    BY <2>1, <2>2, <2>3
<1>2. ASSUME NEW n \in Nat PROVE 2 ^ n # 0
  <2>1. {} \in SUBSET (1 .. n)
    OBVIOUS
  <2> DEFINE X == SUBSET (1 .. n)
  <2>2. IsFiniteSet(X) /\ Cardinality(X) = 2 ^ n /\ X # {}
    BY <1>1, <2>1
  <2> HIDE DEF X
  <2>3. Cardinality(X) # 0
    BY <2>2, FS_EmptySet
  <2>. QED
    BY <2>2, <2>3
<1>3. ASSUME NEW n \in Nat PROVE 2 ^ (n + 1) = 2 * 2 ^ n
  <2> DEFINE X == SUBSET (1 .. n)  g == [s \in X |-> s \cup {n + 1}]  Y == {g[s] : s \in X}
  <2>1. 1 .. n + 1 = (1 .. n) \cup {n + 1} /\ n + 1 \notin 1 .. n
    OBVIOUS
  <2>2. SUBSET (1 .. n + 1) = X \cup Y
    <3>1. ASSUME NEW t \in SUBSET (1 .. n + 1) PROVE t \in X \cup Y
      <4>1. CASE n + 1 \in t
        <5>1. t \ {n + 1} \in X /\ (t \ {n + 1}) \cup {n + 1} = t
          BY <2>1, <4>1
        <5>. QED
          BY <5>1
      <4>2. CASE n + 1 \notin t
        BY <2>1, <4>2
      <4>. QED
        BY <4>1, <4>2
    <3>2. ASSUME NEW t \in X \cup Y PROVE t \in SUBSET (1 .. n + 1)
      BY <2>1
    <3>. QED
      BY <3>1, <3>2
  <2>3. X \cap Y = {}
    BY <2>1
  <2>4. \A s, t \in X : g[s] = g[t] => s = t
    <3> SUFFICES ASSUME NEW s \in X, NEW t \in X, s \cup {n + 1} = t \cup {n + 1} PROVE s = t
      OBVIOUS
    <3>1. n + 1 \notin s /\ n + 1 \notin t
      BY <2>1
    <3>. QED
      BY <3>1
  <2>0. n + 1 \in Nat
    OBVIOUS
  <2>5. 2 ^ n \in Nat /\ IsFiniteSet(X) /\ Cardinality(X) = 2 ^ n
    BY <1>1, Zenon
  <2>6. 2 ^ (n + 1) \in Nat /\ Cardinality(SUBSET (1 .. n + 1)) = 2 ^ (n + 1)
    BY <2>0, <1>1, Zenon
  <2>7. g \in [X -> Y] /\ \A y \in Y : \E s \in X : g[s] = y
    OBVIOUS
  <2> HIDE DEF g, X, Y
  <2>8. g \in Bijection(X, Y)
    BY <2>4, <2>7 DEF Bijection, Injection, Surjection, IsInjective
  <2>9. ExistsBijection(X, Y)
    BY <2>8 DEF ExistsBijection
  <2>10. IsFiniteSet(Y) /\ Cardinality(Y) = 2 ^ n
    BY <2>5, <2>9, FS_Bijection
  <2>11. Cardinality(X \cup Y) = Cardinality(X) + Cardinality(Y) - Cardinality(X \cap Y)
    BY <2>5, <2>10, FS_Union
  <2>12. Cardinality({}) = 0
    BY FS_EmptySet
  <2>13. 2 ^ (n + 1) = Cardinality(X \cup Y) /\ Cardinality(X \cap Y) = 0
    BY <2>2, <2>3, <2>6, <2>12, Zenon
  <2>. QED
    BY ONLY <2>5, <2>10, <2>11, <2>13
<1>. QED
  BY <1>1, <1>2, <1>3

\* Zero is the power of no number.
LEMMA PowerOfZero == 2 ^ 0 = 1
OBVIOUS

\* Powers grow.
LEMMA PowersGrow == \A i, j \in Nat : i <= j => 2 ^ i <= 2 ^ j
<1> SUFFICES ASSUME NEW i \in Nat PROVE \A j \in Nat : i <= j => 2 ^ i <= 2 ^ j
  OBVIOUS
<1> DEFINE T == {j \in Nat : i <= j /\ ~(2 ^ i <= 2 ^ j)}
<1>1. CASE T = {}
  BY <1>1
<1>2. CASE T # {}
  <2>1. PICK m \in T : \A y \in T : m <= y
    <3>1. T \in SUBSET Nat
      OBVIOUS
    <3> HIDE DEF T
    <3>. QED
      BY <1>2, <3>1, Readings!Least
  <2>2. 2 ^ i \in Nat
    BY Powers
  <2>3. m \in Nat /\ i <= m /\ m # i
    BY <2>1, <2>2
  <2>4. m - 1 \in Nat /\ m - 1 \notin T /\ i <= m - 1
    BY <2>1, <2>3
  <2>5. 2 ^ i <= 2 ^ (m - 1)
    BY <2>4
  <2>6. 2 ^ ((m - 1) + 1) = 2 * 2 ^ (m - 1) /\ 2 ^ (m - 1) \in Nat
    BY <2>4, Powers
  <2>7. 2 ^ m = 2 * 2 ^ (m - 1)
    BY <2>3, <2>6
  <2>. QED
    BY <2>1, <2>2, <2>5, <2>6, <2>7
<1>. QED
  BY <1>1, <1>2

\* Division.
LEMMA Quotient ==
  ASSUME NEW a \in Nat, NEW s \in Nat, NEW c \in Nat \ {0}, NEW u \in 0 .. c - 1, a = s * c + u
  PROVE  a \div c = s
OBVIOUS

LEMMA Halved ==
  ASSUME NEW a \in Nat, NEW c \in Nat \ {0}
  PROVE  a \div (2 * c) = (a \div c) \div 2 /\ a \div c \in Nat
OBVIOUS

LEMMA Halves ==
  \A p \in Nat : p \div 2 \in Nat /\ 2 * (p \div 2) <= p /\ p <= 2 * (p \div 2) + 1 /\ p % 2 = p - 2 * (p \div 2)
OBVIOUS

\* The children of p are those with p for their half.
LEMMA Children ==
  \A p, q \in Nat : q \div 2 = p <=> q \in {2 * p, 2 * p + 1}
OBVIOUS

-----------------------------------------------------------------------------
\* A set of nodes that has the parent of each.
ParentClosed(S) == \A p \in S : p > 1 => p \div 2 \in S

\* The ancestors of a node, and the node itself.
Up(p) == {a \in 1 .. p : \A S \in SUBSET (1 .. p) : p \in S /\ ParentClosed(S) => a \in S}

LEMMA UpFacts ==
  ASSUME NEW p \in Nat \ {0}
  PROVE  /\ p \in Up(p) /\ Up(p) \subseteq 1 .. p /\ ParentClosed(Up(p))
         /\ \A S \in SUBSET Nat : p \in S /\ ParentClosed(S) => Up(p) \subseteq S
<1>1. p \in Up(p) /\ Up(p) \subseteq 1 .. p
  BY DEF Up
<1>2. ParentClosed(Up(p))
  <2> SUFFICES ASSUME NEW a \in Up(p), a > 1 PROVE a \div 2 \in Up(p)
    BY DEF ParentClosed
  <2>1. a \in 1 .. p /\ a \div 2 \in 1 .. p
    BY <1>1, Halves
  <2>2. ASSUME NEW S \in SUBSET (1 .. p), p \in S, ParentClosed(S) PROVE a \div 2 \in S
    <3>1. a \in S
      BY <2>2 DEF Up
    <3>. QED
      BY <2>2, <3>1 DEF ParentClosed
  <2>. QED
    BY <2>1, <2>2 DEF Up
<1>3. ASSUME NEW S \in SUBSET Nat, p \in S, ParentClosed(S), NEW a \in Up(p) PROVE a \in S
  <2> DEFINE R == S \cap (1 .. p)
  <2>1. R \in SUBSET (1 .. p) /\ p \in R
    BY <1>3
  <2>2. ParentClosed(R)
    <3> SUFFICES ASSUME NEW b \in R, b > 1 PROVE b \div 2 \in R
      BY DEF ParentClosed
    <3>1. b \div 2 \in S
      BY <1>3 DEF ParentClosed
    <3>2. b \div 2 \in 1 .. p
      BY Halves
    <3>. QED
      BY <3>1, <3>2
  <2>. QED
    BY <2>1, <2>2 DEF Up
<1>. QED
  BY <1>1, <1>2, <1>3

\* The ancestors of a node that is not the root are those of its parent.
LEMMA UpOne ==
  ASSUME NEW p \in Nat \ {0}, p # 1
  PROVE  /\ p \div 2 \in Nat \ {0} /\ p \div 2 < p
         /\ Up(p) = {p} \cup Up(p \div 2)
<1>1. p \div 2 \in Nat \ {0} /\ p \div 2 < p
  BY Halves
<1>2. /\ p \div 2 \in Up(p \div 2) /\ Up(p \div 2) \subseteq 1 .. p \div 2 /\ ParentClosed(Up(p \div 2))
      /\ \A S \in SUBSET Nat : p \div 2 \in S /\ ParentClosed(S) => Up(p \div 2) \subseteq S
  BY <1>1, UpFacts
<1>3. /\ p \in Up(p) /\ Up(p) \subseteq 1 .. p /\ ParentClosed(Up(p))
      /\ \A S \in SUBSET Nat : p \in S /\ ParentClosed(S) => Up(p) \subseteq S
  BY UpFacts
<1>4. Up(p) \in SUBSET Nat /\ {p} \cup Up(p \div 2) \in SUBSET Nat
  BY <1>1, <1>2, <1>3
<1>5. p \div 2 \in Up(p)
  BY <1>3 DEF ParentClosed
<1>6. Up(p \div 2) \subseteq Up(p)
  BY <1>2, <1>3, <1>4, <1>5
<1>7. ParentClosed({p} \cup Up(p \div 2))
  BY <1>2 DEF ParentClosed
<1>8. Up(p) \subseteq {p} \cup Up(p \div 2)
  BY <1>3, <1>4, <1>7
<1>. QED
  BY <1>1, <1>3, <1>6, <1>8

-----------------------------------------------------------------------------
\* Idents lead to leaves of the largest tree.
LEMMA IdentLeads ==
  ASSUME NEW id \in Idents
  PROVE  id.at \in Nat /\ 2 ^ MaxLevels <= id.at /\ id.at < 2 * 2 ^ MaxLevels
<1>1. 2 ^ MaxLevels \in Nat /\ 2 ^ (MaxLevels + 1) = 2 * 2 ^ MaxLevels
  BY VoramAssumption, Powers
<1>2. id.at \in UNION Range(Leaves)
  BY DEF Idents
<1>3. PICK l \in DOMAIN Leaves : id.at \in Leaves[l]
  BY <1>2 DEF Range
<1>4. id.at \in 2 ^ MaxLevels .. 2 ^ (MaxLevels + 1) - 1
  BY <1>3, VoramAssumption
<1>. QED
  BY <1>1, <1>4

\* The nodes of an ident, from the root down, are each the parent of the next.
LEMMA AncestorFacts ==
  ASSUME NEW id \in Idents, NEW d \in 0 .. MaxLevels
  PROVE  /\ Ancestor(id, d) \in Nat
         /\ 2 ^ d <= Ancestor(id, d) /\ Ancestor(id, d) < 2 * 2 ^ d
         /\ Ancestor(id, 0) = 1
         /\ d > 0 => Ancestor(id, d) \div 2 = Ancestor(id, d - 1)
<1> DEFINE M == MaxLevels
<1>1. M \in Nat /\ id.at \in Nat /\ 2 ^ M <= id.at /\ id.at < 2 * 2 ^ M /\ 2 ^ M \in Nat \ {0}
  BY IdentLeads, VoramAssumption, Powers
<1>2. Ancestor(id, 0) = 1
  <2>1. id.at \div 2 ^ M = 1
    <3> DEFINE c == 2 ^ M  u == id.at - c
    <3>1. c \in Nat \ {0} /\ u \in 0 .. c - 1 /\ id.at = 1 * c + u
      BY <1>1
    <3> HIDE DEF c, u
    <3>2. id.at \div c = 1
      BY <1>1, <3>1, Quotient
    <3>. QED
      BY <3>2 DEF c
  <2>2. M - 0 = M
    BY <1>1
  <2>. QED
    BY <2>1, <2>2 DEF Ancestor
<1>3. ASSUME NEW k \in 0 .. M, k > 0 PROVE Ancestor(id, k) \div 2 = Ancestor(id, k - 1)
  <2> DEFINE n == M - k
  <2>1. n \in Nat /\ M - (k - 1) = n + 1
    BY <1>1
  <2>2. 2 ^ n \in Nat \ {0} /\ 2 ^ (n + 1) = 2 * 2 ^ n
    BY <2>1, Powers
  <2> HIDE DEF n
  <2>3. id.at \div (2 * 2 ^ n) = (id.at \div 2 ^ n) \div 2
    BY <1>1, <2>2, Halved
  <2>. QED
    BY <2>1, <2>2, <2>3 DEF Ancestor, n
<1>4. ASSUME NEW k \in 0 .. M PROVE Ancestor(id, k) \in Nat
  <2>1. M - k \in Nat
    BY <1>1
  <2>2. 2 ^ (M - k) \in Nat \ {0}
    BY <2>1, Powers
  <2>. QED
    BY <1>1, <2>2, Halved DEF Ancestor
<1> DEFINE T == {k \in Nat : k \in 0 .. M /\ ~(2 ^ k <= Ancestor(id, k) /\ Ancestor(id, k) < 2 * 2 ^ k)}
<1>5. T = {}
  <2> SUFFICES ASSUME T # {} PROVE FALSE
    OBVIOUS
  <2>1. PICK k \in T : \A y \in T : k <= y
    <3>1. T \in SUBSET Nat
      OBVIOUS
    <3> HIDE DEF T
    <3>. QED
      BY <3>1, Readings!Least
  <2>2. k # 0
    <3> SUFFICES ASSUME k = 0 PROVE FALSE
      OBVIOUS
    <3>1. 2 ^ k = 1 /\ Ancestor(id, k) = 1
      BY <1>2, PowerOfZero
    <3>2. ~(2 ^ k <= Ancestor(id, k) /\ Ancestor(id, k) < 2 * 2 ^ k)
      BY <2>1
    <3>. QED
      BY <3>1, <3>2
  <2>3. k - 1 \in Nat /\ k \in 0 .. M /\ k > 0 /\ k - 1 \in 0 .. M /\ k - 1 \notin T
    BY <1>1, <2>1, <2>2
  <2>4. 2 ^ (k - 1) <= Ancestor(id, k - 1) /\ Ancestor(id, k - 1) < 2 * 2 ^ (k - 1)
    BY <2>3
  <2>5. 2 ^ ((k - 1) + 1) = 2 * 2 ^ (k - 1) /\ 2 ^ (k - 1) \in Nat
    BY <2>3, Powers
  <2>6. 2 ^ k = 2 * 2 ^ (k - 1)
    BY <2>3, <2>5
  <2>7. Ancestor(id, k) \div 2 = Ancestor(id, k - 1) /\ Ancestor(id, k) \in Nat /\ Ancestor(id, k - 1) \in Nat
    BY <1>3, <1>4, <2>3
  <2>8. 2 ^ k <= Ancestor(id, k) /\ Ancestor(id, k) < 2 * 2 ^ k
    <3> DEFINE A == Ancestor(id, k)  b == 2 ^ (k - 1)  c == 2 ^ k
    <3>1. A \in Nat /\ b \in Nat /\ c = 2 * b /\ b <= A \div 2 /\ A \div 2 < 2 * b
      BY <2>4, <2>5, <2>6, <2>7
    <3> HIDE DEF A, b, c
    <3>2. c <= A /\ A < 2 * c
      BY <3>1, Halves
    <3>. QED
      BY <3>2 DEF A, c
  <2>. QED
    BY <2>1, <2>8
<1>6. d \notin T /\ d \in Nat
  BY <1>1, <1>5
<1>. QED
  BY <1>2, <1>3, <1>4, <1>6

\* The path of an ident in a tree.
LEMMA PathFacts ==
  ASSUME NEW id \in Idents, NEW m, m.levels \in 0 .. MaxLevels
  PROVE  LET path == Path(m, id)
             l    == m.levels
         IN  /\ DOMAIN path = 1 .. l + 1 /\ l + 1 \in Nat /\ l \in Nat /\ path[1] = 1
             /\ \A i \in 1 .. l + 1 : path[i] \in Nodes(l) /\ path[i] \in Nat \ {0} /\ OnPath(id, path[i])
             /\ \A i \in 2 .. l + 1 : path[i] \div 2 = path[i - 1]
             /\ \A i, j \in 1 .. l + 1 : i < j => path[i] < path[j]
             /\ \A p \in Nodes(l) : OnPath(id, p) => \E i \in 1 .. l + 1 : path[i] = p
<1> DEFINE path == Path(m, id)  l == m.levels
<1>1. l \in Nat /\ MaxLevels \in Nat /\ l <= MaxLevels
  BY VoramAssumption
<1>2. DOMAIN path = 1 .. l + 1 /\ \A i \in 1 .. l + 1 : path[i] = Ancestor(id, i - 1)
  BY DEF Path
<1> HIDE DEF path, l
<1>3. \A i \in 1 .. l + 1 : i - 1 \in 0 .. MaxLevels /\ i - 1 \in Nat
  BY <1>1
<1>4. ASSUME NEW i \in 1 .. l + 1
      PROVE  path[i] \in Nat \ {0} /\ 2 ^ (i - 1) <= path[i] /\ path[i] < 2 ^ i /\ 2 ^ i \in Nat /\ 2 ^ (i - 1) \in Nat
  <2>1. i - 1 \in 0 .. MaxLevels /\ i - 1 \in Nat /\ i \in Nat
    BY <1>3
  <2>2. /\ Ancestor(id, i - 1) \in Nat
        /\ 2 ^ (i - 1) <= Ancestor(id, i - 1) /\ Ancestor(id, i - 1) < 2 * 2 ^ (i - 1)
    BY <2>1, AncestorFacts
  <2>3. 2 ^ (i - 1) \in Nat \ {0} /\ 2 ^ ((i - 1) + 1) = 2 * 2 ^ (i - 1)
    BY <2>1, Powers
  <2>4. (i - 1) + 1 = i
    BY <2>1
  <2>. QED
    BY <1>2, <2>1, <2>2, <2>3, <2>4
<1>5. ASSUME NEW i \in 1 .. l + 1 PROVE path[i] \in Nodes(l)
  <2>1. 2 ^ i <= 2 ^ (l + 1) /\ 2 ^ (l + 1) \in Nat
    BY <1>1, PowersGrow, Powers
  <2>. QED
    BY <1>4, <2>1 DEF Nodes
<1>6. ASSUME NEW i \in 1 .. l + 1 PROVE OnPath(id, path[i])
  BY <1>2, <1>3 DEF OnPath
<1>7. ASSUME NEW i \in 2 .. l + 1 PROVE path[i] \div 2 = path[i - 1]
  <2>1. i - 1 \in 0 .. MaxLevels /\ i - 1 > 0 /\ i \in 1 .. l + 1 /\ i - 1 \in 1 .. l + 1
    BY <1>1
  <2>. QED
    BY <1>2, <2>1, AncestorFacts
<1>8. path[1] = 1
  <2>1. 1 \in 1 .. l + 1 /\ 1 - 1 = 0 /\ 0 \in 0 .. MaxLevels
    BY <1>1
  <2>. QED
    BY <1>2, <2>1, AncestorFacts
<1>9. ASSUME NEW i \in 1 .. l + 1, NEW j \in 1 .. l + 1, i < j PROVE path[i] < path[j]
  <2>1. i \in Nat /\ j - 1 \in Nat /\ i <= j - 1
    BY <1>1, <1>9
  <2>2. 2 ^ i <= 2 ^ (j - 1)
    BY <2>1, PowersGrow
  <2>. QED
    BY <1>4, <2>2
<1>10. ASSUME NEW p \in Nodes(l), OnPath(id, p) PROVE \E i \in 1 .. l + 1 : path[i] = p
  <2>1. PICK d \in 0 .. MaxLevels : Ancestor(id, d) = p
    BY <1>10 DEF OnPath
  <2>2. d \in Nat /\ 2 ^ d <= p /\ p < 2 ^ (l + 1) /\ 2 ^ d \in Nat /\ 2 ^ (l + 1) \in Nat /\ p \in Nat
    BY <1>1, <2>1, AncestorFacts, Powers DEF Nodes
  <2>3. ~(l + 1 <= d)
    BY <1>1, <2>2, PowersGrow
  <2>4. d + 1 \in 1 .. l + 1 /\ (d + 1) - 1 = d
    BY <1>1, <2>2, <2>3
  <2>. QED
    BY <1>2, <2>1, <2>4
<1>. QED
  BY <1>1, <1>2, <1>4, <1>5, <1>6, <1>7, <1>8, <1>9, <1>10 DEF path, l

\* With a node of a path, its ancestors on the path.
LEMMA PathAbove ==
  ASSUME NEW id \in Idents, NEW m, m.levels \in 0 .. MaxLevels, NEW S, ParentClosed(S),
         NEW j \in 1 .. m.levels + 1, Path(m, id)[j] \in S, NEW i \in 1 .. j
  PROVE  Path(m, id)[i] \in S
<1> DEFINE path == Path(m, id)  l == m.levels
<1>1. /\ l \in Nat /\ path[1] = 1 /\ \A k \in 1 .. l + 1 : path[k] \in Nat \ {0}
      /\ \A k \in 2 .. l + 1 : path[k] \div 2 = path[k - 1]
      /\ \A k, n \in 1 .. l + 1 : k < n => path[k] < path[n]
  BY PathFacts
<1>2. j \in 1 .. l + 1 /\ path[j] \in S
  OBVIOUS
<1> HIDE DEF path, l
<1> DEFINE T == {k \in Nat : k < j /\ path[j - k] \notin S}
<1>3. T = {}
  <2> SUFFICES ASSUME T # {} PROVE FALSE
    OBVIOUS
  <2>1. PICK k \in T : \A y \in T : k <= y
    <3>1. T \in SUBSET Nat
      OBVIOUS
    <3> HIDE DEF T
    <3>. QED
      BY <3>1, Readings!Least
  <2>2. k # 0
    BY <1>1, <1>2, <2>1
  <2>3. k - 1 \in Nat /\ k - 1 < j /\ k - 1 \notin T /\ j - (k - 1) \in 2 .. l + 1 /\ (j - (k - 1)) - 1 = j - k
    <3>1. k \in Nat /\ k < j /\ k # 0 /\ j \in Nat /\ j <= l + 1 /\ l \in Nat
      BY <1>1, <1>2, <2>1, <2>2
    <3>2. k - 1 \in Nat /\ k - 1 < j /\ j - (k - 1) \in 2 .. l + 1 /\ (j - (k - 1)) - 1 = j - k /\ ~(k <= k - 1)
      BY ONLY <3>1
    <3>. QED
      BY <2>1, <3>2
  <2>4. path[j - (k - 1)] \in S
    BY <2>3
  <2>5. path[j - (k - 1)] > 1
    <3>1. 1 \in 1 .. l + 1 /\ j - (k - 1) \in 1 .. l + 1 /\ 1 < j - (k - 1)
      BY <1>1, <2>3
    <3>. QED
      BY <1>1, <3>1
  <2>6. path[j - (k - 1)] \div 2 = path[j - k]
    BY <1>1, <2>3
  <2>7. path[j - k] \in S
    BY <2>4, <2>5, <2>6 DEF ParentClosed
  <2>. QED
    BY <2>1, <2>7
<1>4. j - i \in Nat /\ j - i < j /\ j - (j - i) = i
  BY <1>1, <1>2
<1>. QED
  BY <1>3, <1>4 DEF path

-----------------------------------------------------------------------------

\* Functions with a value more.
LEMMA PutFacts ==
  ASSUME NEW f, NEW x, NEW y
  PROVE  /\ DOMAIN Put(f, x, y) = {x} \cup DOMAIN f
         /\ Put(f, x, y)[x] = y
         /\ \A z \in DOMAIN f : z # x => Put(f, x, y)[z] = f[z]
BY DEF Put, Over

Partial(S, T) == UNION {[D -> T] : D \in SUBSET S}

LEMMA PartialFacts ==
  ASSUME NEW S, NEW T, NEW f
  PROVE  /\ f \in Partial(S, T) => DOMAIN f \subseteq S /\ f \in [DOMAIN f -> T] /\ \A x \in DOMAIN f : f[x] \in T
         /\ f \in [DOMAIN f -> T] /\ DOMAIN f \subseteq S => f \in Partial(S, T)
BY DEF Partial

LEMMA PutTyped ==
  ASSUME NEW S, NEW T, NEW f \in Partial(S, T), NEW x \in S, NEW y \in T
  PROVE  Put(f, x, y) \in Partial(S, T)
<1>1. DOMAIN f \subseteq S /\ \A z \in DOMAIN f : f[z] \in T
  BY PartialFacts
<1>2. Put(f, x, y) \in [{x} \cup DOMAIN f -> T]
  BY <1>1 DEF Put, Over
<1>. QED
  BY <1>1, <1>2, PutFacts DEF Partial

LEMMA OverTyped ==
  ASSUME NEW S, NEW T, NEW f \in Partial(S, T), NEW g \in Partial(S, T)
  PROVE  /\ Over(g, f) \in Partial(S, T) /\ DOMAIN Over(g, f) = DOMAIN g \cup DOMAIN f
<1>1. /\ DOMAIN f \subseteq S /\ \A z \in DOMAIN f : f[z] \in T
      /\ DOMAIN g \subseteq S /\ \A z \in DOMAIN g : g[z] \in T
  BY PartialFacts
<1>2. Over(g, f) \in [DOMAIN g \cup DOMAIN f -> T]
  BY <1>1 DEF Over
<1>. QED
  BY <1>1, <1>2 DEF Partial

LEMMA WithoutTyped ==
  ASSUME NEW S, NEW T, NEW f \in Partial(S, T), NEW X
  PROVE  /\ Without(f, X) \in Partial(S, T) /\ DOMAIN Without(f, X) = DOMAIN f \ X
         /\ \A z \in DOMAIN f \ X : Without(f, X)[z] = f[z]
<1>1. DOMAIN f \subseteq S /\ \A z \in DOMAIN f : f[z] \in T
  BY PartialFacts
<1>2. Without(f, X) \in [DOMAIN f \ X -> T] /\ DOMAIN f \ X \subseteq S
  BY <1>1 DEF Without
<1>. QED
  BY <1>2 DEF Partial, Without

-----------------------------------------------------------------------------
\* The memory of the object, and the tree it is between two calls.
Data == Seq(Bytes)
Chunks == Seq([id : Idents, data : Data])
NodeRecs == [kids : BOOLEAN \X BOOLEAN, chunks : Chunks]
Stashes == Partial(Idents, Data)

Mems == [levels : InitialLevels .. MaxLevels, node : Partial(Nat, NodeRecs),
         keys : Partial(Nat, BOOLEAN), stash : Stashes, buffer : SUBSET Nat, fault : BOOLEAN]

\* The keys in memory: the root's, and those of the children of what was read.
Keyed(m) == \A q : q \in DOMAIN m.keys <=> q \in Nat /\ (q = 1 \/ q \div 2 \in m.buffer)

\* The key of a node at rest fits, wherever it is kept.
Locked(m) ==
    \A p \in DOMAIN m.node \ m.buffer :
        IF p = 1 \/ p \div 2 \in m.buffer THEN m.keys[p] ELSE m.node[p \div 2].kids[Side(p)]

\* A node holds no more than it has room for, of blobs that belong there.
Fits(n, p) == Used(n) <= Room /\ \A c \in ToSet(n.chunks) : OnPath(c.id, p)

Tree(m) ==
    /\ m \in Mems /\ ~m.fault
    /\ 0 \notin DOMAIN m.node /\ m.buffer \subseteq DOMAIN m.node
    /\ ParentClosed(m.buffer) /\ ParentClosed(DOMAIN m.node)
    /\ Keyed(m) /\ Locked(m)
    /\ \A p \in DOMAIN m.node : Fits(m.node[p], p)

LEMMA MemTyped ==
  ASSUME NEW m \in Mems
  PROVE  /\ m.levels \in InitialLevels .. MaxLevels
         /\ m.node \in Partial(Nat, NodeRecs) /\ DOMAIN m.node \subseteq Nat
         /\ \A p \in DOMAIN m.node : /\ m.node[p] \in NodeRecs /\ m.node[p].chunks \in Chunks
                                     /\ m.node[p].kids \in BOOLEAN \X BOOLEAN
         /\ m.keys \in Partial(Nat, BOOLEAN) /\ DOMAIN m.keys \subseteq Nat
         /\ \A p \in DOMAIN m.keys : m.keys[p] \in BOOLEAN
         /\ m.stash \in Stashes /\ DOMAIN m.stash \subseteq Idents
         /\ \A id \in DOMAIN m.stash : m.stash[id] \in Data
         /\ m.buffer \in SUBSET Nat /\ m.fault \in BOOLEAN
<1>1. /\ m.levels \in InitialLevels .. MaxLevels /\ m.node \in Partial(Nat, NodeRecs)
      /\ m.keys \in Partial(Nat, BOOLEAN) /\ m.stash \in Partial(Idents, Data)
      /\ m.buffer \in SUBSET Nat /\ m.fault \in BOOLEAN
  BY DEF Mems, Stashes
<1>2. \A n \in NodeRecs : n.chunks \in Chunks /\ n.kids \in BOOLEAN \X BOOLEAN
  BY DEF NodeRecs
<1>. QED
  BY <1>1, <1>2, PartialFacts DEF Stashes

-----------------------------------------------------------------------------
\* Data in pieces.
LEMMA NoData == << >> \in Data /\ \A d \in Data : d \o << >> = d /\ << >> \o d = d
BY ConcatEmptySeq, EmptySeq DEF Data

LEMMA Joined ==
  \A a, b, c \in Data : a \o b \in Data /\ (a \o b) \o c = a \o (b \o c)
<1> SUFFICES ASSUME NEW a \in Data, NEW b \in Data, NEW c \in Data
             PROVE  a \o b \in Data /\ (a \o b) \o c = a \o (b \o c)
  OBVIOUS
<1>1. a \o b \in Data
  BY ConcatProperties DEF Data
<1>2. (a \o b) \o c = a \o (b \o c)
  BY ConcatAssociative, SMTT(30) DEF Data
<1>. QED
  BY <1>1, <1>2

LEMMA AtTyped == ASSUME NEW s \in Stashes, NEW id PROVE At(s, id) \in Data
BY PartialFacts, NoData DEF At, Stashes

\* The parts of a blob among chunks.
Parts(chunks, id) == [i \in DOMAIN chunks |-> IF chunks[i].id = id THEN chunks[i].data ELSE << >>]
Upto(chunks, id, n) == Joins!Fold(<< >>, Joins!Prefix(Parts(chunks, id), n))

LEMMA ChunkTyped ==
  ASSUME NEW chunks \in Chunks
  PROVE  /\ Len(chunks) \in Nat /\ DOMAIN chunks = 1 .. Len(chunks)
         /\ \A i \in 1 .. Len(chunks) : /\ chunks[i] \in [id : Idents, data : Data]
                                        /\ chunks[i].id \in Idents /\ chunks[i].data \in Data
<1> DEFINE R == [id : Idents, data : Data]
<1>1. chunks \in Seq(R)
  BY DEF Chunks
<1>2. \A c \in R : c.id \in Idents /\ c.data \in Data
  OBVIOUS
<1> HIDE DEF R
<1>3. Len(chunks) \in Nat /\ DOMAIN chunks = 1 .. Len(chunks) /\ \A i \in 1 .. Len(chunks) : chunks[i] \in R
  BY <1>1
<1>. QED
  BY <1>2, <1>3 DEF R

LEMMA PiecesFacts ==
  ASSUME NEW chunks \in Chunks, NEW id
  PROVE  /\ PiecesOf(chunks, id) = Upto(chunks, id, Len(chunks))
         /\ Upto(chunks, id, 0) = << >>
         /\ \A n \in 0 .. Len(chunks) : Upto(chunks, id, n) \in Data
         /\ \A n \in 1 .. Len(chunks) : Upto(chunks, id, n) = Upto(chunks, id, n - 1) \o Parts(chunks, id)[n]
<1> DEFINE L == Len(chunks)  parts == Parts(chunks, id)
<1>1. L \in Nat /\ DOMAIN parts = 1 .. L
  BY ChunkTyped DEF Parts
<1>2. \A i \in 1 .. L : parts[i] \in Data
  BY ChunkTyped, NoData DEF Parts
<1>3. parts = [i \in 1 .. L |-> parts[i]]
  BY <1>1 DEF Parts
<1>4. PiecesOf(chunks, id) = Joins!Fold(<< >>, parts)
  BY DEF PiecesOf, Parts, FoldLeft, Joins!Fold, Joins!MapThenFoldSet, MapThenFoldSet, Max, Joins!Latest
<1> HIDE DEF parts
<1>5. Joins!Prefix(parts, L) = parts
  BY <1>3 DEF Joins!Prefix
<1>6. Joins!Fold(<< >>, Joins!Prefix(parts, 0)) = << >>
  BY Joins!FoldOfNone
<1>7. ASSUME NEW n \in 1 .. L
      PROVE  Joins!Fold(<< >>, Joins!Prefix(parts, n)) = Joins!Fold(<< >>, Joins!Prefix(parts, n - 1)) \o parts[n]
  <2>1. n \in Nat \ {0}
    BY <1>1
  <2>2. Joins!Fold(<< >>, Joins!Prefix(parts, n)) = Concat(Joins!Fold(<< >>, Joins!Prefix(parts, n - 1)), parts[n])
    BY <2>1, Joins!FoldGoesOn
  <2>. QED
    BY <2>2 DEF Concat
<1> DEFINE up(n) == Joins!Fold(<< >>, Joins!Prefix(parts, n))
           T == {n \in Nat : n <= L /\ up(n) \notin Data}
<1>8. T = {}
  <2> SUFFICES ASSUME T # {} PROVE FALSE
    OBVIOUS
  <2>1. PICK k \in T : \A y \in T : k <= y
    <3>1. T \in SUBSET Nat
      OBVIOUS
    <3> HIDE DEF T
    <3>. QED
      BY <3>1, Joins!Least
  <2>2. k # 0
    BY <1>6, <2>1, NoData
  <2>3. k - 1 \in Nat /\ k \in 1 .. L /\ ~(k <= k - 1)
    BY <1>1, <2>1, <2>2
  <2>4. up(k - 1) \in Data
    BY <2>1, <2>3
  <2>5. up(k) = up(k - 1) \o parts[k]
    BY <1>7, <2>3
  <2> HIDE DEF up
  <2>. QED
    BY <1>2, <2>1, <2>3, <2>4, <2>5, Joined
<1>9. \A n \in 0 .. L : up(n) \in Data
  BY <1>1, <1>8
<1>. QED
  BY <1>4, <1>5, <1>6, <1>7, <1>9 DEF Upto, parts

\* The chunks of a node go to the stash, behind what is there.
LEMMA UnpackAll ==
  ASSUME NEW stash \in Stashes, NEW chunks \in Chunks
  PROVE  LET s == FoldLeft(Unpack, stash, chunks)
         IN  /\ s \in Stashes /\ DOMAIN s = DOMAIN stash \cup {c.id : c \in ToSet(chunks)}
             /\ \A id \in Idents : At(s, id) = At(stash, id) \o PiecesOf(chunks, id)
<1> DEFINE L == Len(chunks)  met(n) == {chunks[i].id : i \in 1 .. n}
           Good(n) == {s \in Stashes : /\ DOMAIN s = DOMAIN stash \cup met(n)
                                       /\ \A id \in Idents : At(s, id) = At(stash, id) \o Upto(chunks, id, n)}
           Ok == [n \in Nat |-> Good(n)]
<1>1. L \in Nat /\ DOMAIN chunks = 1 .. L
  BY ChunkTyped
<1>2. stash \in Good(0)
  <2>1. met(0) = {}
    OBVIOUS
  <2>2. \A id \in Idents : At(stash, id) = At(stash, id) \o Upto(chunks, id, 0)
    BY PiecesFacts, AtTyped, NoData
  <2>. QED
    BY <2>1, <2>2
<1>3. ASSUME NEW n \in 1 .. L, NEW s \in Good(n - 1) PROVE Unpack(s, chunks[n]) \in Good(n)
  <2> DEFINE c == chunks[n]  t == Unpack(s, c)
  <2>1. c \in [id : Idents, data : Data] /\ c.id \in Idents /\ c.data \in Data
    BY ChunkTyped
  <2>2. At(s, c.id) \o c.data \in Data
    BY <2>1, AtTyped, Joined
  <2>3. t \in Stashes
    BY <2>1, <2>2, PutTyped DEF Unpack, Stashes
  <2>4. DOMAIN t = {c.id} \cup DOMAIN s /\ t[c.id] = At(s, c.id) \o c.data
        /\ \A z \in DOMAIN s : z # c.id => t[z] = s[z]
    <3> DEFINE x == c.id  y == At(s, c.id) \o c.data
    <3>1. t = Put(s, x, y)
      BY DEF Unpack
    <3> HIDE DEF x, y, t
    <3>2. DOMAIN t = {x} \cup DOMAIN s /\ t[x] = y /\ \A z \in DOMAIN s : z # x => t[z] = s[z]
      BY <3>1 DEF Put, Over
    <3>. QED
      BY <3>2 DEF x, y
  <2>5. met(n) = met(n - 1) \cup {c.id}
    <3>1. 1 .. n = (1 .. n - 1) \cup {n}
      BY <1>1
    <3>. QED
      BY <3>1
  <2>6. ASSUME NEW id \in Idents PROVE At(t, id) = At(stash, id) \o Upto(chunks, id, n)
    <3>1. At(s, id) = At(stash, id) \o Upto(chunks, id, n - 1)
      OBVIOUS
    <3>2. At(t, id) = At(s, id) \o Parts(chunks, id)[n]
      <4>1. CASE id = c.id
        BY <1>1, <2>4, <4>1 DEF At, Parts
      <4>2. CASE id # c.id
        <5>1. At(t, id) = At(s, id) /\ Parts(chunks, id)[n] = << >>
          BY <1>1, <2>4, <4>2 DEF At, Parts
        <5>. QED
          BY <5>1, AtTyped, NoData
      <4>. QED
        BY <4>1, <4>2, SMTT(30)
    <3>3. Upto(chunks, id, n) = Upto(chunks, id, n - 1) \o Parts(chunks, id)[n]
      BY PiecesFacts
    <3>4. Upto(chunks, id, n - 1) \in Data
      <4>1. n - 1 \in 0 .. L
        BY <1>1
      <4>. QED
        BY <4>1, PiecesFacts
    <3>5. Parts(chunks, id)[n] \in Data
      BY <1>1, <2>1, NoData DEF Parts
    <3>6. At(stash, id) \in Data
      BY AtTyped
    <3> DEFINE a == At(stash, id)  b == Upto(chunks, id, n - 1)  d == Parts(chunks, id)[n]
    <3>7. (a \o b) \o d = a \o (b \o d)
      <4>1. a \in Data /\ b \in Data /\ d \in Data
        BY <3>4, <3>5, <3>6
      <4> HIDE DEF a, b, d
      <4>. QED
        BY <4>1, Joined, ZenonT(60)
    <3> HIDE DEF t
    <3>. QED
      BY <3>1, <3>2, <3>3, <3>7, Zenon
  <2>. QED
    BY <2>3, <2>4, <2>5, <2>6
<1> HIDE DEF Good
<1>4. Unpacking!Fold(stash, chunks) \in Ok[L]
  <2>1. stash \in Ok[0]
    BY <1>2
  <2>2. \A n \in 1 .. L : \A x \in Ok[n - 1] : Unpack(x, chunks[n]) \in Ok[n]
    BY <1>1, <1>3
  <2> HIDE DEF Ok, L
  <2>. QED
    BY <1>1, <2>1, <2>2, Unpacking!FoldStays
<1>5. FoldLeft(Unpack, stash, chunks) \in Good(L)
  BY <1>1, <1>4 DEF FoldLeft, Unpacking!Fold, Unpacking!MapThenFoldSet, MapThenFoldSet, Max, Unpacking!Latest
<1>6. met(L) = {c.id : c \in ToSet(chunks)}
  BY <1>1 DEF ToSet
<1>7. \A id \in Idents : PiecesOf(chunks, id) = Upto(chunks, id, L)
  BY PiecesFacts
<1>. QED
  BY <1>5, <1>6, <1>7 DEF Good

-----------------------------------------------------------------------------
\* The bytes of a node.
Sum(chunks) == FoldLeft(Weigh, 0, chunks)

LEMMA UsedFacts ==
  /\ Sum(<< >>) = 0
  /\ \A chunks \in Chunks : Sum(chunks) \in Nat
  /\ \A chunks \in Chunks, c \in [id : Idents, data : Data] :
        Sum(Append(chunks, c)) = Sum(chunks) + Header + Len(c.data)
<1>1. \A chunks : Sum(chunks) = Weights!Fold(0, chunks)
  BY DEF Sum, FoldLeft, Weights!Fold, Weights!MapThenFoldSet, MapThenFoldSet, Max, Weights!Latest
<1>2. Sum(<< >>) = 0
  <2>1. Weights!Prefix(<< >>, 0) = << >>
    BY DEF Weights!Prefix
  <2>. QED
    BY <1>1, <2>1, Weights!FoldOfNone
<1>3. ASSUME NEW chunks \in Chunks PROVE Sum(chunks) \in Nat
  <2> DEFINE L == Len(chunks)  Ok == [n \in Nat |-> Nat]
  <2>1. L \in Nat /\ DOMAIN chunks = 1 .. L /\ \A i \in 1 .. L : Len(chunks[i].data) \in Nat
    BY ChunkTyped, LenProperties DEF Data
  <2>2. \A n \in 1 .. L : \A x \in Ok[n - 1] : Weigh(x, chunks[n]) \in Ok[n]
    <3> SUFFICES ASSUME NEW n \in 1 .. L, NEW x \in Nat PROVE Weigh(x, chunks[n]) \in Nat /\ n \in Nat /\ n - 1 \in Nat
      BY <2>1
    <3> DEFINE k == Len(chunks[n].data)
    <3>1. k \in Nat /\ Header \in Nat /\ n \in Nat /\ n - 1 \in Nat
      BY <2>1, VoramAssumption
    <3>2. Weigh(x, chunks[n]) = x + Header + k
      BY DEF Weigh
    <3> HIDE DEF k
    <3>. QED
      BY <3>1, <3>2
  <2>3. 0 \in Ok[0] /\ Ok[L] = Nat
    BY <2>1
  <2> HIDE DEF Ok, L
  <2>4. Weights!Fold(0, chunks) \in Ok[L]
    BY <2>1, <2>2, <2>3, Weights!FoldStays
  <2>. QED
    BY <1>1, <2>3, <2>4
<1>4. ASSUME NEW chunks \in Chunks, NEW c \in [id : Idents, data : Data]
      PROVE  Sum(Append(chunks, c)) = Sum(chunks) + Header + Len(c.data)
  <2> DEFINE L == Len(chunks)  more == Append(chunks, c)
  <2>1. L \in Nat /\ DOMAIN chunks = 1 .. L
    BY ChunkTyped
  <2>2. DOMAIN more = 1 .. L + 1 /\ (\A i \in 1 .. L : more[i] = chunks[i]) /\ more[L + 1] = c
        /\ more = [i \in 1 .. L + 1 |-> more[i]] /\ chunks = [i \in 1 .. L |-> chunks[i]]
    <3> DEFINE R == [id : Idents, data : Data]
    <3>1. chunks \in Seq(R) /\ c \in R
      BY DEF Chunks
    <3> HIDE DEF R
    <3>2. more \in Seq(R) /\ Len(more) = L + 1 /\ (\A i \in 1 .. L : more[i] = chunks[i]) /\ more[L + 1] = c
      BY <3>1, AppendProperties
    <3>3. more \in [1 .. L + 1 -> R] /\ chunks \in [1 .. L -> R]
      BY <3>1, <3>2, LenProperties
    <3> HIDE DEF more, L
    <3>. QED
      BY <3>2, <3>3
  <2> HIDE DEF more, L
  <2>3. Weights!Prefix(more, L + 1) = more /\ Weights!Prefix(more, L) = chunks
    BY <2>1, <2>2 DEF Weights!Prefix
  <2>4. Weights!Fold(0, Weights!Prefix(more, L + 1)) = Weigh(Weights!Fold(0, Weights!Prefix(more, (L + 1) - 1)), more[L + 1])
    <3>1. L + 1 \in Nat \ {0}
      BY <2>1
    <3>. QED
      BY <3>1, Weights!FoldGoesOn
  <2>5. (L + 1) - 1 = L
    BY <2>1
  <2>6. Sum(more) = Weigh(Sum(chunks), c)
    BY <1>1, <2>2, <2>3, <2>4, <2>5
  <2>. QED
    BY <2>6 DEF more, Weigh
<1>. QED
  BY <1>2, <1>3, <1>4

-----------------------------------------------------------------------------
\* Reading a node.
LEMMA TreeFacts ==
  ASSUME NEW m, Tree(m)
  PROVE  /\ m \in Mems /\ 0 \notin DOMAIN m.node /\ 0 \notin m.buffer /\ m.buffer \subseteq DOMAIN m.node
         /\ \A q : q \in DOMAIN m.keys <=> q \in Nat /\ (q = 1 \/ q \div 2 \in m.buffer)
         /\ \A p \in m.buffer : p > 1 => p \div 2 \in m.buffer
         /\ \A p \in DOMAIN m.node : p > 1 => p \div 2 \in DOMAIN m.node
         /\ \A p \in DOMAIN m.node \ m.buffer :
               /\ p = 1 \/ p \div 2 \in m.buffer => m.keys[p]
               /\ p # 1 /\ p \div 2 \notin m.buffer => m.node[p \div 2].kids[Side(p)]
         /\ \A p \in DOMAIN m.node : Fits(m.node[p], p)
         /\ m.fault = FALSE
BY DEF Tree, Keyed, Locked, ParentClosed, Mems

LEMMA ReadKeeps ==
  ASSUME NEW m, Tree(m), NEW p \in DOMAIN m.node, p = 1 \/ p \div 2 \in m.buffer
  PROVE  LET n == ReadNode(m, p)
         IN  /\ Tree(n) /\ n.buffer = m.buffer \cup {p} /\ n.node = m.node /\ n.levels = m.levels
             /\ StoredIn(n) = StoredIn(m)
             /\ \A id \in Idents : p \notin m.buffer =>
                   At(n.stash, id) = At(m.stash, id) \o PiecesOf(m.node[p].chunks, id)
<1> DEFINE n == ReadNode(m, p)
<1>t. /\ m \in Mems /\ 0 \notin DOMAIN m.node /\ 0 \notin m.buffer /\ m.buffer \subseteq DOMAIN m.node
      /\ \A q : q \in DOMAIN m.keys <=> q \in Nat /\ (q = 1 \/ q \div 2 \in m.buffer)
      /\ \A q \in m.buffer : q > 1 => q \div 2 \in m.buffer
      /\ \A q \in DOMAIN m.node \ m.buffer :
            /\ q = 1 \/ q \div 2 \in m.buffer => m.keys[q]
            /\ q # 1 /\ q \div 2 \notin m.buffer => m.node[q \div 2].kids[Side(q)]
      /\ m.fault = FALSE
  BY TreeFacts
<1>m. /\ m.node \in Partial(Nat, NodeRecs) /\ DOMAIN m.node \subseteq Nat
      /\ \A q \in DOMAIN m.node : m.node[q].chunks \in Chunks /\ m.node[q].kids \in BOOLEAN \X BOOLEAN
      /\ m.keys \in Partial(Nat, BOOLEAN) /\ m.stash \in Stashes /\ m.buffer \in SUBSET Nat
  BY <1>t, MemTyped
<1>1. CASE p \in m.buffer
  <2>1. n = m /\ m.buffer \cup {p} = m.buffer
    BY <1>1 DEF ReadNode
  <2> HIDE DEF n
  <2>. QED
    BY <1>1, <2>1 DEF n
<1>2. CASE p \notin m.buffer
  <2> DEFINE kids == m.node[p].kids  chunks == m.node[p].chunks
             some == Put(m.keys, 2 * p, kids[1])  keys == Put(some, 2 * p + 1, kids[2])
             stash == FoldLeft(Unpack, m.stash, chunks)
  <2>1. p \in Nat \ {0} /\ p \in DOMAIN m.keys /\ m.keys[p]
    BY <1>t, <1>m, <1>2
  <2>2. n = [m EXCEPT !.keys = keys, !.stash = stash, !.buffer = m.buffer \cup {p}]
    BY <1>2, <2>1 DEF ReadNode
  <2>3. kids[1] \in BOOLEAN /\ kids[2] \in BOOLEAN /\ chunks \in Chunks
    BY <1>m
  <2>4. /\ stash \in Stashes /\ DOMAIN stash = DOMAIN m.stash \cup {c.id : c \in ToSet(chunks)}
        /\ \A id \in Idents : At(stash, id) = At(m.stash, id) \o PiecesOf(chunks, id)
    BY <1>m, <2>3, UnpackAll
  <2>5. keys \in Partial(Nat, BOOLEAN)
    <3>1. some \in Partial(Nat, BOOLEAN)
      BY <1>m, <2>1, <2>3, PutTyped
    <3>2. 2 * p + 1 \in Nat
      BY <2>1
    <3> HIDE DEF some
    <3>. QED
      BY <2>3, <3>1, <3>2, PutTyped
  <2>6. /\ DOMAIN keys = {2 * p, 2 * p + 1} \cup DOMAIN m.keys
        /\ keys[2 * p] = kids[1] /\ keys[2 * p + 1] = kids[2]
        /\ \A q \in DOMAIN m.keys : q \notin {2 * p, 2 * p + 1} => keys[q] = m.keys[q]
    <3>1. 2 * p # 2 * p + 1
      BY <2>1
    <3>2. /\ DOMAIN some = {2 * p} \cup DOMAIN m.keys /\ some[2 * p] = kids[1]
          /\ \A q \in DOMAIN m.keys : q # 2 * p => some[q] = m.keys[q]
      BY DEF Put, Over
    <3> HIDE DEF some, kids
    <3>3. /\ DOMAIN keys = {2 * p + 1} \cup DOMAIN some /\ keys[2 * p + 1] = kids[2]
          /\ \A q \in DOMAIN some : q # 2 * p + 1 => keys[q] = some[q]
      BY DEF Put, Over
    <3>. QED
      BY <3>1, <3>2, <3>3
  <2> HIDE DEF keys, stash, some
  <2>7. /\ n.keys = keys /\ n.stash = stash /\ n.buffer = m.buffer \cup {p} /\ n.node = m.node
        /\ n.levels = m.levels /\ n.fault = m.fault /\ n \in Mems
    <3> HIDE DEF n
    <3>1. m.buffer \cup {p} \in SUBSET Nat
      BY <1>m, <2>1
    <3>2. n \in Mems
      BY <1>t, <2>2, <2>4, <2>5, <3>1 DEF Mems
    <3>3. /\ n.keys = keys /\ n.stash = stash /\ n.buffer = m.buffer \cup {p} /\ n.node = m.node
          /\ n.levels = m.levels /\ n.fault = m.fault
      BY <1>t, <2>2 DEF Mems
    <3>. QED
      BY <3>2, <3>3
  <2> HIDE DEF n
  <2>8. ParentClosed(n.buffer)
    BY <1>t, <2>7 DEF ParentClosed
  <2>9. Keyed(n)
    <3>1. \A q \in Nat : q \div 2 = p <=> q \in {2 * p, 2 * p + 1}
      BY <2>1, Children
    <3>2. 2 * p \in Nat /\ 2 * p + 1 \in Nat
      BY <2>1
    <3>. QED
      <4> SUFFICES ASSUME NEW q PROVE q \in DOMAIN keys <=> q \in Nat /\ (q = 1 \/ q \div 2 \in m.buffer \cup {p})
        BY <2>7 DEF Keyed
      <4>1. q \in DOMAIN m.keys <=> q \in Nat /\ (q = 1 \/ q \div 2 \in m.buffer)
        BY <1>t
      <4>2. q \in DOMAIN keys <=> q \in {2 * p, 2 * p + 1} \/ q \in DOMAIN m.keys
        BY <2>6
      <4>. QED
        BY <3>1, <3>2, <4>1, <4>2
  <2>10. Locked(n)
    <3> SUFFICES ASSUME NEW q \in DOMAIN m.node \ n.buffer
                 PROVE  IF q = 1 \/ q \div 2 \in n.buffer THEN keys[q] ELSE m.node[q \div 2].kids[Side(q)]
      BY <2>7 DEF Locked
    <3>1. q \in Nat \ {0} /\ q \notin m.buffer /\ q # p
      BY <1>t, <1>m, <2>7
    <3>2. CASE q \div 2 = p
      <4>1. q \in {2 * p, 2 * p + 1} /\ q # 1 /\ q \div 2 \notin m.buffer
        BY <1>2, <2>1, <3>1, <3>2, Children
      <4>2. kids[Side(q)]
        BY <1>t, <3>1, <3>2, <4>1
      <4>3. (q = 2 * p => Side(q) = 1) /\ (q = 2 * p + 1 => Side(q) = 2)
        BY <2>1 DEF Side
      <4> HIDE DEF kids
      <4>. QED
        BY <2>6, <2>7, <3>2, <4>1, <4>2, <4>3
    <3>3. CASE q \div 2 # p
      <4>1. q \notin {2 * p, 2 * p + 1}
        BY <2>1, <3>1, <3>3, Children
      <4>. QED
        BY <1>t, <2>6, <2>7, <3>1, <3>3, <4>1
    <3>. QED
      BY <3>2, <3>3
  <2>11. Tree(n)
    <3>1. /\ 0 \notin DOMAIN n.node /\ ParentClosed(DOMAIN n.node) /\ \A q \in DOMAIN n.node : Fits(n.node[q], q)
      BY <2>7 DEF Tree
    <3>. QED
      BY <1>t, <2>7, <2>8, <2>9, <2>10, <3>1 DEF Tree
  <2>12. StoredIn(n) = StoredIn(m)
    <3>1. \A x : ChunkIds(x) = {c.id : c \in ToSet(x.chunks)}
      BY DEF ChunkIds
    <3>2. DOMAIN stash = DOMAIN m.stash \cup ChunkIds(m.node[p])
      BY <2>4, <3>1
    <3>3. DOMAIN m.node \ m.buffer = (DOMAIN n.node \ n.buffer) \cup {p}
      BY <1>2, <2>7
    <3>. QED
      BY <2>7, <3>2, <3>3 DEF StoredIn
  <2>. QED
    BY <2>4, <2>7, <2>11, <2>12 DEF n
<1>. QED
  BY <1>1, <1>2

-----------------------------------------------------------------------------
\* A chunk more at the end of a node.
IdsIn(chunks) == {c.id : c \in ToSet(chunks)}

LEMMA ChunkMore ==
  ASSUME NEW chunks \in Chunks, NEW c \in [id : Idents, data : Data]
  PROVE  /\ Append(chunks, c) \in Chunks /\ ToSet(Append(chunks, c)) = ToSet(chunks) \cup {c}
         /\ IdsIn(Append(chunks, c)) = IdsIn(chunks) \cup {c.id}
         /\ \A id : PiecesOf(Append(chunks, c), id) =
                       PiecesOf(chunks, id) \o (IF c.id = id THEN c.data ELSE << >>)
<1> DEFINE R == [id : Idents, data : Data]  L == Len(chunks)  more == Append(chunks, c)
<1>1. chunks \in Seq(R) /\ c \in R
  BY DEF Chunks
<1>2. L \in Nat
  BY ChunkTyped
<1>3. more \in Seq(R) /\ Len(more) = L + 1 /\ (\A i \in 1 .. L : more[i] = chunks[i]) /\ more[L + 1] = c
  <2> HIDE DEF R
  <2>. QED
    BY <1>1, AppendProperties
<1>4. more \in Chunks
  BY <1>3 DEF Chunks
<1>5. DOMAIN more = 1 .. L + 1 /\ DOMAIN chunks = 1 .. L
  BY <1>3, <1>4, ChunkTyped
<1> HIDE DEF more, L, R
<1>6. ToSet(more) = ToSet(chunks) \cup {c}
  <2>1. 1 .. L + 1 = (1 .. L) \cup {L + 1}
    BY <1>2
  <2>. QED
    BY <1>3, <1>5, <2>1 DEF ToSet
<1>7. IdsIn(more) = IdsIn(chunks) \cup {c.id}
  BY <1>6 DEF IdsIn
<1>8. ASSUME NEW id
      PROVE  PiecesOf(more, id) = PiecesOf(chunks, id) \o (IF c.id = id THEN c.data ELSE << >>)
  <2>1. PiecesOf(more, id) = Upto(more, id, L + 1) /\ PiecesOf(chunks, id) = Upto(chunks, id, L)
    BY <1>3, <1>4, PiecesFacts DEF L
  <2>2. L + 1 \in 1 .. Len(more) /\ (L + 1) - 1 = L
    BY <1>2, <1>3
  <2>3. Upto(more, id, L + 1) = Upto(more, id, L) \o Parts(more, id)[L + 1]
    <3>1. \A n \in 1 .. Len(more) : Upto(more, id, n) = Upto(more, id, n - 1) \o Parts(more, id)[n]
      BY <1>4, PiecesFacts
    <3>2. Upto(more, id, L + 1) = Upto(more, id, (L + 1) - 1) \o Parts(more, id)[L + 1]
      BY <2>2, <3>1
    <3>. QED
      BY <2>2, <3>2
  <2>4. Parts(more, id)[L + 1] = IF c.id = id THEN c.data ELSE << >>
    BY <1>2, <1>3, <1>5 DEF Parts
  <2>5. Upto(more, id, L) = Upto(chunks, id, L)
    <3>1. \A i \in 1 .. L : Parts(more, id)[i] = Parts(chunks, id)[i]
      BY <1>2, <1>3, <1>5 DEF Parts
    <3>2. Joins!Prefix(Parts(more, id), L) = Joins!Prefix(Parts(chunks, id), L)
      BY <3>1 DEF Joins!Prefix
    <3>. QED
      BY <3>2 DEF Upto
  <2>. QED
    BY <2>1, <2>3, <2>4, <2>5
<1>. QED
  BY <1>4, <1>6, <1>7, <1>8 DEF more

\* There is nothing of a blob that has no chunk.
LEMMA NoPieces ==
  ASSUME NEW chunks \in Chunks, NEW id, id \notin IdsIn(chunks)
  PROVE  PiecesOf(chunks, id) = << >>
<1> DEFINE L == Len(chunks)  parts == Parts(chunks, id)  Ok == [n \in Nat |-> {<< >>}]
<1>1. L \in Nat /\ DOMAIN chunks = 1 .. L
  BY ChunkTyped
<1>2. DOMAIN parts = 1 .. L /\ \A i \in 1 .. L : parts[i] = << >>
  BY <1>1 DEF Parts, IdsIn, ToSet
<1>3. Concat(<< >>, << >>) = << >>
  BY NoData DEF Concat
<1>4. \A n \in 1 .. L : \A x \in Ok[n - 1] : Concat(x, parts[n]) \in Ok[n]
  BY <1>1, <1>2, <1>3
<1>5. << >> \in Ok[0] /\ Ok[L] = {<< >>}
  BY <1>1
<1>6. PiecesOf(chunks, id) = Joins!Fold(<< >>, parts)
  BY DEF PiecesOf, Parts, FoldLeft, Joins!Fold, Joins!MapThenFoldSet, MapThenFoldSet, Max, Joins!Latest
<1> HIDE DEF parts, L, Ok
<1>7. Joins!Fold(<< >>, parts) \in Ok[L]
  BY <1>1, <1>2, <1>4, <1>5, Joins!FoldStays
<1>. QED
  BY <1>5, <1>6, <1>7

\* The end of data, and what is left.
LEMMA CutFacts ==
  ASSUME NEW d \in Data, NEW k \in 0 .. Len(d)
  PROVE  /\ SubSeq(d, 1, Len(d) - k) \in Data /\ LastBytes(d, k) \in Data /\ Len(LastBytes(d, k)) = k
         /\ SubSeq(d, 1, Len(d) - k) \o LastBytes(d, k) = d
         /\ k = Len(d) => LastBytes(d, k) = d
<1> DEFINE L == Len(d)
<1>1. d \in Seq(Bytes) /\ L \in Nat /\ k \in Nat /\ k <= L
  BY LenProperties DEF Data
<1>2. \A i \in 1 .. L : d[i] \in Bytes
  BY <1>1, ElementOfSeq
<1>3. /\ 1 \in Int /\ L - k \in Int /\ L \in Int /\ L - k + 1 \in Int
      /\ \A i \in 1 .. L - k : i \in 1 .. L
      /\ \A i \in L - k + 1 .. L : i \in 1 .. L
  BY <1>1
<1>4. SubSeq(d, 1, L - k) \in Seq(Bytes)
  <2>1. \A i \in 1 .. L - k : d[i] \in Bytes
    BY <1>2, <1>3
  <2> HIDE DEF L
  <2>. QED
    BY <1>3, <2>1, SubSeqProperties
<1>5. SubSeq(d, L - k + 1, L) \in Seq(Bytes) /\ Len(SubSeq(d, L - k + 1, L)) = k
  <2>1. \A i \in L - k + 1 .. L : d[i] \in Bytes
    BY <1>2, <1>3
  <2>2. IF L - k + 1 <= L THEN L - (L - k + 1) + 1 = k ELSE 0 = k
    BY <1>1
  <2> HIDE DEF L
  <2> DEFINE a == L - k + 1
  <2>3. a \in Int /\ \A i \in a .. L : d[i] \in Bytes
    BY <1>3, <2>1
  <2> HIDE DEF a
  <2>4. SubSeq(d, a, L) \in Seq(Bytes) /\ Len(SubSeq(d, a, L)) = IF a <= L THEN L - a + 1 ELSE 0
    BY <1>3, <2>3, SubSeqProperties
  <2>. QED
    BY <2>2, <2>4 DEF a
<1>6. SubSeq(d, 1, L) = d
  BY <1>1, SubSeqFull
<1>7. SubSeq(d, 1, L - k) \o SubSeq(d, L - k + 1, L) = d
  <2> DEFINE j == L - k
  <2>1. 1 \in 1 .. L + 1 /\ j \in 1 - 1 .. L /\ L \in j .. L
    BY <1>1
  <2> HIDE DEF j
  <2>2. SubSeq(d, 1, j) \o SubSeq(d, j + 1, L) = SubSeq(d, 1, L)
    BY <1>1, <2>1, ConcatAdjacentSubSeq
  <2>. QED
    BY <1>6, <2>2, Zenon DEF j
<1>8. k = L => L - k + 1 = 1
  BY <1>1
<1>9. LastBytes(d, k) = SubSeq(d, L - k + 1, L)
  BY DEF LastBytes
<1>10. k = L => LastBytes(d, k) = d
  BY <1>6, <1>8, <1>9, Zenon
<1>. QED
  BY <1>4, <1>5, <1>7, <1>9, <1>10, Zenon DEF Data

-----------------------------------------------------------------------------
\* A node that is being filled, and the stash it is filled from.
Half(p, stash) ==
    {n \in [at : {p}, room : Nat, chunks : Chunks, stash : Stashes] :
        /\ n.room + Sum(n.chunks) = Room
        /\ \A c \in ToSet(n.chunks) : OnPath(c.id, p)
        /\ DOMAIN n.stash \cup IdsIn(n.chunks) = DOMAIN stash
        /\ \A id \in Idents : At(n.stash, id) \o PiecesOf(n.chunks, id) = At(stash, id)
        /\ ~Closed(n) => IdsIn(n.chunks) \cap DOMAIN n.stash = {}}

LEMMA Smaller ==
  ASSUME NEW a \in Nat, NEW b \in Nat
  PROVE  Min({a, b}) = IF a <= b THEN a ELSE b
<1> DEFINE x == IF a <= b THEN a ELSE b
<1>1. x \in {a, b} /\ \A y \in {a, b} : x <= y
  OBVIOUS
<1>2. \A z \in {a, b} : (\A y \in {a, b} : z <= y) => z = x
  OBVIOUS
<1> HIDE DEF x
<1>3. Min({a, b}) = x
  BY <1>1, <1>2 DEF Min
<1>. QED
  BY <1>3 DEF x

LEMMA PackKeeps ==
  ASSUME NEW p, NEW stash \in Stashes, NEW n \in Half(p, stash), NEW id
  PROVE  /\ Pack(n, id) \in Half(p, stash)
         /\ DOMAIN Pack(n, id).stash \subseteq DOMAIN n.stash
         /\ Closed(n) => Pack(n, id) = n
         /\ Closed(Pack(n, id)) \/ ~Eligible(Pack(n, id), id)
<1>n. /\ n \in [at : {p}, room : Nat, chunks : Chunks, stash : Stashes]
      /\ n.at = p /\ n.room \in Nat /\ n.chunks \in Chunks /\ n.stash \in Stashes
      /\ n.room + Sum(n.chunks) = Room
      /\ \A c \in ToSet(n.chunks) : OnPath(c.id, p)
      /\ DOMAIN n.stash \cup IdsIn(n.chunks) = DOMAIN stash
      /\ \A i \in Idents : At(n.stash, i) \o PiecesOf(n.chunks, i) = At(stash, i)
      /\ ~Closed(n) => IdsIn(n.chunks) \cap DOMAIN n.stash = {}
  BY DEF Half
<1>1. CASE Closed(n) \/ ~Eligible(n, id)
  BY <1>1 DEF Pack
<1>2. CASE ~Closed(n) /\ Eligible(n, id)
  <2> DEFINE data == n.stash[id]  L == Len(data)  k == Taken(n, data)
             c == [id |-> id, data |-> LastBytes(data, k)]
             rest == IF k = L THEN Without(n.stash, {id}) ELSE [n.stash EXCEPT ![id] = SubSeq(data, 1, L - k)]
             room == n.room - Header - k
             t == Pack(n, id)
  <2>1. id \in DOMAIN n.stash /\ id \in Idents /\ OnPath(id, p) /\ data \in Data /\ n.room > Header
    <3>1. DOMAIN n.stash \subseteq Idents /\ \A i \in DOMAIN n.stash : n.stash[i] \in Data
      BY <1>n, PartialFacts DEF Stashes
    <3>2. Header \in Nat
      BY VoramAssumption
    <3>. QED
      BY <1>2, <1>n, <3>1, <3>2 DEF Eligible, Closed
  <2>2. L \in Nat /\ Header \in Nat
    BY <2>1, LenProperties, VoramAssumption DEF Data
  <2>3. /\ k \in 0 .. L /\ k + Header <= n.room
        /\ k # L => k + Header = n.room
    <3> DEFINE a == n.room - Header
    <3>1. a \in Nat
      BY <1>n, <2>1, <2>2
    <3> HIDE DEF data
    <3>2. k = Min({a, L})
      BY DEF Taken
    <3>3. k = IF a <= L THEN a ELSE L
      BY <2>2, <3>1, <3>2, Smaller
    <3>4. a \in Nat /\ L \in Nat /\ Header \in Nat /\ a + Header = n.room /\ k = IF a <= L THEN a ELSE L
      BY <1>n, <2>1, <2>2, <3>1, <3>3
    <3> HIDE DEF a, k, L
    <3>. QED
      BY ONLY <3>4
  <2>4. t = [n EXCEPT !.room = room, !.chunks = Append(n.chunks, c), !.stash = rest]
    BY <1>2 DEF Pack
  <2> HIDE DEF data, k
  <2>5. /\ SubSeq(data, 1, L - k) \in Data /\ LastBytes(data, k) \in Data /\ Len(LastBytes(data, k)) = k
        /\ SubSeq(data, 1, L - k) \o LastBytes(data, k) = data
        /\ k = L => LastBytes(data, k) = data
    BY <2>1, <2>3, CutFacts
  <2>6. c \in [id : Idents, data : Data] /\ c.id = id /\ Len(c.data) = k
    BY <2>1, <2>5
  <2>7. /\ Append(n.chunks, c) \in Chunks /\ ToSet(Append(n.chunks, c)) = ToSet(n.chunks) \cup {c}
        /\ IdsIn(Append(n.chunks, c)) = IdsIn(n.chunks) \cup {id}
        /\ \A i : PiecesOf(Append(n.chunks, c), i) =
                     PiecesOf(n.chunks, i) \o (IF id = i THEN c.data ELSE << >>)
    <3>1. n.chunks \in Chunks /\ c \in [id : Idents, data : Data] /\ c.id = id
      BY <1>n, <2>6
    <3> HIDE DEF c
    <3>. QED
      BY <3>1, ChunkMore
  <2>8. Sum(Append(n.chunks, c)) = Sum(n.chunks) + Header + k /\ Sum(n.chunks) \in Nat
    BY <1>n, <2>6, UsedFacts
  <2>9. room \in Nat /\ room + Sum(Append(n.chunks, c)) = Room /\ (k # L => room = 0)
    <3> DEFINE u == Sum(n.chunks)  v == Sum(Append(n.chunks, c))
    <3>1. v = u + Header + k /\ u \in Nat /\ n.room + u = Room /\ n.room \in Nat /\ Header \in Nat /\ k \in Nat
          /\ k + Header <= n.room
      BY <1>n, <2>2, <2>3, <2>8
    <3> HIDE DEF u, v, L
    <3>2. room \in Nat /\ room + v = Room
      BY <3>1
    <3>3. k # L => room = 0
      BY <2>3, <3>1
    <3>. QED
      BY <3>2, <3>3 DEF v
  <2>10. /\ rest \in Stashes /\ DOMAIN rest = IF k = L THEN DOMAIN n.stash \ {id} ELSE DOMAIN n.stash
         /\ \A i \in DOMAIN n.stash : i # id => i \in DOMAIN rest /\ rest[i] = n.stash[i]
         /\ k # L => rest[id] = SubSeq(data, 1, L - k)
    <3>1. DOMAIN n.stash \subseteq Idents /\ \A i \in DOMAIN n.stash : n.stash[i] \in Data
      BY <1>n, PartialFacts DEF Stashes
    <3>2. CASE k = L
      <4>1. /\ rest = Without(n.stash, {id}) /\ rest \in Stashes /\ DOMAIN rest = DOMAIN n.stash \ {id}
            /\ \A z \in DOMAIN n.stash \ {id} : rest[z] = n.stash[z]
        <5>1. rest = Without(n.stash, {id})
          BY <3>2
        <5>2. n.stash \in Partial(Idents, Data)
          BY <1>n DEF Stashes
        <5> HIDE DEF rest
        <5>3. rest \in Partial(Idents, Data)
          BY <5>1, <5>2, WithoutTyped
        <5>4. DOMAIN rest = DOMAIN n.stash \ {id} /\ \A z \in DOMAIN n.stash \ {id} : rest[z] = n.stash[z]
          BY <5>1 DEF Without
        <5>. QED
          BY <5>1, <5>3, <5>4 DEF Stashes
      <4>. QED
        BY <3>2, <4>1
    <3>3. CASE k # L
      <4> DEFINE d == SubSeq(data, 1, L - k)
      <4>1. rest = [n.stash EXCEPT ![id] = d] /\ d \in Data
        BY <2>5, <3>3
      <4> HIDE DEF d, rest
      <4>2. rest \in [DOMAIN n.stash -> Data] /\ rest[id] = d /\ \A i \in DOMAIN n.stash : i # id => rest[i] = n.stash[i]
        <5>1. n.stash \in [DOMAIN n.stash -> Data]
          BY <1>n, PartialFacts DEF Stashes
        <5>. QED
          BY <2>1, <4>1, <5>1
      <4>3. DOMAIN rest = DOMAIN n.stash
        BY <4>2
      <4>4. rest \in Stashes
        BY <3>1, <4>2, <4>3, PartialFacts DEF Stashes
      <4>. QED
        BY <3>3, <4>2, <4>3, <4>4 DEF d
    <3>. QED
      BY <3>2, <3>3
  <2> HIDE DEF rest, room, c, t
  <2>11. /\ t.at = p /\ t.room = room /\ t.chunks = Append(n.chunks, c) /\ t.stash = rest
         /\ t \in [at : {p}, room : Nat, chunks : Chunks, stash : Stashes]
    BY <1>n, <2>4, <2>7, <2>9, <2>10
  <2>12. DOMAIN t.stash \cup IdsIn(t.chunks) = DOMAIN stash
    <3> DEFINE D == DOMAIN n.stash  I == IdsIn(n.chunks)
    <3>1. id \in D /\ D \cup I = DOMAIN stash
      BY <1>n, <2>1
    <3>2. IdsIn(t.chunks) = I \cup {id}
      BY <2>7, <2>11
    <3>3. DOMAIN t.stash = D \/ DOMAIN t.stash = D \ {id}
      BY <2>10, <2>11
    <3> HIDE DEF D, I
    <3>. QED
      BY <3>1, <3>2, <3>3
  <2>13. id \notin IdsIn(n.chunks) /\ PiecesOf(n.chunks, id) = << >>
    BY <1>2, <1>n, <2>1, NoPieces
  <2>14. ASSUME NEW i \in Idents PROVE At(t.stash, i) \o PiecesOf(t.chunks, i) = At(stash, i)
    <3>0. At(n.stash, i) \o PiecesOf(n.chunks, i) = At(stash, i)
      BY <1>n
    <3>p. PiecesOf(t.chunks, i) = PiecesOf(n.chunks, i) \o (IF id = i THEN c.data ELSE << >>)
      BY <2>7, <2>11
    <3>d. PiecesOf(n.chunks, i) \in Data /\ c.data \in Data
      <4>1. PiecesOf(n.chunks, i) = Upto(n.chunks, i, Len(n.chunks)) /\ \A j \in 0 .. Len(n.chunks) : Upto(n.chunks, i, j) \in Data
        BY <1>n, PiecesFacts
      <4>2. Len(n.chunks) \in 0 .. Len(n.chunks)
        BY <1>n, ChunkTyped
      <4>. QED
        BY <2>6, <4>1, <4>2
    <3>1. CASE i # id
      <4>1. At(t.stash, i) = At(n.stash, i)
        BY <2>10, <2>11, <3>1 DEF At
      <4>2. PiecesOf(t.chunks, i) = PiecesOf(n.chunks, i)
        BY <3>1, <3>p, <3>d, NoData
      <4>. QED
        BY <3>0, <4>1, <4>2
    <3>2. CASE i = id
      <4>1. PiecesOf(t.chunks, i) = c.data
        BY <2>13, <3>2, <3>p, <3>d, NoData
      <4>2. At(n.stash, i) = data /\ At(stash, i) = data
        <5>1. At(n.stash, i) = data
          BY <2>1, <3>2 DEF At, data
        <5>2. PiecesOf(n.chunks, i) = << >>
          BY <2>13, <3>2
        <5>3. data \o << >> = data
          BY <2>1, NoData
        <5>. QED
          BY <3>0, <5>1, <5>2, <5>3, Zenon
      <4>3. CASE k = L
        <5>1. At(t.stash, i) = << >>
          BY <2>10, <2>11, <3>2, <4>3 DEF At
        <5>2. c.data = data
          BY <2>5, <4>3 DEF c
        <5>3. << >> \o data = data
          BY <2>1, NoData
        <5>. QED
          BY <4>1, <4>2, <5>1, <5>2, <5>3, Zenon
      <4>4. CASE k # L
        <5>1. At(t.stash, i) = SubSeq(data, 1, L - k)
          BY <2>1, <2>10, <2>11, <3>2, <4>4 DEF At
        <5>2. c.data = LastBytes(data, k)
          BY DEF c
        <5>. QED
          BY <2>5, <4>1, <4>2, <5>1, <5>2, Zenon
      <4>. QED
        BY <4>3, <4>4
    <3>. QED
      BY <3>1, <3>2
  <2>15. Closed(t) <=> room <= Header
    BY <2>11 DEF Closed
  <2>16. k # L => Closed(t)
    BY <2>2, <2>9, <2>15
  <2>17. k = L => IdsIn(t.chunks) \cap DOMAIN t.stash = {} /\ id \notin DOMAIN t.stash
    BY <1>2, <1>n, <2>7, <2>10, <2>11
  <2>18. \A x \in ToSet(t.chunks) : OnPath(x.id, p)
    BY <1>n, <2>1, <2>6, <2>7, <2>11
  <2>19. t \in Half(p, stash)
    BY <2>9, <2>11, <2>12, <2>14, <2>16, <2>17, <2>18 DEF Half
  <2>20. DOMAIN t.stash \subseteq DOMAIN n.stash
    BY <2>10, <2>11
  <2>21. Closed(t) \/ ~Eligible(t, id)
    BY <2>16, <2>17 DEF Eligible
  <2>. QED
    BY <1>2, <2>19, <2>20, <2>21 DEF t
<1>. QED
  BY <1>1, <1>2

\* _writenode fills a node as far as it goes.
LEMMA FilledFacts ==
  ASSUME NEW m, m.stash \in Stashes, NEW p, NEW order, NEW L \in Nat, DOMAIN order = 1 .. L
  PROVE  LET n == Filled(m, p, order)
         IN  /\ n \in Half(p, m.stash) /\ DOMAIN n.stash \subseteq DOMAIN m.stash
             /\ \A j \in 1 .. L : Closed(n) \/ ~Eligible(n, order[j])
<1> DEFINE none == [at |-> p, room |-> Room, chunks |-> << >>, stash |-> m.stash]
           Good(i) == {n \in Half(p, m.stash) : Closed(n) \/ \A j \in 1 .. i : ~Eligible(n, order[j])}
           Ok == [i \in Nat |-> Good(i)]
<1>1. none \in Half(p, m.stash)
  <2>1. << >> \in Chunks /\ ToSet(<< >>) = {} /\ IdsIn(<< >>) = {} /\ Sum(<< >>) = 0
    BY EmptySeq, UsedFacts DEF Chunks, ToSet, IdsIn
  <2>2. \A id \in Idents : At(m.stash, id) \o PiecesOf(<< >>, id) = At(m.stash, id)
    <3> SUFFICES ASSUME NEW id \in Idents PROVE At(m.stash, id) \o PiecesOf(<< >>, id) = At(m.stash, id)
      OBVIOUS
    <3>1. PiecesOf(<< >>, id) = << >>
      BY <2>1, NoPieces
    <3>2. At(m.stash, id) \in Data
      BY AtTyped
    <3>. QED
      BY <3>1, <3>2, NoData
  <2>3. Room \in Nat /\ Room + 0 = Room
    BY VoramAssumption
  <2>4. none.at = p /\ none.room = Room /\ none.chunks = << >> /\ none.stash = m.stash
        /\ none \in [at : {p}, room : Nat, chunks : Chunks, stash : Stashes]
    BY <2>1, <2>3
  <2> HIDE DEF none
  <2>5. /\ none.room + Sum(none.chunks) = Room
        /\ \A c \in ToSet(none.chunks) : OnPath(c.id, p)
        /\ DOMAIN none.stash \cup IdsIn(none.chunks) = DOMAIN m.stash
        /\ IdsIn(none.chunks) \cap DOMAIN none.stash = {}
    BY <2>1, <2>3, <2>4
  <2>6. \A id \in Idents : At(none.stash, id) \o PiecesOf(none.chunks, id) = At(m.stash, id)
    BY <2>2, <2>4
  <2>. QED
    BY <2>4, <2>5, <2>6 DEF Half
<1>2. none \in Good(0)
  BY <1>1
<1>3. ASSUME NEW i \in 1 .. L, NEW n \in Good(i - 1) PROVE Pack(n, order[i]) \in Good(i)
  <2> DEFINE t == Pack(n, order[i])
  <2>1. /\ t \in Half(p, m.stash) /\ DOMAIN t.stash \subseteq DOMAIN n.stash
        /\ Closed(n) => t = n
        /\ Closed(t) \/ ~Eligible(t, order[i])
    BY PackKeeps
  <2>2. CASE Closed(n)
    BY <2>1, <2>2
  <2>3. CASE ~Closed(n) /\ ~Closed(t)
    <3>1. ASSUME NEW j \in 1 .. i PROVE ~Eligible(t, order[j])
      <4>1. CASE j = i
        BY <2>1, <2>3, <4>1
      <4>2. CASE j # i
        <5>1. j \in 1 .. i - 1
          BY <4>2
        <5>2. ~Eligible(n, order[j]) /\ n.at = p /\ t.at = p
          BY <2>1, <2>3, <5>1 DEF Half
        <5>. QED
          BY <2>1, <5>2 DEF Eligible
      <4>. QED
        BY <4>1, <4>2
    <3>. QED
      BY <2>1, <3>1
  <2>. QED
    BY <2>1, <2>2, <2>3
<1> HIDE DEF Good, none
<1>4. Packing!Fold(none, order) \in Ok[L]
  <2>1. none \in Ok[0]
    BY <1>2
  <2>2. \A i \in 1 .. L : \A x \in Ok[i - 1] : Pack(x, order[i]) \in Ok[i]
    BY <1>3
  <2> HIDE DEF Ok
  <2>. QED
    BY <2>1, <2>2, Packing!FoldStays
<1>5. Filled(m, p, order) \in Good(L)
  BY <1>4 DEF Filled, none, FoldLeft, Packing!Fold, Packing!MapThenFoldSet, MapThenFoldSet, Max, Packing!Latest
<1>. QED
  BY <1>5 DEF Good, Half

-----------------------------------------------------------------------------
\* Sequences of two.
LEMMA Pairs == ASSUME NEW k \in Seq(BOOLEAN), Len(k) = 2 PROVE k \in BOOLEAN \X BOOLEAN
OBVIOUS

\* A key is changed: its copy in the parent no longer fits.
LEMMA OutdatedFacts ==
  ASSUME NEW node \in Partial(Nat, NodeRecs), NEW p \in Nat \ {0}, p = 1 \/ p \div 2 \in DOMAIN node
  PROVE  /\ Outdated(node, p) \in Partial(Nat, NodeRecs) /\ DOMAIN Outdated(node, p) = DOMAIN node
         /\ \A q \in DOMAIN node : /\ Outdated(node, p)[q].chunks = node[q].chunks
                                   /\ p = 1 \/ q # p \div 2 => Outdated(node, p)[q] = node[q]
<1>1. DOMAIN node \subseteq Nat /\ node \in [DOMAIN node -> NodeRecs]
  BY PartialFacts
<1>2. CASE p = 1
  BY <1>2 DEF Outdated
<1>3. CASE p # 1
  <2> DEFINE h == p \div 2  kids == [node[h].kids EXCEPT ![Side(p)] = FALSE]
             r == [node[h] EXCEPT !.kids = kids]  out == Outdated(node, p)
  <2>1. h \in DOMAIN node /\ node[h] \in NodeRecs /\ node[h].kids \in BOOLEAN \X BOOLEAN /\ node[h].chunks \in Chunks
    <3>1. h \in DOMAIN node
      BY <1>3
    <3>2. \A n \in NodeRecs : n.kids \in BOOLEAN \X BOOLEAN /\ n.chunks \in Chunks
      BY DEF NodeRecs
    <3>. QED
      BY <1>1, <3>1, <3>2
  <2>2. Side(p) = 1 \/ Side(p) = 2
    BY DEF Side
  <2>3. kids \in BOOLEAN \X BOOLEAN
    <3>1. ASSUME NEW a \in BOOLEAN, NEW b \in BOOLEAN, NEW k, k = <<a, b>>
          PROVE  [k EXCEPT ![1] = FALSE] \in BOOLEAN \X BOOLEAN /\ [k EXCEPT ![2] = FALSE] \in BOOLEAN \X BOOLEAN
      <4>1. k \in Seq(BOOLEAN) /\ Len(k) = 2
        BY <3>1
      <4>3. /\ [k EXCEPT ![1] = FALSE] \in Seq(BOOLEAN) /\ Len([k EXCEPT ![1] = FALSE]) = 2
            /\ [k EXCEPT ![2] = FALSE] \in Seq(BOOLEAN) /\ Len([k EXCEPT ![2] = FALSE]) = 2
        <5>1. FALSE \in BOOLEAN
          OBVIOUS
        <5>2. /\ [k EXCEPT ![1] = FALSE] \in Seq(BOOLEAN) /\ Len([k EXCEPT ![1] = FALSE]) = Len(k)
              /\ [k EXCEPT ![2] = FALSE] \in Seq(BOOLEAN) /\ Len([k EXCEPT ![2] = FALSE]) = Len(k)
          BY <4>1, <5>1, ExceptSeq, SMTT(30)
        <5>. QED
          BY <4>1, <5>2
      <4>. QED
        BY <4>3, Pairs
    <3> DEFINE k == node[h].kids
    <3>2. PICK a, b \in BOOLEAN : k = <<a, b>>
      BY <2>1
    <3> HIDE DEF k
    <3>3. [k EXCEPT ![1] = FALSE] \in BOOLEAN \X BOOLEAN /\ [k EXCEPT ![2] = FALSE] \in BOOLEAN \X BOOLEAN
      BY <3>1, <3>2
    <3>. QED
      BY <2>2, <3>3 DEF k
  <2>4. out = [node EXCEPT ![h] = r]
    BY <1>3 DEF Outdated
  <2>5. r \in NodeRecs /\ r.chunks = node[h].chunks
    <3> HIDE DEF kids
    <3>. QED
      BY <2>1, <2>3 DEF NodeRecs
  <2> HIDE DEF r, out
  <2>6. out \in [DOMAIN node -> NodeRecs] /\ out[h] = r /\ \A q \in DOMAIN node : q # h => out[q] = node[q]
    BY <1>1, <2>1, <2>4, <2>5
  <2>7. out \in Partial(Nat, NodeRecs) /\ DOMAIN out = DOMAIN node
    BY <1>1, <2>6 DEF Partial
  <2>. QED
    BY <1>3, <2>5, <2>6, <2>7 DEF out
<1>. QED
  BY <1>2, <1>3

-----------------------------------------------------------------------------
\* Writing a node that was read, or a new leaf below one that was.
Writable(m, p, override) ==
    /\ \/ p \in m.buffer
       \/ override /\ IsLeaf(m, p) /\ p \notin DOMAIN m.node /\ p # 1 /\ p \div 2 \in m.buffer
    /\ 2 * p \notin m.buffer /\ 2 * p + 1 \notin m.buffer

Written(m, n, p, order) ==
    /\ Tree(n) /\ n.buffer = m.buffer \ {p} /\ n.levels = m.levels
    /\ DOMAIN n.node = {p} \cup DOMAIN m.node
    /\ \A q \in DOMAIN m.node : q # p => n.node[q].chunks = m.node[q].chunks
    /\ StoredIn(n) = StoredIn(m)
    /\ DOMAIN n.stash \subseteq DOMAIN m.stash
    /\ \A j \in DOMAIN order : order[j] \in DOMAIN n.stash /\ OnPath(order[j], p) =>
                                  Used(n.node[p]) + Header >= Room
    /\ \A id \in Idents : At(n.stash, id) \o PiecesOf(n.node[p].chunks, id) = At(m.stash, id)

LEMMA WriteKeeps ==
  ASSUME NEW m, Tree(m), NEW p \in Nat \ {0}, NEW order, NEW L \in Nat, DOMAIN order = 1 .. L,
         NEW override \in BOOLEAN, Writable(m, p, override)
  PROVE  Written(m, WriteNode(m, p, order, override), p, order)
<1>w. /\ \/ p \in m.buffer
         \/ override /\ IsLeaf(m, p) /\ p \notin DOMAIN m.node /\ p # 1 /\ p \div 2 \in m.buffer
      /\ 2 * p \notin m.buffer /\ 2 * p + 1 \notin m.buffer
  BY DEF Writable
<1> USE <1>w
<1> DEFINE n == WriteNode(m, p, order, override)  below == {2 * p, 2 * p + 1}
           full == Filled(m, p, order)
           KeyOf(q) == q \in DOMAIN m.keys /\ m.keys[q]
           rec == [kids |-> <<KeyOf(2 * p), KeyOf(2 * p + 1)>>, chunks |-> full.chunks]
           old == Outdated(m.node, p)  node == Put(old, p, rec)
           kept == Without(m.keys, below)  keys == Put(kept, p, TRUE)
<1>t. /\ m \in Mems /\ 0 \notin DOMAIN m.node /\ 0 \notin m.buffer /\ m.buffer \subseteq DOMAIN m.node
      /\ \A q : q \in DOMAIN m.keys <=> q \in Nat /\ (q = 1 \/ q \div 2 \in m.buffer)
      /\ \A q \in m.buffer : q > 1 => q \div 2 \in m.buffer
      /\ \A q \in DOMAIN m.node : q > 1 => q \div 2 \in DOMAIN m.node
      /\ \A q \in DOMAIN m.node \ m.buffer :
            /\ q = 1 \/ q \div 2 \in m.buffer => m.keys[q]
            /\ q # 1 /\ q \div 2 \notin m.buffer => m.node[q \div 2].kids[Side(q)]
      /\ \A q \in DOMAIN m.node : Fits(m.node[q], q)
      /\ m.fault = FALSE
  BY TreeFacts
<1>m. /\ m.node \in Partial(Nat, NodeRecs) /\ DOMAIN m.node \subseteq Nat
      /\ \A q \in DOMAIN m.node : m.node[q].chunks \in Chunks /\ m.node[q].kids \in BOOLEAN \X BOOLEAN
      /\ m.keys \in Partial(Nat, BOOLEAN) /\ \A q \in DOMAIN m.keys : m.keys[q] \in BOOLEAN
      /\ m.stash \in Stashes /\ m.buffer \in SUBSET Nat
  BY <1>t, MemTyped
<1>1. p = 1 \/ p \div 2 \in m.buffer
  BY <1>t
<1>2. p \in Nat /\ p # 0 /\ p \div 2 # p /\ 2 * p \in Nat /\ 2 * p + 1 \in Nat /\ p \notin below /\ 2 * p # 2 * p + 1
  BY Halves, SMTT(30)
<1>3. /\ \A q \in Nat : q \div 2 = p <=> q \in below
      /\ (2 * p) \div 2 = p /\ (2 * p + 1) \div 2 = p /\ Side(2 * p) = 1 /\ Side(2 * p + 1) = 2
  BY Children DEF Side
<1>4. p \notin m.buffer => p \notin DOMAIN m.node /\ \A q \in below : q \notin DOMAIN m.node
  <2> SUFFICES ASSUME p \notin m.buffer, NEW q \in below PROVE p \notin DOMAIN m.node /\ q \notin DOMAIN m.node
    OBVIOUS
  <2>1. q \div 2 = p /\ q > 1
    BY <1>2, <1>3
  <2>. QED
    BY <1>t, <2>1
<1>5. ~((~override /\ p \notin m.buffer) \/ (~IsLeaf(m, p) /\ ~(below \subseteq DOMAIN m.keys)))
  <2>1. ASSUME p \in m.buffer PROVE 2 * p \in DOMAIN m.keys /\ 2 * p + 1 \in DOMAIN m.keys
    BY <1>t, <1>2, <1>3, <2>1, ZenonT(60)
  <2>. QED
    BY <2>1
<1>6. n = [m EXCEPT !.node = node, !.keys = keys, !.stash = full.stash, !.buffer = m.buffer \ {p}]
  BY <1>5, Zenon DEF WriteNode
<1>7. /\ full \in Half(p, m.stash) /\ DOMAIN full.stash \subseteq DOMAIN m.stash
      /\ \A j \in 1 .. L : Closed(full) \/ ~Eligible(full, order[j])
  BY <1>m, FilledFacts
<1> HIDE DEF full
<1>8. /\ full.at = p /\ full.room \in Nat /\ full.chunks \in Chunks /\ full.stash \in Stashes
      /\ full.room + Sum(full.chunks) = Room
      /\ \A c \in ToSet(full.chunks) : OnPath(c.id, p)
      /\ DOMAIN full.stash \cup IdsIn(full.chunks) = DOMAIN m.stash
      /\ \A i \in Idents : At(full.stash, i) \o PiecesOf(full.chunks, i) = At(m.stash, i)
  BY <1>7 DEF Half
<1>9. rec \in NodeRecs /\ rec.chunks = full.chunks /\ rec.kids[1] = KeyOf(2 * p) /\ rec.kids[2] = KeyOf(2 * p + 1)
  <2>1. KeyOf(2 * p) \in BOOLEAN /\ KeyOf(2 * p + 1) \in BOOLEAN
    BY <1>m
  <2> HIDE DEF KeyOf
  <2>2. <<KeyOf(2 * p), KeyOf(2 * p + 1)>> \in BOOLEAN \X BOOLEAN
    BY <2>1
  <2>. QED
    BY <1>8, <2>2 DEF NodeRecs
<1>10. /\ old \in Partial(Nat, NodeRecs) /\ DOMAIN old = DOMAIN m.node
       /\ \A q \in DOMAIN m.node : /\ old[q].chunks = m.node[q].chunks
                                   /\ p = 1 \/ q # p \div 2 => old[q] = m.node[q]
  BY <1>t, <1>m, <1>1, OutdatedFacts
<1> HIDE DEF old, rec, n
<1>11. /\ node \in Partial(Nat, NodeRecs) /\ DOMAIN node = {p} \cup DOMAIN m.node /\ node[p] = rec
       /\ \A q \in DOMAIN m.node : q # p => node[q] = old[q]
  <2>1. node \in Partial(Nat, NodeRecs)
    BY <1>2, <1>9, <1>10, PutTyped
  <2>2. DOMAIN node = {p} \cup DOMAIN old /\ node[p] = rec /\ \A q \in DOMAIN old : q # p => node[q] = old[q]
    BY DEF Put, Over
  <2>. QED
    BY <1>10, <2>1, <2>2
<1>12. /\ keys \in Partial(Nat, BOOLEAN) /\ DOMAIN keys = {p} \cup (DOMAIN m.keys \ below) /\ keys[p]
       /\ \A q \in DOMAIN m.keys \ below : q # p => keys[q] = m.keys[q]
  <2>1. kept \in Partial(Nat, BOOLEAN)
    BY <1>m, WithoutTyped
  <2>2. keys \in Partial(Nat, BOOLEAN)
    <3> HIDE DEF kept
    <3>1. TRUE \in BOOLEAN
      OBVIOUS
    <3>. QED
      BY <1>2, <2>1, <3>1, PutTyped
  <2>3. DOMAIN keys = {p} \cup DOMAIN kept /\ keys[p] = TRUE /\ \A q \in DOMAIN kept : q # p => keys[q] = kept[q]
    <3> HIDE DEF kept
    <3>. QED
      BY DEF Put, Over
  <2>4. DOMAIN kept = DOMAIN m.keys \ below /\ \A q \in DOMAIN m.keys \ below : kept[q] = m.keys[q]
    <3> HIDE DEF below
    <3>. QED
      BY DEF Without
  <2> HIDE DEF kept, below, keys
  <2>. QED
    BY <2>2, <2>3, <2>4
<1> HIDE DEF node, keys, below
<1>13. /\ n.node = node /\ n.keys = keys /\ n.stash = full.stash /\ n.buffer = m.buffer \ {p}
       /\ n.levels = m.levels /\ n.fault = FALSE /\ n \in Mems
  <2>1. m.buffer \ {p} \in SUBSET Nat
    BY <1>m
  <2>2. n \in Mems
    BY <1>t, <1>6, <1>8, <1>11, <1>12, <2>1 DEF Mems
  <2>3. /\ n.node = node /\ n.keys = keys /\ n.stash = full.stash /\ n.buffer = m.buffer \ {p}
        /\ n.levels = m.levels /\ n.fault = m.fault
    BY <1>t, <1>6 DEF Mems
  <2>. QED
    BY <1>t, <2>2, <2>3
<1>14. ParentClosed(n.buffer)
  <2> SUFFICES ASSUME NEW q \in m.buffer \ {p}, q > 1 PROVE q \div 2 \in m.buffer \ {p}
    BY <1>13 DEF ParentClosed
  <2>1. q \in Nat /\ q \notin below
    BY <1>m DEF below
  <2>. QED
    BY <1>t, <1>3, <2>1
<1>15. ParentClosed(DOMAIN n.node) /\ 0 \notin DOMAIN n.node /\ n.buffer \subseteq DOMAIN n.node
  <2>1. p > 1 => p \div 2 \in DOMAIN m.node
    BY <1>t, <1>1
  <2>. QED
    BY <1>t, <1>2, <1>11, <1>13, <2>1 DEF ParentClosed
<1>16. Keyed(n)
  <2> SUFFICES ASSUME NEW q PROVE q \in DOMAIN keys <=> q \in Nat /\ (q = 1 \/ q \div 2 \in m.buffer \ {p})
    BY <1>13 DEF Keyed
  <2>1. q \in DOMAIN m.keys <=> q \in Nat /\ (q = 1 \/ q \div 2 \in m.buffer)
    BY <1>t
  <2>2. q \in DOMAIN keys <=> q = p \/ (q \in DOMAIN m.keys /\ q \notin below)
    BY <1>12
  <2>3. 1 \notin below
    BY <1>2 DEF below
  <2>. QED
    BY <1>1, <1>2, <1>3, <2>1, <2>2, <2>3
<1>17. Locked(n)
  <2> SUFFICES ASSUME NEW q \in DOMAIN n.node \ n.buffer
               PROVE  IF q = 1 \/ q \div 2 \in n.buffer THEN keys[q] ELSE node[q \div 2].kids[Side(q)]
    BY <1>13 DEF Locked
  <2>1. q \in Nat /\ (q = p \/ (q \in DOMAIN m.node /\ q \notin m.buffer))
    BY <1>2, <1>m, <1>11, <1>13
  <2>2. CASE q = p
    BY <1>1, <1>2, <1>12, <1>13, <2>2
  <2>3. CASE q # p /\ q \in below
    <3>1. q \in DOMAIN m.node /\ q \notin m.buffer /\ q \div 2 = p /\ p \in m.buffer /\ q # 1
      BY <1>2, <1>3, <1>4, <2>1, <2>3 DEF below
    <3>2. m.keys[q] /\ q \in DOMAIN m.keys
      BY <1>t, <2>1, <3>1
    <3>3. KeyOf(q) /\ q \div 2 \notin n.buffer
      BY <1>13, <3>1, <3>2
    <3> HIDE DEF KeyOf
    <3>4. rec.kids[Side(q)]
      BY <1>3, <1>9, <2>3, <3>3 DEF below
    <3>. QED
      BY <1>11, <3>1, <3>3, <3>4
  <2>4. CASE q # p /\ q \notin below
    <3>1. q \in DOMAIN m.node /\ q \notin m.buffer /\ q \div 2 # p /\ q > 0
      BY <1>t, <1>3, <2>1, <2>4
    <3>2. CASE q = 1 \/ q \div 2 \in m.buffer
      <4>1. q \in DOMAIN m.keys /\ m.keys[q]
        BY <1>t, <2>1, <3>1, <3>2
      <4>2. keys[q] = m.keys[q]
        BY <1>12, <2>4, <4>1
      <4>. QED
        BY <1>13, <3>1, <3>2, <4>1, <4>2
    <3>3. CASE q # 1 /\ q \div 2 \notin m.buffer
      <4>1. q \div 2 \in DOMAIN m.node
        <5>1. q > 1
          BY <2>1, <3>1, <3>3
        <5>. QED
          BY <1>t, <3>1, <5>1
      <4>2. p = 1 \/ q \div 2 # p \div 2
        BY <1>1, <3>3
      <4>3. node[q \div 2] = m.node[q \div 2]
        BY <1>10, <1>11, <3>1, <4>1, <4>2
      <4>. QED
        BY <1>t, <1>13, <3>1, <3>3, <4>3
    <3>. QED
      BY <3>2, <3>3
  <2>. QED
    BY <2>2, <2>3, <2>4
<1>18. \A q \in DOMAIN m.node : q # p => n.node[q].chunks = m.node[q].chunks
  BY <1>10, <1>11, <1>13
<1>19. \A x : Used(x) = Sum(x.chunks) /\ ChunkIds(x) = IdsIn(x.chunks)
  BY DEF Used, Sum, ChunkIds, IdsIn
<1>20. Used(n.node[p]) = Sum(full.chunks) /\ Sum(full.chunks) \in Nat
  BY <1>8, <1>9, <1>11, <1>13, <1>19, UsedFacts
<1>21. ASSUME NEW q \in DOMAIN n.node PROVE Fits(n.node[q], q)
  <2>1. CASE q = p
    <3>1. Sum(full.chunks) <= Room
      BY <1>8, <1>20
    <3>. QED
      BY <1>8, <1>9, <1>11, <1>13, <1>20, <2>1, <3>1 DEF Fits
  <2>2. CASE q # p
    BY <1>t, <1>11, <1>13, <1>18, <1>19, <2>2 DEF Fits
  <2>. QED
    BY <2>1, <2>2
<1>22. Tree(n)
  BY <1>13, <1>14, <1>15, <1>16, <1>17, <1>21 DEF Tree
<1>23. StoredIn(n) = StoredIn(m)
  <2> DEFINE Ids(x, q) == IdsIn(x.node[q].chunks)
             R == DOMAIN m.node \ m.buffer
  <2>1. DOMAIN n.node \ n.buffer = R \cup {p} /\ p \notin R
    BY <1>t, <1>4, <1>11, <1>13
  <2>2. Ids(n, p) = IdsIn(full.chunks) /\ \A q \in R : Ids(n, q) = Ids(m, q)
    BY <1>9, <1>11, <1>13, <1>18, <2>1
  <2>3. /\ StoredIn(n) = DOMAIN full.stash \cup UNION {Ids(n, q) : q \in R \cup {p}}
        /\ StoredIn(m) = DOMAIN m.stash \cup UNION {Ids(m, q) : q \in R}
    BY <1>13, <1>19, <2>1 DEF StoredIn
  <2>4. UNION {Ids(n, q) : q \in R \cup {p}} = Ids(n, p) \cup UNION {Ids(m, q) : q \in R}
    <3> HIDE DEF Ids, R
    <3>. QED
      BY <2>2
  <2> HIDE DEF Ids, R
  <2>. QED
    BY <1>8, <2>2, <2>3, <2>4
<1>24. ASSUME NEW j \in 1 .. L, order[j] \in DOMAIN n.stash, OnPath(order[j], p)
       PROVE  Used(n.node[p]) + Header >= Room
  <2>1. Closed(full)
    BY <1>7, <1>8, <1>13, <1>24 DEF Eligible
  <2>2. full.room <= Header /\ Header \in Nat /\ Room \in Nat
    BY <2>1, VoramAssumption DEF Closed
  <2>. QED
    BY <1>8, <1>20, <2>2
<1>25. n.node[p].chunks = full.chunks
  BY <1>9, <1>11, <1>13
<1>. QED
  BY <1>7, <1>8, <1>11, <1>13, <1>18, <1>22, <1>23, <1>24, <1>25 DEF n, Written

-----------------------------------------------------------------------------
\* The blob of an ident.
ChunksDown(m, id) == [i \in 1 .. m.levels + 1 |-> ChunkOf(m, Path(m, id)[i], id)]

LEMMA WholeIs == \A m, id : WholeIn(m, id) = Joins!Fold(At(m.stash, id), ChunksDown(m, id))
BY DEF WholeIn, ChunksDown, FoldLeft, Joins!Fold, Joins!MapThenFoldSet, MapThenFoldSet, Max, Joins!Latest

LEMMA PiecesTyped ==
  ASSUME NEW chunks \in Chunks, NEW id
  PROVE  PiecesOf(chunks, id) \in Data
<1>1. PiecesOf(chunks, id) = Upto(chunks, id, Len(chunks)) /\ \A j \in 0 .. Len(chunks) : Upto(chunks, id, j) \in Data
  BY PiecesFacts
<1>2. Len(chunks) \in 0 .. Len(chunks)
  BY ChunkTyped
<1>. QED
  BY <1>1, <1>2

LEMMA ChunkOfTyped ==
  ASSUME NEW m \in Mems, NEW p, NEW id
  PROVE  ChunkOf(m, p, id) \in Data
<1>1. p \in DOMAIN m.node => m.node[p].chunks \in Chunks
  BY MemTyped
<1>. QED
  BY <1>1, NoData, PiecesTyped DEF ChunkOf

\* Joins of nothing.
LEMMA JoinNothing ==
  ASSUME NEW a \in Data, NEW f, NEW L \in Nat, DOMAIN f = 1 .. L, \A i \in 1 .. L : f[i] = << >>
  PROVE  Joins!Fold(a, f) = a
<1> DEFINE Ok == [n \in Nat |-> {a}]
<1>1. Concat(a, << >>) = a
  BY NoData DEF Concat
<1>2. \A n \in 1 .. L : \A x \in Ok[n - 1] : Concat(x, f[n]) \in Ok[n]
  BY <1>1
<1>3. a \in Ok[0] /\ Ok[L] = {a}
  OBVIOUS
<1> HIDE DEF Ok
<1>4. Joins!Fold(a, f) \in Ok[L]
  BY <1>2, <1>3, Joins!FoldStays
<1>. QED
  BY <1>3, <1>4

\* Data that moves between the start and one place, with nothing before it.
Moved(a, f, b, g, L, k) ==
    /\ a \in Data /\ b \in Data /\ L \in Nat /\ k \in 1 .. L
    /\ f = [i \in 1 .. L |-> f[i]] /\ g = [i \in 1 .. L |-> g[i]]
    /\ \A i \in 1 .. L : /\ i < k => f[i] = << >> /\ g[i] = << >>
                         /\ i > k => f[i] = g[i]
    /\ a \o f[k] = b \o g[k]

LEMMA JoinMoves ==
  ASSUME NEW a, NEW b, NEW f, NEW g, NEW L, NEW k, Moved(a, f, b, g, L, k)
  PROVE  Joins!Fold(a, f) = Joins!Fold(b, g)
<1>h. /\ a \in Data /\ b \in Data /\ L \in Nat /\ k \in 1 .. L
      /\ f = [i \in 1 .. L |-> f[i]] /\ g = [i \in 1 .. L |-> g[i]]
      /\ \A i \in 1 .. L : /\ i < k => f[i] = << >> /\ g[i] = << >>
                           /\ i > k => f[i] = g[i]
      /\ a \o f[k] = b \o g[k]
  BY DEF Moved
<1> DEFINE F(n) == Joins!Fold(a, Joins!Prefix(f, n))  G(n) == Joins!Fold(b, Joins!Prefix(g, n))
           Fine(n) == IF n < k THEN F(n) = a /\ G(n) = b ELSE F(n) = G(n)
           T == {n \in Nat : n <= L /\ ~Fine(n)}
<1>1. F(0) = a /\ G(0) = b
  BY Joins!FoldOfNone
<1>2. ASSUME NEW n \in 1 .. L PROVE F(n) = F(n - 1) \o f[n] /\ G(n) = G(n - 1) \o g[n]
  <2>1. n \in Nat \ {0}
    BY <1>h
  <2>2. F(n) = Concat(F(n - 1), f[n])
    BY <2>1, Joins!FoldGoesOn
  <2>3. G(n) = Concat(G(n - 1), g[n])
    BY <2>1, Joins!FoldGoesOn
  <2>. QED
    BY <2>2, <2>3 DEF Concat
<1> HIDE DEF F, G
<1>3. a \o << >> = a /\ b \o << >> = b
  BY <1>h, NoData
<1>4. T = {}
  <2> SUFFICES ASSUME T # {} PROVE FALSE
    OBVIOUS
  <2>1. PICK n \in T : \A y \in T : n <= y
    <3>1. T \in SUBSET Nat
      OBVIOUS
    <3> HIDE DEF T
    <3>. QED
      BY <3>1, Joins!Least
  <2>2. n # 0
    <3>1. Fine(0)
      BY <1>h, <1>1
    <3>. QED
      BY <2>1, <3>1
  <2>3. n \in 1 .. L /\ n - 1 \in Nat /\ ~(n <= n - 1) /\ n - 1 <= L
    BY <1>h, <2>1, <2>2
  <2>4. Fine(n - 1)
    BY <2>1, <2>3
  <2>5. F(n) = F(n - 1) \o f[n] /\ G(n) = G(n - 1) \o g[n]
    BY <1>2, <2>3
  <2>6. CASE n < k
    <3>1. F(n - 1) = a /\ G(n - 1) = b
      BY <1>h, <2>3, <2>4, <2>6
    <3>2. f[n] = << >> /\ g[n] = << >>
      BY <1>h, <2>3, <2>6
    <3>3. F(n) = a /\ G(n) = b
      BY <1>3, <2>5, <3>1, <3>2, Zenon
    <3>. QED
      BY <2>1, <2>6, <3>3
  <2>7. CASE n = k
    <3>1. F(n - 1) = a /\ G(n - 1) = b
      BY <1>h, <2>3, <2>4, <2>7
    <3>2. F(n) = G(n)
      BY <1>h, <2>5, <2>7, <3>1, Zenon
    <3>. QED
      BY <1>h, <2>1, <2>7, <3>2
  <2>8. CASE n > k
    <3>1. F(n - 1) = G(n - 1) /\ f[n] = g[n]
      BY <1>h, <2>3, <2>4, <2>8
    <3>2. F(n) = G(n)
      BY <2>5, <3>1, Zenon
    <3>. QED
      BY <1>h, <2>1, <2>8, <3>2
  <2>. QED
    BY <1>h, <2>3, <2>6, <2>7, <2>8
<1>5. F(L) = G(L)
  <2>1. Fine(L)
    BY <1>h, <1>4
  <2>. QED
    BY <1>h, <2>1
<1>6. Joins!Prefix(f, L) = f /\ Joins!Prefix(g, L) = g
  BY <1>h DEF Joins!Prefix
<1>. QED
  BY <1>5, <1>6 DEF F, G

\* Where data moves between the stash and a node with all of its ancestors
\* in the buffer, blobs stay whole.
LEMMA WholeMoves ==
  ASSUME NEW m, Tree(m), NEW n, Tree(n), n.levels = m.levels, NEW p \in Nodes(m.levels),
         p = 1 \/ (p \div 2 \in m.buffer /\ p \div 2 \in n.buffer), NEW id \in Idents,
         \A q : q # p => ChunkOf(n, q, id) = ChunkOf(m, q, id),
         At(m.stash, id) \o ChunkOf(m, p, id) = At(n.stash, id) \o ChunkOf(n, p, id),
         OnPath(id, p) \/ (ChunkOf(m, p, id) = << >> /\ ChunkOf(n, p, id) = << >>)
  PROVE  WholeIn(n, id) = WholeIn(m, id)
<1> DEFINE path == Path(m, id)  l == m.levels  f == ChunksDown(m, id)  g == ChunksDown(n, id)
           a == At(m.stash, id)  b == At(n.stash, id)
<1>1. m \in Mems /\ n \in Mems /\ ParentClosed(m.buffer) /\ ParentClosed(n.buffer)
  BY DEF Tree
<1>2. l \in 0 .. MaxLevels
  BY <1>1, MemTyped, VoramAssumption
<1>3. Path(n, id) = path
  BY DEF Path
<1>4. a \in Data /\ b \in Data
  BY <1>1, MemTyped, AtTyped
<1>5. /\ f = [i \in 1 .. l + 1 |-> ChunkOf(m, path[i], id)]
      /\ g = [i \in 1 .. l + 1 |-> ChunkOf(n, path[i], id)]
  BY <1>3 DEF ChunksDown
<1>6. l + 1 \in Nat /\ \A i \in 1 .. l + 1 : path[i] \in Nodes(l) /\ OnPath(id, path[i])
  BY <1>2, PathFacts
<1>7. (\A i \in 2 .. l + 1 : path[i] \div 2 = path[i - 1]) /\ (\A i, j \in 1 .. l + 1 : i < j => path[i] < path[j])
  BY <1>2, PathFacts
<1>w. WholeIn(m, id) = Joins!Fold(a, f) /\ WholeIn(n, id) = Joins!Fold(b, g)
  BY WholeIs
<1>8. CASE ~OnPath(id, p)
  <2>1. \A i \in 1 .. l + 1 : path[i] # p
    BY <1>6, <1>8
  <2>2. f = g
    <3> HIDE DEF f, g
    <3>. QED
      BY <1>5, <2>1
  <2>3. a = b
    BY <1>4, <1>8, NoData
  <2> HIDE DEF f, g, a, b
  <2>. QED
    BY <1>w, <2>2, <2>3
<1>9. CASE OnPath(id, p)
  <2>1. PICK k \in 1 .. l + 1 : path[k] = p
    BY <1>2, <1>9, PathFacts
  <2>2. ASSUME NEW i \in 1 .. l + 1, i < k PROVE path[i] \in m.buffer /\ path[i] \in n.buffer
    <3>1. k - 1 \in 1 .. l + 1 /\ i \in 1 .. k - 1 /\ k \in 2 .. l + 1 /\ 1 \in 1 .. l + 1 /\ 1 < k
      BY <1>6, <2>2
    <3>2. path[k - 1] = p \div 2
      BY <1>7, <2>1, <3>1
    <3>3. p # 1
      <4>1. path[1] < path[k]
        BY <1>7, <2>1, <3>1
      <4>2. path[1] = 1
        BY <1>2, PathFacts
      <4>. QED
        BY <2>1, <4>1, <4>2
    <3>4. path[k - 1] \in m.buffer /\ path[k - 1] \in n.buffer
      BY <3>2, <3>3, SMTT(30)
    <3>. QED
      BY <1>1, <1>2, <3>1, <3>4, PathAbove
  <2>3. ASSUME NEW i \in 1 .. l + 1, i < k PROVE f[i] = << >> /\ g[i] = << >>
    BY <1>5, <2>2, <2>3 DEF ChunkOf
  <2>4. ASSUME NEW i \in 1 .. l + 1, i > k PROVE f[i] = g[i]
    <3>1. path[k] < path[i]
      BY <1>7, <2>1, <2>4
    <3>2. path[i] # p
      BY <1>6, <2>1, <3>1 DEF Nodes
    <3>. QED
      BY <1>5, <3>2
  <2>5. a \o f[k] = b \o g[k]
    BY <1>5, <2>1
  <2>6. DOMAIN f = 1 .. l + 1 /\ DOMAIN g = 1 .. l + 1 /\ f = [i \in 1 .. l + 1 |-> f[i]] /\ g = [i \in 1 .. l + 1 |-> g[i]]
    BY <1>5
  <2> DEFINE L == l + 1
  <2> HIDE DEF f, g, a, b, path
  <2>7. Joins!Fold(a, f) = Joins!Fold(b, g)
    <3>1. L \in Nat /\ k \in 1 .. L /\ DOMAIN f = 1 .. L /\ DOMAIN g = 1 .. L
          /\ f = [i \in 1 .. L |-> f[i]] /\ g = [i \in 1 .. L |-> g[i]]
      BY <1>6, <2>6
    <3>2. \A i \in 1 .. L : i < k => f[i] = << >> /\ g[i] = << >>
      BY <2>3
    <3>3. \A i \in 1 .. L : i > k => f[i] = g[i]
      BY <2>4
    <3>4. Moved(a, f, b, g, L, k)
      <4> HIDE DEF L
      <4>. QED
        BY <1>4, <2>5, <3>1, <3>2, <3>3 DEF Moved
    <3>. QED
      BY <3>4, JoinMoves
  <2>. QED
    BY <1>w, <2>7
<1>. QED
  BY <1>8, <1>9

-----------------------------------------------------------------------------
\* What no step of a method changes.
Same(m, n) ==
    /\ Tree(n) /\ n.levels = m.levels /\ StoredIn(n) = StoredIn(m)
    /\ \A id \in Idents : WholeIn(n, id) = WholeIn(m, id)

LEMMA OffPath ==
  ASSUME NEW r, r.chunks \in Chunks, NEW p, Fits(r, p), NEW id, ~OnPath(id, p)
  PROVE  PiecesOf(r.chunks, id) = << >>
<1>1. id \notin IdsIn(r.chunks)
  BY DEF Fits, IdsIn
<1>. QED
  BY <1>1, NoPieces

LEMMA ReadSame ==
  ASSUME NEW m, Tree(m), DOMAIN m.node \subseteq Nodes(m.levels), NEW p \in DOMAIN m.node,
         p = 1 \/ p \div 2 \in m.buffer
  PROVE  LET n == ReadNode(m, p)
         IN  /\ Same(m, n) /\ n.buffer = m.buffer \cup {p} /\ n.node = m.node
<1> DEFINE n == ReadNode(m, p)
<1>1. /\ Tree(n) /\ n.buffer = m.buffer \cup {p} /\ n.node = m.node /\ n.levels = m.levels
      /\ StoredIn(n) = StoredIn(m)
      /\ \A id \in Idents : p \notin m.buffer =>
            At(n.stash, id) = At(m.stash, id) \o PiecesOf(m.node[p].chunks, id)
  BY ReadKeeps
<1>2. CASE p \in m.buffer
  <2>1. n = m
    BY <1>2 DEF ReadNode
  <2>. QED
    BY <1>1, <2>1 DEF Same
<1>3. CASE p \notin m.buffer
  <2>1. n \in Mems /\ m.node[p].chunks \in Chunks /\ Fits(m.node[p], p) /\ n.stash \in Stashes
    BY <1>1, MemTyped DEF Tree
  <2> HIDE DEF n
  <2>2. ASSUME NEW id \in Idents PROVE WholeIn(n, id) = WholeIn(m, id)
    <3>1. \A q : q # p => ChunkOf(n, q, id) = ChunkOf(m, q, id)
      BY <1>1 DEF ChunkOf
    <3>2. ChunkOf(m, p, id) = PiecesOf(m.node[p].chunks, id) /\ ChunkOf(n, p, id) = << >>
      BY <1>1, <1>3 DEF ChunkOf
    <3>3. At(m.stash, id) \o ChunkOf(m, p, id) = At(n.stash, id) \o ChunkOf(n, p, id)
      <4>1. At(n.stash, id) \o << >> = At(n.stash, id)
        BY <2>1, AtTyped, NoData
      <4>2. At(n.stash, id) = At(m.stash, id) \o PiecesOf(m.node[p].chunks, id)
        BY <1>1, <1>3
      <4>. QED
        BY <3>2, <4>1, <4>2, Zenon
    <3>4. OnPath(id, p) \/ (ChunkOf(m, p, id) = << >> /\ ChunkOf(n, p, id) = << >>)
      BY <2>1, <3>2, OffPath
    <3>5. p \in Nodes(m.levels) /\ (p = 1 \/ (p \div 2 \in m.buffer /\ p \div 2 \in n.buffer))
      BY <1>1
    <3>. QED
      BY <1>1, <3>1, <3>3, <3>4, <3>5, WholeMoves
  <2>. QED
    BY <1>1, <2>2 DEF Same, n
<1>. QED
  BY <1>1, <1>2, <1>3

LEMMA WriteSame ==
  ASSUME NEW m, Tree(m), DOMAIN m.node \subseteq Nodes(m.levels), NEW p \in Nodes(m.levels),
         NEW order, NEW L \in Nat, DOMAIN order = 1 .. L, NEW override \in BOOLEAN,
         Writable(m, p, override)
  PROVE  LET n == WriteNode(m, p, order, override)
         IN  Same(m, n) /\ Written(m, n, p, order)
<1> DEFINE n == WriteNode(m, p, order, override)
<1>0. p \in Nat \ {0} /\ p \div 2 # p /\ (p = 1 \/ p > 1)
  <2>1. p \in Nat \ {0}
    BY DEF Nodes
  <2>2. p \div 2 # p /\ (p = 1 \/ p > 1)
    BY ONLY <2>1, Halves
  <2>. QED
    BY <2>1, <2>2
<1>w. Written(m, n, p, order)
  BY <1>0, WriteKeeps
<1> HIDE DEF n
<1>1. /\ Tree(n) /\ n.buffer = m.buffer \ {p} /\ n.levels = m.levels
      /\ DOMAIN n.node = {p} \cup DOMAIN m.node
      /\ \A q \in DOMAIN m.node : q # p => n.node[q].chunks = m.node[q].chunks
      /\ StoredIn(n) = StoredIn(m)
      /\ \A id \in Idents : At(n.stash, id) \o PiecesOf(n.node[p].chunks, id) = At(m.stash, id)
  BY <1>w DEF Written
<1>2. n.node[p].chunks \in Chunks /\ Fits(n.node[p], p) /\ m.stash \in Stashes
  BY <1>1, MemTyped DEF Tree
<1>3. ASSUME NEW id \in Idents PROVE WholeIn(n, id) = WholeIn(m, id)
  <2>1. \A q : q # p => ChunkOf(n, q, id) = ChunkOf(m, q, id)
    BY <1>1 DEF ChunkOf
  <2>2. ChunkOf(n, p, id) = PiecesOf(n.node[p].chunks, id) /\ ChunkOf(m, p, id) = << >>
    BY <1>1 DEF ChunkOf, Writable
  <2>3. At(m.stash, id) \o ChunkOf(m, p, id) = At(n.stash, id) \o ChunkOf(n, p, id)
    <3>1. At(m.stash, id) \o << >> = At(m.stash, id)
      BY <1>2, AtTyped, NoData
    <3>2. At(n.stash, id) \o PiecesOf(n.node[p].chunks, id) = At(m.stash, id)
      BY <1>1
    <3>. QED
      BY <2>2, <3>1, <3>2, Zenon
  <2>4. OnPath(id, p) \/ (ChunkOf(m, p, id) = << >> /\ ChunkOf(n, p, id) = << >>)
    BY <1>2, <2>2, OffPath
  <2>5. p = 1 \/ (p \div 2 \in m.buffer /\ p \div 2 \in n.buffer)
    <3>1. p = 1 \/ p \div 2 \in m.buffer
      BY <1>0 DEF Tree, ParentClosed, Writable
    <3>2. p \div 2 # p
      BY <1>0
    <3>. QED
      BY <1>1, <3>1, <3>2
  <2>. QED
    BY <1>1, <2>1, <2>3, <2>4, <2>5, WholeMoves
<1>. QED
  BY <1>1, <1>3, <1>w DEF Same, n

-----------------------------------------------------------------------------
LEMMA SameSame == \A m, n, o : Same(m, n) /\ Same(n, o) => Same(m, o)
BY DEF Same

LEMMA SameSelf == ASSUME NEW m, Tree(m) PROVE Same(m, m)
BY DEF Same

LEMMA SameTyped ==
  ASSUME NEW m, NEW n, Same(m, n)
  PROVE  Tree(n) /\ n \in Mems /\ n.levels = m.levels
BY DEF Same, Tree

\* Reading nodes downwards.
LEMMA ReadDown ==
  ASSUME NEW m, Tree(m), DOMAIN m.node \subseteq Nodes(m.levels), NEW path, NEW L \in Nat, DOMAIN path = 1 .. L,
         \A i \in 1 .. L : path[i] \in DOMAIN m.node,
         L > 0 => path[1] = 1 \/ path[1] \div 2 \in m.buffer,
         \A i \in 2 .. L : path[i] \div 2 = path[i - 1]
  PROVE  LET n == FoldLeft(ReadNode, m, path)
         IN  Same(m, n) /\ n.node = m.node /\ n.buffer = m.buffer \cup {path[j] : j \in 1 .. L}
<1> DEFINE Good(i) == {n \in Mems : Same(m, n) /\ n.node = m.node /\ n.buffer = m.buffer \cup {path[j] : j \in 1 .. i}}
           Ok == [i \in Nat |-> Good(i)]
<1>1. m \in Mems
  BY DEF Tree
<1>4. m \in Good(0)
  <2>1. {path[j] : j \in 1 .. 0} = {}
    OBVIOUS
  <2>. QED
    BY <1>1, <2>1, SameSelf
<1>5. ASSUME NEW i \in 1 .. L, NEW n \in Good(i - 1) PROVE ReadNode(n, path[i]) \in Good(i)
  <2> DEFINE p == path[i]  t == ReadNode(n, p)
  <2>1. Tree(n) /\ n.levels = m.levels /\ Same(m, n) /\ n.node = m.node
        /\ n.buffer = m.buffer \cup {path[j] : j \in 1 .. i - 1}
    BY SameTyped
  <2>2. p = 1 \/ p \div 2 \in n.buffer
    <3>1. CASE i = 1
      BY <2>1, <3>1
    <3>2. CASE i # 1
      <4>1. i \in 2 .. L /\ i - 1 \in 1 .. i - 1
        BY <3>2
      <4>2. path[i - 1] \in n.buffer
        BY <2>1, <4>1
      <4>. QED
        BY <4>1, <4>2
    <3>. QED
      BY <3>1, <3>2
  <2>3. DOMAIN n.node \subseteq Nodes(n.levels) /\ p \in DOMAIN n.node
    BY <2>1
  <2> HIDE DEF p
  <2>4. Same(n, t) /\ t.buffer = n.buffer \cup {p} /\ t.node = n.node
    BY <2>1, <2>2, <2>3, ReadSame
  <2> HIDE DEF t
  <2>5. Same(m, t) /\ t \in Mems
    BY <2>1, <2>4, SameSame, SameTyped
  <2>6. 1 .. i = (1 .. i - 1) \cup {i}
    OBVIOUS
  <2>7. t.buffer = m.buffer \cup {path[j] : j \in 1 .. i}
    <3>1. {path[j] : j \in 1 .. i} = {path[j] : j \in 1 .. i - 1} \cup {p}
      BY <2>6 DEF p
    <3>. QED
      BY <2>1, <2>4, <3>1
  <2>. QED
    BY <2>1, <2>4, <2>5, <2>7 DEF p, t
<1>6. FoldLeft(ReadNode, m, path) = Readings!Fold(m, path)
  BY DEF FoldLeft, Readings!Fold, Readings!MapThenFoldSet, MapThenFoldSet, Max, Readings!Latest
<1> HIDE DEF Good
<1>7. m \in Ok[0] /\ Ok[L] = Good(L) /\ \A i \in 1 .. L : \A x \in Ok[i - 1] : ReadNode(x, path[i]) \in Ok[i]
  BY <1>4, <1>5
<1> HIDE DEF Ok
<1>8. Readings!Fold(m, path) \in Ok[L]
  BY <1>7, Readings!FoldStays
<1>9. FoldLeft(ReadNode, m, path) \in Good(L)
  BY <1>6, <1>7, <1>8
<1>. QED
  BY <1>9 DEF Good

LEMMA ReadPathSame ==
  ASSUME NEW m, Tree(m), DOMAIN m.node = Nodes(m.levels), NEW id \in Idents
  PROVE  LET n == ReadPath(m, id)
         IN  /\ Same(m, n) /\ n.node = m.node /\ m.buffer \subseteq n.buffer
             /\ \A i \in 1 .. m.levels + 1 : Path(m, id)[i] \in n.buffer
<1> DEFINE path == Path(m, id)  L == m.levels + 1  n == FoldLeft(ReadNode, m, path)
<1>1. m.levels \in 0 .. MaxLevels
  BY MemTyped, VoramAssumption DEF Tree
<1>2. /\ DOMAIN path = 1 .. L /\ L \in Nat /\ path[1] = 1
      /\ \A i \in 1 .. L : path[i] \in Nodes(m.levels)
      /\ \A i \in 2 .. L : path[i] \div 2 = path[i - 1]
  BY <1>1, PathFacts
<1> HIDE DEF path, L
<1>3. Same(m, n) /\ n.node = m.node /\ n.buffer = m.buffer \cup {path[j] : j \in 1 .. L}
  BY <1>2, ReadDown
<1>4. ReadPath(m, id) = n
  BY DEF ReadPath, path
<1> HIDE DEF n
<1>. QED
  BY <1>3, <1>4 DEF path, L

\* Writing back what was read.
LEMMA WriteBackSame ==
  ASSUME NEW m, Tree(m), DOMAIN m.node = Nodes(m.levels), NEW order, NEW L \in Nat, DOMAIN order = 1 .. L
  PROVE  LET n == WriteBack(m, order)
         IN  /\ Same(m, n) /\ n.buffer = {} /\ DOMAIN n.node = DOMAIN m.node
             /\ \A q \in m.buffer : \A j \in 1 .. L :
                   order[j] \in DOMAIN n.stash /\ OnPath(order[j], q) => Used(n.node[q]) + Header >= Room
<1> DEFINE end == 2 ^ (m.levels + 1)  K == end - 1
           turns == [i \in 1 .. K |-> [at |-> end - i, order |-> order]]
           Full(n, q) == \A j \in 1 .. L :
                            order[j] \in DOMAIN n.stash /\ OnPath(order[j], q) => Used(n.node[q]) + Header >= Room
           Good(i) == {n \in Mems : /\ Same(m, n) /\ DOMAIN n.node = DOMAIN m.node
                                    /\ n.buffer = {q \in m.buffer : q < end - i}
                                    /\ \A q \in m.buffer : q >= end - i => Full(n, q)}
           Ok == [i \in Nat |-> Good(i)]
<1>1. m \in Mems /\ 0 \notin m.buffer /\ m.buffer \in SUBSET Nat /\ m.buffer \subseteq Nodes(m.levels)
  BY MemTyped, TreeFacts
<1>2. end \in Nat \ {0} /\ K \in Nat /\ DOMAIN turns = 1 .. K /\ Nodes(m.levels) = 1 .. K
  <2>1. m.levels + 1 \in Nat
    BY <1>1, MemTyped, VoramAssumption
  <2>2. end \in Nat \ {0}
    BY <2>1, Powers
  <2> HIDE DEF end
  <2>3. K \in Nat /\ DOMAIN turns = 1 .. K
    BY <2>2
  <2>. QED
    BY <2>2, <2>3 DEF Nodes, end
<1>3. \A i \in 1 .. K : turns[i].at = end - i /\ turns[i].order = order
  OBVIOUS
<1> HIDE DEF end
<1>4. m \in Good(0)
  <2>1. \A q \in m.buffer : q < end - 0
    BY <1>1, <1>2
  <2>. QED
    BY <1>1, <1>2, <2>1, SameSelf
<1>5. ASSUME NEW i \in 1 .. K, NEW n \in Good(i - 1) PROVE WriteRead(n, turns[i]) \in Good(i)
  <2> DEFINE p == end - i  t == WriteRead(n, turns[i])
  <2>1. /\ Tree(n) /\ n.levels = m.levels /\ Same(m, n) /\ DOMAIN n.node = DOMAIN m.node
        /\ n.buffer = {q \in m.buffer : q < end - (i - 1)}
        /\ \A q \in m.buffer : q >= end - (i - 1) => Full(n, q)
    BY SameTyped
  <2>2. p \in Nodes(m.levels) /\ p \in Nat \ {0} /\ end - (i - 1) = p + 1
    BY <1>2
  <2>3. n.buffer = {q \in m.buffer : q < p + 1} /\ \A q \in m.buffer : q >= p + 1 => Full(n, q)
    BY <2>1, <2>2
  <2> HIDE DEF Full, p
  <2>4. CASE p \notin n.buffer
    <3>1. t = n
      BY <1>3, <2>4 DEF WriteRead, p
    <3>2. p \notin m.buffer
      BY <2>2, <2>3, <2>4
    <3>3. n.buffer = {q \in m.buffer : q < p} /\ \A q \in m.buffer : q >= p => Full(n, q)
      BY <1>1, <2>2, <2>3, <3>2
    <3>. QED
      BY <2>1, <3>1, <3>3 DEF p
  <2>5. CASE p \in n.buffer
    <3>1. t = WriteNode(n, p, order, FALSE)
      BY <1>3, <2>5 DEF WriteRead, p
    <3>2. Writable(n, p, FALSE)
      <4>1. 2 * p \notin n.buffer /\ 2 * p + 1 \notin n.buffer
        BY <2>2, <2>3
      <4>. QED
        BY <2>5, <4>1 DEF Writable
    <3>3. DOMAIN n.node \subseteq Nodes(n.levels) /\ p \in Nodes(n.levels) /\ p \in DOMAIN n.node
      BY <2>1, <2>2
    <3>4. Same(n, t) /\ Written(n, t, p, order)
      <4> DEFINE w == WriteNode(n, p, order, FALSE)
      <4>1. FALSE \in BOOLEAN
        OBVIOUS
      <4>2. Same(n, w) /\ Written(n, w, p, order)
        BY <2>1, <3>2, <3>3, <4>1, WriteSame
      <4> HIDE DEF w, t
      <4>. QED
        BY <3>1, <4>2 DEF w
    <3> HIDE DEF t
    <3>5. Same(m, t) /\ t \in Mems
      BY <2>1, <3>4, SameSame, SameTyped
    <3>6. DOMAIN t.node = DOMAIN m.node /\ t.buffer = n.buffer \ {p} /\ DOMAIN t.stash \subseteq DOMAIN n.stash
          /\ \A q \in DOMAIN n.node : q # p => t.node[q].chunks = n.node[q].chunks
      BY <2>1, <3>3, <3>4 DEF Written
    <3>7. t.buffer = {q \in m.buffer : q < p}
      BY <1>1, <2>2, <2>3, <3>6
    <3>8. Full(t, p)
      BY <3>4 DEF Written, Full
    <3>9. ASSUME NEW q \in m.buffer, q >= p PROVE Full(t, q)
      <4>1. CASE q = p
        BY <3>8, <4>1
      <4>2. CASE q # p
        <5>1. Full(n, q) /\ q \in DOMAIN n.node
          BY <1>1, <2>1, <2>2, <2>3, <3>9, <4>2 DEF Tree
        <5>2. Used(t.node[q]) = Used(n.node[q])
          BY <3>6, <4>2, <5>1 DEF Used
        <5>. QED
          BY <3>6, <5>1, <5>2 DEF Full
      <4>. QED
        BY <4>1, <4>2
    <3>. QED
      BY <3>5, <3>6, <3>7, <3>9 DEF p, t
  <2>. QED
    BY <2>4, <2>5
<1>6. WriteBack(m, order) = Writings!Fold(m, turns)
  BY DEF WriteBack, end, FoldLeft, Writings!Fold, Writings!MapThenFoldSet, MapThenFoldSet, Max, Writings!Latest
<1> HIDE DEF Good, turns
<1>7. m \in Ok[0] /\ Ok[K] = Good(K) /\ \A i \in 1 .. K : \A x \in Ok[i - 1] : WriteRead(x, turns[i]) \in Ok[i]
  BY <1>2, <1>4, <1>5
<1> HIDE DEF Ok
<1>8. Writings!Fold(m, turns) \in Ok[K]
  <2> HIDE DEF K
  <2>. QED
    BY <1>2, <1>7, Writings!FoldStays
<1>9. WriteBack(m, order) \in Good(K)
  BY <1>6, <1>7, <1>8
<1>10. end - K = 1 /\ \A q \in m.buffer : ~(q < 1) /\ q >= 1
  BY <1>1, <1>2
<1>. QED
  BY <1>9, <1>10 DEF Good

-----------------------------------------------------------------------------
\* The ancestors of a node, one by one.
LEMMA UpZero == Up(0) = {}
BY DEF Up

LEMMA UpStep ==
  ASSUME NEW w \in Nat \ {0}
  PROVE  /\ w \div 2 \in Nat /\ w \div 2 < w /\ Up(w) = {w} \cup Up(w \div 2) /\ w \notin Up(w \div 2)
         /\ Up(w) \subseteq 1 .. w /\ w \in Up(w) /\ 2 * w \notin Up(w) /\ 2 * w + 1 \notin Up(w)
<1>1. w \in Up(w) /\ Up(w) \subseteq 1 .. w
  BY UpFacts
<1>2. w \div 2 \in Nat /\ w \div 2 < w
  BY Halves
<1>3. 2 * w \notin 1 .. w /\ 2 * w + 1 \notin 1 .. w
  OBVIOUS
<1>4. CASE w = 1
  <2>1. w \div 2 = 0
    BY <1>4
  <2>2. Up(w) = {w}
    BY <1>1, <1>4
  <2>. QED
    BY <1>1, <1>2, <1>3, <2>1, <2>2, UpZero
<1>5. CASE w # 1
  <2>1. Up(w) = {w} \cup Up(w \div 2) /\ w \div 2 \in Nat \ {0}
    BY <1>5, UpOne
  <2>2. Up(w \div 2) \subseteq 1 .. w \div 2
    BY <2>1, UpFacts
  <2>3. w \notin 1 .. w \div 2
    BY <1>2
  <2>. QED
    BY <1>1, <1>2, <1>3, <2>1, <2>2, <2>3
<1>. QED
  BY <1>4, <1>5

\* The powers of two below the leaves that were, from their parents up.
LEMMA UpOfPower ==
  ASSUME NEW l \in Nat \ {0}
  PROVE  Up(2 ^ l \div 2) = {2 ^ (l - i) : i \in 1 .. l}
<1> DEFINE P(i) == 2 ^ (l - i)  S == {P(i) : i \in 1 .. l}
<1>1. \A i \in 0 .. l : l - i \in Nat /\ P(i) \in Nat \ {0}
  BY Powers
<1>2. ASSUME NEW i \in 1 .. l PROVE P(i - 1) = 2 * P(i)
  <2>1. l - i \in Nat /\ l - (i - 1) = (l - i) + 1
    OBVIOUS
  <2>2. 2 ^ ((l - i) + 1) = 2 * 2 ^ (l - i)
    BY <2>1, Powers
  <2>. QED
    BY <2>1, <2>2
<1>3. P(l) = 1
  BY PowerOfZero
<1>4. P(0) = 2 ^ l /\ 2 ^ l \div 2 = P(1) /\ 2 ^ l \in Nat
  <2>1. l - 0 = l /\ 1 \in 1 .. l /\ 1 - 1 = 0 /\ 0 \in 0 .. l /\ 1 \in 0 .. l
    OBVIOUS
  <2>2. P(0) = 2 ^ l
    BY <2>1
  <2>3. P(0) = 2 * P(1) /\ P(0) \in Nat /\ P(1) \in Nat
    BY <1>1, <1>2, <2>1
  <2> HIDE DEF P
  <2>4. P(0) \div 2 = P(1)
    BY <2>3
  <2>. QED
    BY <2>2, <2>3, <2>4
<1> HIDE DEF P
<1>5. P(1) \in Nat \ {0}
  BY <1>1
<1>6. /\ P(1) \in Up(P(1)) /\ ParentClosed(Up(P(1)))
      /\ \A R \in SUBSET Nat : P(1) \in R /\ ParentClosed(R) => Up(P(1)) \subseteq R
  BY <1>5, UpFacts
<1>7. S \in SUBSET Nat /\ P(1) \in S
  BY <1>1
<1>8. ParentClosed(S)
  <2> SUFFICES ASSUME NEW i \in 1 .. l, P(i) > 1 PROVE P(i) \div 2 \in S
    BY DEF ParentClosed
  <2>1. i + 1 \in 1 .. l /\ (i + 1) - 1 = i
    BY <1>3
  <2>2. P(i) = 2 * P(i + 1) /\ P(i + 1) \in Nat
    BY <1>1, <1>2, <2>1
  <2>3. P(i) \div 2 = P(i + 1)
    BY <2>2
  <2>. QED
    BY <2>1, <2>3
<1>9. Up(P(1)) \subseteq S
  BY <1>6, <1>7, <1>8
<1> DEFINE T == {i \in Nat : i \in 1 .. l /\ P(i) \notin Up(P(1))}
<1>10. T = {}
  <2> SUFFICES ASSUME T # {} PROVE FALSE
    OBVIOUS
  <2>1. PICK i \in T : \A y \in T : i <= y
    <3>1. T \in SUBSET Nat
      OBVIOUS
    <3> HIDE DEF T
    <3>. QED
      BY <3>1, Readings!Least
  <2>2. i # 1
    BY <1>6, <2>1
  <2>3. i - 1 \in 1 .. l /\ i \in 1 .. l /\ ~(i <= i - 1) /\ i - 1 \in Nat
    BY <2>1, <2>2
  <2>4. P(i - 1) \in Up(P(1))
    BY <2>1, <2>3
  <2>5. P(i - 1) = 2 * P(i) /\ P(i) \in Nat \ {0}
    BY <1>1, <1>2, <2>3
  <2>6. P(i - 1) > 1 /\ P(i - 1) \div 2 = P(i)
    BY <2>5
  <2>7. P(i) \in Up(P(1))
    BY <1>6, <2>4, <2>6 DEF ParentClosed
  <2>. QED
    BY <2>1, <2>7
<1>11. S \subseteq Up(P(1))
  BY <1>10
<1>. QED
  BY <1>4, <1>9, <1>11 DEF P

-----------------------------------------------------------------------------
(***************************************************************************)
(* grow(): m is the tree with its new number of levels, e the leaf that is *)
(* to be written next.                                                     *)
(***************************************************************************)
Todos == Seq(Nat)

\* After k turns up from a new leaf: x = g.at is the right neighbour of the
\* last node with all its leaves written.
Climbing(m, e, g) ==
    /\ g \in [m : Mems, at : Nat, todo : Todos]
    /\ Same(m, g.m) /\ DOMAIN g.m.node = 1 .. e - 1
    /\ g.at \in 2 .. e
    /\ g.m.buffer = m.buffer \cup Up((g.at - 1) \div 2)
    /\ Up(e \div 2) = ToSet(g.todo) \cup Up(g.at \div 2)
    /\ IF Len(g.todo) = 0 THEN g.at = e ELSE g.todo[Len(g.todo)] = g.at
    /\ \A i \in 1 .. Len(g.todo) : /\ g.todo[i] \in 2 .. e \div 2
                                   /\ i < Len(g.todo) => g.todo[i] \div 2 = g.todo[i + 1]

LEMMA Evens ==
  ASSUME NEW x \in Nat, NEW e \in Nat, x > 2, x % 2 = 0, x <= e
  PROVE  /\ x \div 2 \in Nat /\ x \div 2 >= 2 /\ x \div 2 <= e /\ x = 2 * (x \div 2)
         /\ (x - 1) \div 2 = x \div 2 - 1 /\ x \div 2 - 1 \in Nat \ {0} /\ x \div 2 <= e \div 2
<1> DEFINE h == x \div 2
<1>1. h \in Nat /\ x = 2 * h
  OBVIOUS
<1> HIDE DEF h
<1>2. h >= 2 /\ h <= e
  BY <1>1
<1>3. (x - 1) \div 2 = h - 1
  BY <1>1
<1>4. h <= e \div 2
  BY <1>1
<1>. QED
  BY <1>1, <1>2, <1>3, <1>4 DEF h

LEMMA ClimbKeeps ==
  ASSUME NEW m, NEW e \in Nat, e - 1 \in Nodes(m.levels), Tree(m), NEW turn, turn.kept = m.buffer,
         NEW L \in Nat, DOMAIN turn.order = 1 .. L, NEW g, Climbing(m, e, g)
  PROVE  /\ Climbing(m, e, Climb(g, turn))
         /\ Climb(g, turn).at = IF g.at > 2 /\ g.at % 2 = 0 THEN g.at \div 2 ELSE g.at
<1> DEFINE x == g.at  q == x \div 2  w == q - 1  t == Climb(g, turn)
<1>1. CASE ~(x > 2 /\ x % 2 = 0)
  BY <1>1 DEF Climb
<1>2. CASE x > 2 /\ x % 2 = 0
  <2> DEFINE k == Len(g.todo)  todo == Append(g.todo, q)
             n == IF w \in turn.kept THEN g.m ELSE WriteNode(g.m, w, turn.order, FALSE)
  <2>1. /\ g \in [m : Mems, at : Nat, todo : Todos] /\ g.todo \in Todos
        /\ Same(m, g.m) /\ DOMAIN g.m.node = 1 .. e - 1 /\ x \in 2 .. e
        /\ g.m.buffer = m.buffer \cup Up((x - 1) \div 2)
        /\ Up(e \div 2) = ToSet(g.todo) \cup Up(q)
        /\ (k = 0 => x = e) /\ (k # 0 => g.todo[k] = x)
        /\ \A i \in 1 .. k : g.todo[i] \in 2 .. e \div 2 /\ (i < k => g.todo[i] \div 2 = g.todo[i + 1])
    BY DEF Climbing
  <2>2. t = [m |-> n, at |-> q, todo |-> todo]
    BY <1>2 DEF Climb
  <2>3. q \in Nat /\ q >= 2 /\ q <= e /\ x = 2 * q /\ (x - 1) \div 2 = w /\ w \in Nat \ {0} /\ q <= e \div 2
    <3>1. x \in Nat /\ x <= e
      BY <2>1
    <3> HIDE DEF x
    <3>. QED
      BY <1>2, <3>1, Evens
  <2>4. (q - 1) \div 2 = w \div 2 /\ g.m.buffer = m.buffer \cup Up(w)
    BY <2>1, <2>3
  <2> HIDE DEF q
  <2>5. k \in Nat
    BY <2>1 DEF Todos
  <2>6. /\ w \div 2 \in Nat /\ Up(w) = {w} \cup Up(w \div 2) /\ w \notin Up(w \div 2)
        /\ w \in Up(w) /\ 2 * w \notin Up(w) /\ 2 * w + 1 \notin Up(w)
    BY <2>3, UpStep
  <2>7. Tree(g.m) /\ g.m.levels = m.levels
    BY <2>1, SameTyped
  <2>8. ParentClosed(m.buffer)
    BY DEF Tree
  <2> HIDE DEF w
  <2>9. Same(m, n) /\ n.buffer = m.buffer \cup Up(w \div 2) /\ DOMAIN n.node = 1 .. e - 1
    <3>1. CASE w \in turn.kept
      <4>1. n = g.m
        BY <3>1
      <4>2. m.buffer \cup Up(w) = m.buffer \cup Up(w \div 2)
        BY <2>6, <3>1
      <4> HIDE DEF n
      <4>. QED
        BY <2>1, <2>4, <4>1, <4>2
    <3>2. CASE w \notin turn.kept
      <4>1. n = WriteNode(g.m, w, turn.order, FALSE)
        BY <3>2
      <4>2. w \in g.m.buffer
        BY <2>4, <2>6
      <4>3. 2 * w \notin m.buffer /\ 2 * w + 1 \notin m.buffer
        <5>1. (2 * w) \div 2 = w /\ (2 * w + 1) \div 2 = w /\ 2 * w > 1 /\ 2 * w + 1 > 1
          BY <2>3
        <5>. QED
          BY <2>8, <3>2, <5>1 DEF ParentClosed
      <4>4. Writable(g.m, w, FALSE)
        BY <2>4, <2>6, <4>2, <4>3 DEF Writable
      <4>5. DOMAIN g.m.node \subseteq Nodes(g.m.levels) /\ w \in Nodes(g.m.levels) /\ w \in DOMAIN g.m.node
        <5>1. w \in DOMAIN g.m.node
          BY <2>7, <4>2 DEF Tree
        <5>2. 1 .. e - 1 \subseteq Nodes(m.levels)
          <6> DEFINE K == 2 ^ (m.levels + 1) - 1
          <6>1. m.levels + 1 \in Nat
            BY MemTyped, VoramAssumption DEF Tree
          <6>2. K \in Int /\ Nodes(m.levels) = 1 .. K
            BY <6>1, Powers DEF Nodes
          <6> HIDE DEF K
          <6>. QED
            BY <6>2
        <5>. QED
          BY <2>1, <2>7, <5>1, <5>2
      <4>6. Same(g.m, n) /\ Written(g.m, n, w, turn.order)
        <5> DEFINE order == turn.order  v == WriteNode(g.m, w, order, FALSE)
        <5>1. DOMAIN order = 1 .. L /\ FALSE \in BOOLEAN
          OBVIOUS
        <5> HIDE DEF order
        <5>2. Same(g.m, v) /\ Written(g.m, v, w, order)
          BY <2>7, <4>4, <4>5, <5>1, WriteSame
        <5> HIDE DEF v, n
        <5>. QED
          BY <4>1, <5>2 DEF v, order
      <4> HIDE DEF n
      <4>7. Same(m, n) /\ n.buffer = g.m.buffer \ {w} /\ DOMAIN n.node = DOMAIN g.m.node
        BY <2>1, <4>5, <4>6, SameSame DEF Written
      <4>. QED
        BY <2>1, <2>4, <2>6, <3>2, <4>7
    <3>. QED
      BY <3>1, <3>2
  <2> HIDE DEF n, t
  <2>10. n \in Mems
    BY <2>9, SameTyped
  <2>11. /\ todo \in Todos /\ Len(todo) = k + 1 /\ todo[k + 1] = q
         /\ \A i \in 1 .. k : todo[i] = g.todo[i]
    BY <2>1, <2>3, AppendProperties DEF Todos
  <2>12. ToSet(todo) = ToSet(g.todo) \cup {q}
    <3>1. DOMAIN todo = 1 .. k + 1 /\ DOMAIN g.todo = 1 .. k
      BY <2>1, <2>11, LenProperties DEF Todos
    <3>2. 1 .. k + 1 = (1 .. k) \cup {k + 1}
      BY <2>5
    <3> HIDE DEF todo, k
    <3>. QED
      BY <2>11, <3>1, <3>2 DEF ToSet
  <2> HIDE DEF todo, k
  <2>13. Up(e \div 2) = ToSet(todo) \cup Up(q \div 2)
    <3>1. Up(q) = {q} \cup Up(q \div 2)
      BY <2>3, UpStep
    <3>. QED
      BY <2>1, <2>12, <3>1
  <2>14. ASSUME NEW i \in 1 .. Len(todo)
         PROVE  todo[i] \in 2 .. e \div 2 /\ (i < Len(todo) => todo[i] \div 2 = todo[i + 1])
    <3>1. CASE i = k + 1
      BY <2>3, <2>5, <2>11, <3>1
    <3>2. CASE i = k
      <4>1. k # 0 /\ i \in 1 .. k
        BY <2>5, <3>2
      <4>2. todo[i] = g.todo[i] /\ g.todo[i] = x /\ todo[i + 1] = q /\ g.todo[i] \in 2 .. e \div 2
        BY <2>1, <2>11, <3>2, <4>1
      <4>. QED
        BY <4>2 DEF q
    <3>3. CASE i < k
      <4>1. i \in 1 .. k /\ i + 1 \in 1 .. k
        BY <2>5, <3>3
      <4>. QED
        BY <2>1, <2>11, <3>3, <4>1
    <3>. QED
      BY <2>5, <2>11, <3>1, <3>2, <3>3
  <2>15. t.m = n /\ t.at = q /\ t.todo = todo /\ t \in [m : Mems, at : Nat, todo : Todos]
    BY <2>2, <2>3, <2>10, <2>11
  <2>16. Climbing(m, e, t)
    <3>1. Len(todo) # 0 /\ todo[Len(todo)] = q
      BY <2>5, <2>11
    <3>2. q \in 2 .. e
      BY <2>3
    <3>3. (q - 1) \div 2 = w \div 2
      BY <2>4 DEF w
    <3>. QED
      BY <2>9, <2>13, <2>14, <2>15, <3>1, <3>2, <3>3 DEF Climbing
  <2>. QED
    BY <1>2, <2>15, <2>16 DEF t, q
<1>. QED
  BY <1>1, <1>2

\* The whole climb: it ends at an odd node, whose parent has leaves to come,
\* or after the last leaf at the children of the root.
Climbed(m, e, t) ==
    /\ Climbing(m, e, t)
    /\ e < 2 ^ (m.levels + 1) => t.at > 2 /\ t.at % 2 = 1
    /\ e = 2 ^ (m.levels + 1) => t.at = 2

LEMMA ClimbsUp ==
  ASSUME NEW m, Tree(m), m.levels \in Nat \ {0}, NEW e \in Nat, 2 ^ m.levels < e, e <= 2 ^ (m.levels + 1),
         NEW turn, turn.kept = m.buffer, NEW L \in Nat, DOMAIN turn.order = 1 .. L,
         NEW g, Climbing(m, e, g), g.at = e
  PROVE  Climbed(m, e, FoldLeft(Climb, g, [k \in 1 .. m.levels |-> turn]))
<1> DEFINE l == m.levels  P(j) == 2 ^ (l - j)  turns == [k \in 1 .. l |-> turn]
           GMems == [m : Mems, at : Nat, todo : Todos]
           Up1(j, x) == IF e = 2 * P(0) THEN x = 2 * P(j)
                        ELSE (P(j) < x /\ x < 2 * P(j)) \/ (x > 2 /\ x % 2 = 1)
           Good(j) == {t \in GMems : Climbing(m, e, t) /\ Up1(j, t.at)}
           Ok == [j \in Nat |-> Good(j)]
<1>0. \A n \in Nat : n - n = 0 /\ \A j \in 1 .. n : n - j \in Nat /\ n - (j - 1) = (n - j) + 1
  OBVIOUS
<1>1. \A j \in 0 .. l : P(j) \in Nat \ {0}
  <2>1. \A j \in 0 .. l : l - j \in Nat
    OBVIOUS
  <2>. QED
    BY <2>1, Powers
<1>2. ASSUME NEW j \in 1 .. l PROVE P(j - 1) = 2 * P(j)
  <2>1. l - j \in Nat /\ l - (j - 1) = (l - j) + 1
    BY <1>0
  <2>2. 2 ^ ((l - j) + 1) = 2 * 2 ^ (l - j)
    BY <2>1, Powers
  <2>. QED
    BY <2>1, <2>2
<1>3. P(l) = 1
  BY <1>0, PowerOfZero
<1>4. P(0) = 2 ^ l /\ 2 ^ (l + 1) = 2 * P(0) /\ P(0) \in Nat
  <2>1. l - 0 = l /\ l \in Nat
    OBVIOUS
  <2>2. 2 ^ (l + 1) = 2 * 2 ^ l /\ 2 ^ l \in Nat
    BY <2>1, Powers
  <2>. QED
    BY <2>1, <2>2
<1>5. e - 1 \in Nodes(m.levels)
  <2> DEFINE K == 2 ^ (l + 1)
  <2>1. K \in Nat /\ P(0) >= 1 /\ P(0) < e /\ e <= K
    BY <1>1, <1>4, SMTT(30)
  <2>2. Nodes(m.levels) = 1 .. K - 1
    BY DEF Nodes
  <2> HIDE DEF K, P
  <2>. QED
    BY <1>4, <2>1, <2>2
<1>6. g \in Good(0)
  <2>1. g \in GMems
    BY DEF Climbing
  <2>2. Up1(0, e)
    BY <1>4
  <2>. QED
    BY <2>1, <2>2
<1> HIDE DEF P
<1>7. ASSUME NEW j \in 1 .. l, NEW t \in Good(j - 1) PROVE Climb(t, turn) \in Good(j)
  <2> DEFINE u == Climb(t, turn)  x == t.at
  <2>1. Climbing(m, e, u) /\ u.at = IF x > 2 /\ x % 2 = 0 THEN x \div 2 ELSE x
    BY <1>5, ClimbKeeps, SMTT(30)
  <2>2. u \in GMems
    BY <2>1 DEF Climbing
  <2>3. x \in Nat /\ x >= 2
    BY DEF Climbing
  <2>4. P(j - 1) = 2 * P(j) /\ P(j) \in Nat \ {0}
    BY <1>1, <1>2
  <2>5. Up1(j - 1, x)
    OBVIOUS
  <2> HIDE DEF u, x
  <2>6. CASE e = 2 * P(0)
    <3>1. x = 4 * P(j)
      BY <2>4, <2>5, <2>6
    <3>2. x > 2 /\ x % 2 = 0 /\ x \div 2 = 2 * P(j)
      BY <2>4, <3>1, SMTT(30)
    <3>. QED
      BY <2>1, <2>2, <2>6, <3>2 DEF u
  <2>7. CASE e # 2 * P(0)
    <3>1. CASE x % 2 = 1
      <4>1. x > 2
        BY <2>3, <3>1
      <4>2. u.at = x
        BY <2>1, <3>1
      <4>. QED
        BY <2>1, <2>2, <2>7, <3>1, <4>1, <4>2 DEF u
    <3>2. CASE x % 2 # 1
      <4>1. 2 * P(j) < x /\ x < 4 * P(j)
        BY <2>4, <2>5, <2>7, <3>2
      <4>2. x % 2 = 0 /\ x > 2
        BY <2>3, <2>4, <3>2, <4>1
      <4>3. u.at = x \div 2 /\ x = 2 * (x \div 2) /\ x \div 2 \in Nat
        BY <2>1, <2>3, <4>2
      <4>4. P(j) < u.at /\ u.at < 2 * P(j)
        BY <2>4, <4>1, <4>3, SMTT(30)
      <4>. QED
        BY <2>1, <2>2, <2>7, <4>4 DEF u
    <3>. QED
      BY <3>1, <3>2
  <2>. QED
    BY <2>6, <2>7
<1>8. FoldLeft(Climb, g, turns) = Climbs!Fold(g, turns)
  BY DEF FoldLeft, Climbs!Fold, Climbs!MapThenFoldSet, MapThenFoldSet, Max, Climbs!Latest
<1>9. DOMAIN turns = 1 .. l /\ l \in Nat /\ \A k \in 1 .. l : turns[k] = turn
  OBVIOUS
<1> HIDE DEF Good, l, turns
<1>10. g \in Ok[0] /\ Ok[l] = Good(l) /\ \A j \in 1 .. l : \A x \in Ok[j - 1] : Climb(x, turns[j]) \in Ok[j]
  BY <1>6, <1>7, <1>9
<1> HIDE DEF Ok
<1>11. Climbs!Fold(g, turns) \in Ok[l]
  BY <1>9, <1>10, Climbs!FoldStays
<1>12. FoldLeft(Climb, g, turns) \in Good(l)
  BY <1>8, <1>10, <1>11
<1> DEFINE t == FoldLeft(Climb, g, turns)
<1>13. Climbing(m, e, t) /\ Up1(l, t.at) /\ t.at \in Nat
  BY <1>12 DEF Good
<1> HIDE DEF t
<1>14. e < 2 * P(0) => t.at > 2 /\ t.at % 2 = 1
  BY <1>3, <1>4, <1>13
<1>15. e = 2 * P(0) => t.at = 2
  BY <1>3, <1>13
<1>. QED
  BY <1>4, <1>13, <1>14, <1>15 DEF t, turns, l, Climbed

\* Before the new leaf e is written, its ancestors are in the buffer or to be
\* read, from the lowest up; nothing else is in the buffer but what was there.
Ready(m, e, g) ==
    /\ g \in [m : Mems, at : Nat, todo : Todos]
    /\ Same(m, g.m) /\ DOMAIN g.m.node = 1 .. e - 1
    /\ g.m.buffer \cup ToSet(g.todo) = m.buffer \cup Up(e \div 2)
    /\ \A i \in 1 .. Len(g.todo) :
          /\ g.todo[i] \in 1 .. e - 1
          /\ IF i < Len(g.todo) THEN g.todo[i] \div 2 = g.todo[i + 1]
             ELSE g.todo[i] = 1 \/ g.todo[i] \div 2 \in g.m.buffer

\* All new leaves are written.
Grown(m, g) ==
    /\ g \in [m : Mems, at : Nat, todo : Todos]
    /\ Same(m, g.m) /\ DOMAIN g.m.node = Nodes(m.levels) /\ g.m.buffer = m.buffer

LEMMA LeafRange ==
  ASSUME NEW m, Tree(m), m.levels \in Nat \ {0}, NEW a \in Nat, 2 ^ m.levels <= a, a < 2 ^ (m.levels + 1)
  PROVE  /\ a \in Nodes(m.levels) /\ 1 .. a - 1 \subseteq Nodes(m.levels) /\ a > 1
         /\ Nodes(m.levels) = 1 .. 2 ^ (m.levels + 1) - 1 /\ 2 ^ (m.levels + 1) \in Nat
<1> DEFINE l == m.levels  K == 2 ^ (l + 1)
<1>1. l \in Nat /\ l + 1 \in Nat /\ 1 <= l /\ 1 \in Nat /\ 0 \in Nat
  OBVIOUS
<1>2. K \in Nat /\ 2 ^ l \in Nat /\ 2 ^ 1 <= 2 ^ l
  BY <1>1, Powers, PowersGrow
<1>3. 2 ^ 1 = 2
  <2>1. 2 ^ (0 + 1) = 2 * 2 ^ 0
    BY Powers
  <2>. QED
    BY <2>1, PowerOfZero
<1>4. Nodes(m.levels) = 1 .. K - 1
  BY DEF Nodes
<1>5. a > 1
  BY <1>2, <1>3
<1> HIDE DEF K
<1>6. a \in 1 .. K - 1 /\ 1 .. a - 1 \subseteq 1 .. K - 1
  BY <1>2, <1>5 DEF K
<1>. QED
  BY <1>2, <1>4, <1>5, <1>6 DEF K

LEMMA VisitReads ==
  ASSUME NEW m, Tree(m), m.levels \in Nat \ {0}, NEW a \in Nat, 2 ^ m.levels <= a, a < 2 ^ (m.levels + 1),
         NEW g, Ready(m, a, g)
  PROVE  LET t == FoldLeft(ReadNode, g.m, Reverse(g.todo))
         IN  /\ Same(m, t) /\ DOMAIN t.node = 1 .. a - 1 /\ t.buffer = m.buffer \cup Up(a \div 2)
<1> DEFINE todo == g.todo  L == Len(todo)  path == Reverse(todo)  t == FoldLeft(ReadNode, g.m, path)
<1>1. /\ todo \in Todos /\ Same(m, g.m) /\ DOMAIN g.m.node = 1 .. a - 1
      /\ g.m.buffer \cup ToSet(todo) = m.buffer \cup Up(a \div 2)
      /\ \A i \in 1 .. L : /\ todo[i] \in 1 .. a - 1
                           /\ i < L => todo[i] \div 2 = todo[i + 1]
                           /\ i = L => todo[i] = 1 \/ todo[i] \div 2 \in g.m.buffer
  <2>1. /\ todo \in Todos /\ Same(m, g.m) /\ DOMAIN g.m.node = 1 .. a - 1
        /\ g.m.buffer \cup ToSet(todo) = m.buffer \cup Up(a \div 2)
        /\ \A i \in 1 .. Len(todo) :
              /\ todo[i] \in 1 .. a - 1
              /\ IF i < Len(todo) THEN todo[i] \div 2 = todo[i + 1]
                 ELSE todo[i] = 1 \/ todo[i] \div 2 \in g.m.buffer
    BY DEF Ready
  <2>2. Len(todo) \in Nat
    BY <2>1, LenProperties DEF Todos
  <2> HIDE DEF todo
  <2>3. ASSUME NEW i \in 1 .. L
        PROVE  /\ todo[i] \in 1 .. a - 1
               /\ i < L => todo[i] \div 2 = todo[i + 1]
               /\ i = L => todo[i] = 1 \/ todo[i] \div 2 \in g.m.buffer
    BY <2>1, <2>2
  <2>. QED
    BY <2>1, <2>3
<1>2. L \in Nat /\ DOMAIN todo = 1 .. L
  BY <1>1, LenProperties DEF Todos
<1>3. DOMAIN path = 1 .. L /\ \A i \in 1 .. L : path[i] = todo[L - i + 1]
  BY <1>2 DEF Reverse
<1> HIDE DEF path, todo, L, t
<1>4. {path[i] : i \in 1 .. L} = ToSet(todo)
  <2>1. \A i \in 1 .. L : L - i + 1 \in 1 .. L /\ L - (L - i + 1) + 1 = i
    BY <1>2
  <2>2. ToSet(todo) = {todo[i] : i \in 1 .. L}
    BY <1>2 DEF ToSet
  <2>3. ASSUME NEW i \in 1 .. L PROVE path[i] \in {todo[k] : k \in 1 .. L}
    BY <1>3, <2>1
  <2>4. ASSUME NEW i \in 1 .. L PROVE todo[i] \in {path[k] : k \in 1 .. L}
    <3>1. L - i + 1 \in 1 .. L /\ path[L - i + 1] = todo[i]
      BY <1>3, <2>1
    <3>. QED
      BY <3>1
  <2>5. {path[k] : k \in 1 .. L} \subseteq {todo[k] : k \in 1 .. L}
    BY <2>3
  <2>6. {todo[k] : k \in 1 .. L} \subseteq {path[k] : k \in 1 .. L}
    BY <2>4
  <2>. QED
    BY <2>2, <2>5, <2>6
<1>5. Tree(g.m) /\ g.m.levels = m.levels
  BY <1>1, SameTyped
<1>6. DOMAIN g.m.node \subseteq Nodes(g.m.levels)
  BY <1>1, <1>5, LeafRange
<1>7. \A i \in 1 .. L : path[i] \in DOMAIN g.m.node
  <2>1. \A i \in 1 .. L : L - i + 1 \in 1 .. L
    BY <1>2
  <2>. QED
    BY <1>1, <1>3, <2>1
<1>8. L > 0 => path[1] = 1 \/ path[1] \div 2 \in g.m.buffer
  <2>1. L > 0 => 1 \in 1 .. L /\ L - 1 + 1 = L /\ L \in 1 .. L
    BY <1>2
  <2>. QED
    BY <1>1, <1>3, <2>1, SMTT(30)
<1>9. ASSUME NEW i \in 2 .. L PROVE path[i] \div 2 = path[i - 1]
  <2> DEFINE j == L - i + 1
  <2>1. i \in 1 .. L /\ i - 1 \in 1 .. L /\ j \in 1 .. L /\ j < L /\ L - (i - 1) + 1 = j + 1
    BY <1>2
  <2>2. path[i] = todo[j] /\ path[i - 1] = todo[j + 1]
    BY <1>3, <2>1
  <2>. QED
    BY <1>1, <2>1, <2>2
<1>10. Same(g.m, t) /\ t.node = g.m.node /\ t.buffer = g.m.buffer \cup {path[j] : j \in 1 .. L}
  <2> DEFINE x == g.m
  <2>1. /\ Tree(x) /\ DOMAIN x.node \subseteq Nodes(x.levels) /\ DOMAIN path = 1 .. L /\ L \in Nat
        /\ \A i \in 1 .. L : path[i] \in DOMAIN x.node
        /\ (L > 0 => path[1] = 1 \/ path[1] \div 2 \in x.buffer)
        /\ \A i \in 2 .. L : path[i] \div 2 = path[i - 1]
    BY <1>2, <1>3, <1>5, <1>6, <1>7, <1>8, <1>9
  <2>2. t = FoldLeft(ReadNode, x, path)
    BY DEF t
  <2> HIDE DEF x
  <2>3. Same(x, t) /\ t.node = x.node /\ t.buffer = x.buffer \cup {path[j] : j \in 1 .. L}
    BY <2>1, <2>2, ReadDown, ZenonT(60)
  <2>. QED
    BY <2>3 DEF x
<1>. QED
  BY <1>1, <1>4, <1>10, SameSame DEF t, path, todo

LEMMA VisitKeeps ==
  ASSUME NEW m, Tree(m), m.levels \in Nat \ {0}, NEW a \in Nat, 2 ^ m.levels <= a, a < 2 ^ (m.levels + 1),
         NEW turn, turn.at = a, turn.kept = m.buffer, NEW L \in Nat, DOMAIN turn.order = 1 .. L,
         m.buffer \subseteq 1 .. 2 ^ m.levels - 1,
         NEW g, Ready(m, a, g)
  PROVE  /\ a + 1 < 2 ^ (m.levels + 1) => Ready(m, a + 1, Visit(g, turn))
         /\ a + 1 = 2 ^ (m.levels + 1) => Grown(m, Visit(g, turn))
<1> DEFINE ready == FoldLeft(ReadNode, g.m, Reverse(g.todo))
           n == WriteNode(ready, a, turn.order, TRUE)
           c == [m |-> n, at |-> a + 1, todo |-> << >>]
           turns == [k \in 1 .. ready.levels |-> turn]
           e == a + 1  t == FoldLeft(Climb, c, turns)
<1>0. /\ a \in Nodes(m.levels) /\ 1 .. a - 1 \subseteq Nodes(m.levels) /\ a > 1
      /\ Nodes(m.levels) = 1 .. 2 ^ (m.levels + 1) - 1 /\ 2 ^ (m.levels + 1) \in Nat
  BY LeafRange
<1>1. Visit(g, turn) = t
  BY DEF Visit
<1>2. /\ Same(m, ready) /\ DOMAIN ready.node = 1 .. a - 1 /\ ready.buffer = m.buffer \cup Up(a \div 2)
  BY VisitReads
<1> HIDE DEF ready
<1>3. Tree(ready) /\ ready.levels = m.levels
  BY <1>2, SameTyped
<1>4. ready.buffer \subseteq 1 .. a - 1
  BY <1>2, <1>3 DEF Tree
<1>5. a \div 2 \in Nat \ {0} /\ a \div 2 \in Up(a \div 2) /\ a \div 2 \in ready.buffer
  <2>1. a \div 2 \in Nat \ {0}
    BY <1>0, Halves, SMTT(30)
  <2>. QED
    BY <1>2, <2>1, UpFacts
<1>6. Writable(ready, a, TRUE)
  <2>1. a \notin 1 .. a - 1 /\ 2 * a \notin 1 .. a - 1 /\ 2 * a + 1 \notin 1 .. a - 1 /\ a # 1
    <3>1. a \in Nat /\ a > 1
      BY <1>0
    <3>. QED
      BY ONLY <3>1
  <2>2. IsLeaf(ready, a)
    BY <1>3 DEF IsLeaf
  <2>. QED
    BY <1>2, <1>4, <1>5, <2>1, <2>2 DEF Writable
<1>7. Same(ready, n) /\ Written(ready, n, a, turn.order)
  <2> DEFINE order == turn.order
  <2>1. DOMAIN order = 1 .. L /\ TRUE \in BOOLEAN
    OBVIOUS
  <2>2. DOMAIN ready.node \subseteq Nodes(ready.levels) /\ a \in Nodes(ready.levels)
    BY <1>0, <1>2, <1>3
  <2> HIDE DEF order
  <2>3. Same(ready, WriteNode(ready, a, order, TRUE)) /\ Written(ready, WriteNode(ready, a, order, TRUE), a, order)
    BY <1>3, <1>6, <2>1, <2>2, WriteSame
  <2>. QED
    BY <2>3 DEF order
<1> HIDE DEF n
<1>8. Same(m, n) /\ n.buffer = m.buffer \cup Up(a \div 2) /\ DOMAIN n.node = 1 .. e - 1 /\ n \in Mems
  <2>1. n.buffer = ready.buffer \ {a} /\ DOMAIN n.node = {a} \cup DOMAIN ready.node
    BY <1>7 DEF Written
  <2>2. a \notin 1 .. a - 1 /\ {a} \cup (1 .. a - 1) = 1 .. e - 1
    BY <1>0, SMTT(30)
  <2>3. Same(m, n)
    BY <1>2, <1>7, SameSame
  <2>. QED
    BY <1>2, <1>4, <2>1, <2>2, <2>3, SameTyped
<1>9. Climbing(m, e, c)
  <2>1. << >> \in Todos /\ Len(<< >>) = 0 /\ ToSet(<< >>) = {}
    BY EmptySeq DEF Todos, ToSet
  <2>2. c.m = n /\ c.at = e /\ c.todo = << >> /\ c \in [m : Mems, at : Nat, todo : Todos]
    BY <1>8, <2>1
  <2>3. e \in 2 .. e /\ e - 1 = a
    BY <1>0, SMTT(30)
  <2> HIDE DEF c
  <2>. QED
    BY <1>8, <2>1, <2>2, <2>3, SMTT(30) DEF Climbing
<1>10. /\ Climbing(m, e, t)
       /\ e < 2 ^ (m.levels + 1) => t.at > 2 /\ t.at % 2 = 1
       /\ e = 2 ^ (m.levels + 1) => t.at = 2
  <2>1. turns = [k \in 1 .. m.levels |-> turn] /\ c.at = e
    BY <1>3
  <2>2. e \in Nat /\ 2 ^ m.levels < e /\ e <= 2 ^ (m.levels + 1)
    <3>1. 2 ^ m.levels \in Nat
      BY Powers
    <3>. QED
      BY <1>0, <3>1, SMTT(30)
  <2> HIDE DEF c, e
  <2>3. Climbed(m, e, FoldLeft(Climb, c, [k \in 1 .. m.levels |-> turn]))
    <3>1. /\ Tree(m) /\ m.levels \in Nat \ {0} /\ turn.kept = m.buffer /\ L \in Nat
          /\ DOMAIN turn.order = 1 .. L /\ Climbing(m, e, c) /\ c.at = e
      BY <1>9, <2>1
    <3>. QED
      BY <2>2, <3>1, ClimbsUp, Zenon
  <2>. QED
    BY <2>1, <2>3 DEF Climbed
<1> HIDE DEF t, c, turns
<1>11. /\ t \in [m : Mems, at : Nat, todo : Todos]
       /\ Same(m, t.m) /\ DOMAIN t.m.node = 1 .. e - 1 /\ t.at \in 2 .. e
       /\ t.m.buffer = m.buffer \cup Up((t.at - 1) \div 2)
       /\ Up(e \div 2) = ToSet(t.todo) \cup Up(t.at \div 2)
       /\ (Len(t.todo) # 0 => t.todo[Len(t.todo)] = t.at)
       /\ \A i \in 1 .. Len(t.todo) : /\ t.todo[i] \in 2 .. e \div 2
                                      /\ i < Len(t.todo) => t.todo[i] \div 2 = t.todo[i + 1]
  BY <1>10 DEF Climbing
<1>12. ASSUME e < 2 ^ (m.levels + 1) PROVE Ready(m, e, t)
  <2> DEFINE x == t.at
  <2>1. x \in Nat /\ x > 2 /\ x % 2 = 1
    BY <1>10, <1>11, <1>12
  <2> HIDE DEF x
  <2>2. (x - 1) \div 2 = x \div 2 /\ x \div 2 \in Nat \ {0}
    BY <2>1
  <2>3. t.m.buffer = m.buffer \cup Up(x \div 2) /\ x \div 2 \in t.m.buffer
    BY <1>11, <2>2, UpFacts DEF x
  <2>4. t.m.buffer \cup ToSet(t.todo) = m.buffer \cup Up(e \div 2)
    BY <1>11, <2>3 DEF x
  <2>5. ASSUME NEW i \in 1 .. Len(t.todo)
        PROVE  /\ t.todo[i] \in 1 .. e - 1
               /\ IF i < Len(t.todo) THEN t.todo[i] \div 2 = t.todo[i + 1]
                  ELSE t.todo[i] = 1 \/ t.todo[i] \div 2 \in t.m.buffer
    <3>1. e \div 2 <= e - 1 /\ e \div 2 \in Nat /\ e \in Nat
      BY <1>0, SMTT(30)
    <3>2. t.todo[i] \in 1 .. e - 1
      <4> DEFINE y == t.todo[i]  h == e \div 2
      <4>1. y \in 2 .. h
        BY <1>11
      <4>2. h <= e - 1 /\ h \in Nat /\ e \in Nat
        BY <3>1
      <4> HIDE DEF e, y, h
      <4>3. y \in 1 .. e - 1
        BY <4>1, <4>2
      <4>. QED
        BY <4>3 DEF y
    <3>3. Len(t.todo) \in Nat
      BY <1>11, LenProperties DEF Todos
    <3>4. i < Len(t.todo) \/ (i = Len(t.todo) /\ Len(t.todo) # 0)
      BY <3>3
    <3>. QED
      BY <1>11, <2>3, <3>2, <3>4 DEF x
  <2>. QED
    BY <1>11, <2>4, <2>5 DEF Ready
<1>13. ASSUME e = 2 ^ (m.levels + 1) PROVE Grown(m, t)
  <2>1. t.at = 2 /\ (2 - 1) \div 2 = 0
    BY <1>10, <1>13
  <2>2. t.m.buffer = m.buffer
    BY <1>11, <2>1, UpZero
  <2>3. DOMAIN t.m.node = Nodes(m.levels)
    BY <1>0, <1>11, <1>13
  <2>. QED
    BY <1>11, <2>2, <2>3 DEF Grown
<1>. QED
  BY <1>1, <1>12, <1>13

-----------------------------------------------------------------------------
\* One more level, empty as yet.
LEMMA WholeTyped ==
  ASSUME NEW m \in Mems, NEW id
  PROVE  WholeIn(m, id) \in Data
<1> DEFINE a == At(m.stash, id)  f == ChunksDown(m, id)  L == m.levels + 1
           Ok == [n \in Nat |-> Data]
<1>1. L \in Nat /\ a \in Data
  BY MemTyped, AtTyped, VoramAssumption
<1>2. DOMAIN f = 1 .. L /\ \A i \in 1 .. L : f[i] \in Data
  BY ChunkOfTyped DEF ChunksDown
<1>3. \A n \in 1 .. L : \A x \in Ok[n - 1] : Concat(x, f[n]) \in Ok[n]
  <2>1. \A x, y \in Data : Concat(x, y) \in Data
    BY ConcatProperties DEF Concat, Data
  <2>2. \A n \in 0 .. L : Ok[n] = Data
    BY <1>1
  <2>3. \A n \in 1 .. L : n - 1 \in 0 .. L /\ n \in 0 .. L
    BY <1>1
  <2> HIDE DEF Ok, f, L
  <2>. QED
    BY <1>2, <2>1, <2>2, <2>3
<1>4. a \in Ok[0] /\ Ok[L] = Data
  BY <1>1
<1> HIDE DEF a, f, L, Ok
<1>5. Joins!Fold(a, f) \in Ok[L]
  BY <1>1, <1>2, <1>3, <1>4, Joins!FoldStays
<1>. QED
  BY <1>4, <1>5, WholeIs DEF a, f

LEMMA WholeGrown ==
  ASSUME NEW m, Tree(m), m.levels < MaxLevels, DOMAIN m.node = Nodes(m.levels), NEW id \in Idents
  PROVE  WholeIn([m EXCEPT !.levels = m.levels + 1], id) = WholeIn(m, id)
<1> DEFINE n == [m EXCEPT !.levels = m.levels + 1]  l == m.levels + 1
           f == ChunksDown(m, id)  g == ChunksDown(n, id)  a == At(m.stash, id)
<1>1. m \in Mems /\ l \in Nat /\ l \in 0 .. MaxLevels /\ MaxLevels \in Nat /\ m.levels \in Nat
  BY MemTyped, VoramAssumption DEF Tree
<1>2. n.levels = l /\ n.stash = m.stash /\ n.node = m.node /\ n.buffer = m.buffer
  BY <1>1 DEF Mems
<1>3. Path(n, id) = [i \in 1 .. l + 1 |-> Ancestor(id, i - 1)] /\ Path(m, id) = [i \in 1 .. l |-> Ancestor(id, i - 1)]
  BY <1>2 DEF Path
<1>4. ASSUME NEW i \in 1 .. l PROVE g[i] = f[i] /\ i \in 1 .. l + 1
  <2>1. i \in 1 .. l + 1
    BY <1>1
  <2>2. Path(n, id)[i] = Path(m, id)[i]
    BY <1>3, <2>1
  <2> HIDE DEF n
  <2>. QED
    BY <1>2, <2>1, <2>2 DEF ChunksDown, ChunkOf
<1>5. g[l + 1] = << >>
  <2> DEFINE p == Ancestor(id, l)  K == 2 ^ l
  <2>1. l + 1 \in 1 .. l + 1 /\ Path(n, id)[l + 1] = p
    <3>1. l + 1 \in 1 .. l + 1 /\ (l + 1) - 1 = l
      BY <1>1
    <3> HIDE DEF l, n
    <3>. QED
      BY <1>3, <3>1 DEF p
  <2>2. K <= p /\ p \in Nat /\ K \in Nat
    BY <1>1, AncestorFacts, Powers
  <2>3. DOMAIN m.node = 1 .. K - 1
    BY DEF Nodes
  <2> HIDE DEF K, p
  <2>4. p \notin DOMAIN m.node
    BY <2>2, <2>3
  <2> HIDE DEF n
  <2>. QED
    BY <1>2, <2>1, <2>4 DEF ChunksDown, ChunkOf
<1>6. Joins!Prefix(g, l) = f /\ Joins!Prefix(g, l + 1) = g
  <2>1. DOMAIN g = 1 .. l + 1 /\ DOMAIN f = 1 .. l /\ g = [i \in 1 .. l + 1 |-> g[i]] /\ f = [i \in 1 .. l |-> f[i]]
    <3> HIDE DEF n
    <3>. QED
      BY <1>2 DEF ChunksDown
  <2> HIDE DEF f, g
  <2>2. [i \in 1 .. l |-> g[i]] = f
    BY <1>4, <2>1
  <2>. QED
    BY <2>1, <2>2 DEF Joins!Prefix
<1>7. Joins!Fold(a, Joins!Prefix(g, l + 1)) = Concat(Joins!Fold(a, Joins!Prefix(g, l)), g[l + 1])
  <2>1. l + 1 \in Nat \ {0} /\ (l + 1) - 1 = l
    BY <1>1
  <2> HIDE DEF a, g, l
  <2>2. Joins!Fold(a, Joins!Prefix(g, l + 1)) = Concat(Joins!Fold(a, Joins!Prefix(g, (l + 1) - 1)), g[l + 1])
    BY <2>1, Joins!FoldGoesOn
  <2>. QED
    BY <2>1, <2>2
<1>8. WholeIn(m, id) = Joins!Fold(a, f) /\ WholeIn(n, id) = Joins!Fold(a, g)
  <2> HIDE DEF n
  <2>. QED
    BY <1>2, WholeIs
<1>9. Joins!Fold(a, f) \in Data
  BY <1>1, <1>8, WholeTyped
<1> HIDE DEF n, f, g, a
<1>10. WholeIn(n, id) = Joins!Fold(a, f) \o << >>
  BY <1>5, <1>6, <1>7, <1>8 DEF Concat
<1>. QED
  BY <1>8, <1>9, <1>10, NoData DEF n

\* The nodes to read before the first new leaf is written.
LEMMA FirstTodo ==
  ASSUME NEW l \in Nat \ {0}
  PROVE  LET todo == [i \in 1 .. l |-> 2 ^ (l - i)]
         IN  /\ todo \in Todos /\ Len(todo) = l /\ ToSet(todo) = Up(2 ^ l \div 2)
             /\ \A i \in 1 .. l : /\ todo[i] \in 1 .. 2 ^ l - 1
                                  /\ IF i < l THEN todo[i] \div 2 = todo[i + 1] ELSE todo[i] = 1
<1> DEFINE todo == [i \in 1 .. l |-> 2 ^ (l - i)]
<1>1. \A i \in 1 .. l : l - i \in Nat /\ 2 ^ (l - i) \in Nat \ {0}
  BY Powers
<1>2. todo \in Todos /\ Len(todo) = l /\ DOMAIN todo = 1 .. l
  BY <1>1 DEF Todos
<1>3. ToSet(todo) = Up(2 ^ l \div 2)
  BY UpOfPower, <1>2 DEF ToSet
<1>4. ASSUME NEW i \in 1 .. l PROVE todo[i] \in 1 .. 2 ^ l - 1
  <2> DEFINE x == 2 ^ (l - i)  y == 2 ^ (l - 1)  z == 2 ^ l
  <2>1. l - i \in Nat /\ l - 1 \in Nat /\ l - i <= l - 1 /\ (l - 1) + 1 = l
    OBVIOUS
  <2>2. x \in Nat \ {0} /\ y \in Nat \ {0} /\ x <= y /\ 2 ^ ((l - 1) + 1) = 2 * y
    BY <2>1, Powers, PowersGrow
  <2>3. z = 2 * y
    BY <2>1, <2>2
  <2>4. todo[i] = x
    OBVIOUS
  <2> HIDE DEF x, y, z, todo
  <2>5. x \in 1 .. z - 1
    BY <2>2, <2>3
  <2>. QED
    BY <2>4, <2>5 DEF z
<1>5. ASSUME NEW i \in 1 .. l, i < l PROVE todo[i] \div 2 = todo[i + 1]
  <2> DEFINE x == 2 ^ (l - i)  y == 2 ^ (l - (i + 1))
  <2>1. i + 1 \in 1 .. l /\ l - (i + 1) \in Nat /\ l - i = (l - (i + 1)) + 1
    BY <1>5
  <2>2. y \in Nat /\ 2 ^ ((l - (i + 1)) + 1) = 2 * y
    BY <2>1, Powers
  <2>3. x = 2 * y
    BY <2>1, <2>2
  <2>4. todo[i] = x /\ todo[i + 1] = y
    BY <2>1
  <2> HIDE DEF x, y, todo
  <2>5. x \div 2 = y
    BY <2>2, <2>3
  <2>. QED
    BY <2>4, <2>5
<1>6. ASSUME NEW i \in 1 .. l, ~(i < l) PROVE todo[i] = 1
  <2>1. l - i = 0
    BY <1>6
  <2>2. todo[i] = 2 ^ (l - i)
    OBVIOUS
  <2>. QED
    BY <2>1, <2>2, PowerOfZero
<1>. QED
  BY <1>2, <1>3, <1>4, <1>5, <1>6

LEMMA DeeperTree ==
  ASSUME NEW m, Tree(m), m.levels < MaxLevels
  PROVE  LET n == [m EXCEPT !.levels = m.levels + 1]
         IN  /\ Tree(n) /\ n.levels = m.levels + 1 /\ n.levels \in Nat \ {0} /\ m.levels \in Nat
             /\ n.node = m.node /\ n.buffer = m.buffer /\ n.stash = m.stash /\ StoredIn(n) = StoredIn(m)
<1> DEFINE n == [m EXCEPT !.levels = m.levels + 1]
<1>1. m \in Mems /\ m.levels \in InitialLevels .. MaxLevels
  BY MemTyped DEF Tree
<1>2. m.levels + 1 \in InitialLevels .. MaxLevels /\ m.levels + 1 \in Nat \ {0} /\ m.levels \in Nat
  BY <1>1, VoramAssumption
<1>3. /\ n \in Mems /\ n.levels = m.levels + 1 /\ n.node = m.node /\ n.buffer = m.buffer
      /\ n.stash = m.stash /\ n.keys = m.keys /\ n.fault = m.fault
  BY <1>1, <1>2 DEF Mems
<1> HIDE DEF n
<1>4. Tree(n)
  BY <1>3 DEF Tree, Keyed, Locked
<1>5. StoredIn(n) = StoredIn(m)
  BY <1>3 DEF StoredIn
<1>. QED
  BY <1>2, <1>3, <1>4, <1>5 DEF n

\* The whole of grow(): the blobs and the buffer are as before, the tree has
\* all the nodes of one more level.
LEMMA EnlargedSame ==
  ASSUME NEW m, Tree(m), m.levels < MaxLevels, DOMAIN m.node = Nodes(m.levels),
         NEW order, NEW L \in Nat, DOMAIN order = 1 .. L
  PROVE  LET n == Enlarged(m, order)
         IN  /\ Tree(n) /\ n.levels = m.levels + 1 /\ DOMAIN n.node = Nodes(n.levels) /\ n.buffer = m.buffer
             /\ StoredIn(n) = StoredIn(m)
             /\ \A id \in Idents : WholeIn(n, id) = WholeIn(m, id)
<1> DEFINE l == m.levels + 1  d == [m EXCEPT !.levels = l]  K == 2 ^ l
           g == [m |-> d, at |-> K, todo |-> [i \in 1 .. l |-> 2 ^ (l - i)]]
           turns == [i \in 1 .. K |-> [at |-> K + i - 1, order |-> order, kept |-> m.buffer]]
           G == [m : Mems, at : Nat, todo : Todos]
           Good(i) == IF i < K THEN {x \in G : Ready(d, K + i, x)} ELSE {x \in G : Grown(d, x)}
           Ok == [i \in Nat |-> Good(i)]
<1>1. /\ Tree(d) /\ d.levels = l /\ l \in Nat \ {0} /\ m.levels \in Nat
      /\ d.node = m.node /\ d.buffer = m.buffer /\ d.stash = m.stash /\ StoredIn(d) = StoredIn(m)
  BY DeeperTree
<1>2. K \in Nat \ {0} /\ 2 ^ (l + 1) = 2 * K /\ 1 <= K
  <2>1. l \in Nat
    BY <1>1
  <2> HIDE DEF l
  <2>2. K \in Nat \ {0} /\ 2 ^ (l + 1) = 2 * K
    BY <2>1, Powers
  <2>. QED
    BY <2>2
<1>3. DOMAIN d.node = 1 .. K - 1 /\ d.buffer \subseteq 1 .. K - 1
  BY <1>1 DEF Nodes, Tree
<1>4. Enlarged(m, order) = FoldLeft(Visit, g, turns).m
  BY DEF Enlarged
<1>5. Ready(d, K, g) /\ g \in G
  <2> DEFINE todo == [i \in 1 .. l |-> 2 ^ (l - i)]
  <2>1. /\ todo \in Todos /\ Len(todo) = l /\ ToSet(todo) = Up(2 ^ l \div 2)
        /\ \A i \in 1 .. l : /\ todo[i] \in 1 .. 2 ^ l - 1
                             /\ IF i < l THEN todo[i] \div 2 = todo[i + 1] ELSE todo[i] = 1
    BY <1>1, FirstTodo
  <2>2. g.m = d /\ g.at = K /\ g.todo = todo
    OBVIOUS
  <2>3. d \in Mems /\ Same(d, d)
    BY <1>1, SameSelf DEF Tree
  <2>4. g \in G
    BY <1>2, <2>1, <2>3
  <2> HIDE DEF g, d, todo, l
  <2>. QED
    BY <1>1, <1>3, <2>1, <2>2, <2>3, <2>4 DEF Ready
<1> HIDE DEF g, d, l, K
<1>6. g \in Good(0) /\ 0 \in Nat
  <2>1. 0 < K /\ K + 0 = K
    BY <1>2
  <2>. QED
    BY <1>5, <2>1
<1>7. ASSUME NEW i \in 1 .. K, NEW x \in Good(i - 1) PROVE Visit(x, turns[i]) \in Good(i)
  <2> DEFINE turn == turns[i]  a == K + i - 1  v == Visit(x, turn)
  <2>1. turn.at = a /\ turn.kept = d.buffer /\ turn.order = order
    BY <1>1
  <2>2. /\ a \in Nat /\ K <= a /\ a < 2 * K /\ i - 1 < K /\ K + (i - 1) = a /\ a + 1 = K + i
        /\ (i < K => a + 1 < 2 * K) /\ (~(i < K) => a + 1 = 2 * K)
    BY <1>2
  <2>3. x \in G /\ Ready(d, a, x)
    BY <2>2
  <2>4. /\ 2 ^ d.levels <= a /\ a < 2 ^ (d.levels + 1) /\ a \in Nat /\ d.levels \in Nat \ {0}
        /\ d.buffer \subseteq 1 .. 2 ^ d.levels - 1
    BY <1>1, <1>2, <1>3, <2>2 DEF K
  <2> HIDE DEF turn, a, v
  <2>5. /\ a + 1 < 2 ^ (d.levels + 1) => Ready(d, a + 1, v)
        /\ a + 1 = 2 ^ (d.levels + 1) => Grown(d, v)
    <3>1. Tree(d) /\ L \in Nat /\ DOMAIN turn.order = 1 .. L
      BY <1>1, <2>1
    <3>. QED
      BY <2>1, <2>3, <2>4, <3>1, VisitKeeps, Zenon DEF v
  <2>6. 2 ^ (d.levels + 1) = 2 * K
    BY <1>1, <1>2
  <2>7. i < K => Ready(d, K + i, v) /\ v \in G
    BY <2>2, <2>5, <2>6 DEF Ready
  <2>8. ~(i < K) => Grown(d, v) /\ v \in G
    BY <2>2, <2>5, <2>6 DEF Grown
  <2>. QED
    BY <2>7, <2>8 DEF v, turn
<1>8. FoldLeft(Visit, g, turns) = Visits!Fold(g, turns)
  BY DEF FoldLeft, Visits!Fold, Visits!MapThenFoldSet, MapThenFoldSet, Max, Visits!Latest
<1>9. DOMAIN turns = 1 .. K /\ K \in Nat
  BY <1>2
<1>10. Good(K) = {x \in G : Grown(d, x)}
  BY <1>2
<1> HIDE DEF Good, turns
<1>11. g \in Ok[0] /\ Ok[K] = Good(K) /\ \A j \in 1 .. K : \A x \in Ok[j - 1] : Visit(x, turns[j]) \in Ok[j]
  <2>1. Ok[0] = Good(0) /\ Ok[K] = Good(K)
    BY <1>2
  <2>2. \A j \in 1 .. K : Ok[j - 1] = Good(j - 1) /\ Ok[j] = Good(j)
    BY <1>2
  <2> HIDE DEF Ok
  <2>. QED
    BY <1>6, <1>7, <2>1, <2>2
<1> HIDE DEF Ok
<1>12. Visits!Fold(g, turns) \in Ok[K]
  BY <1>9, <1>11, Visits!FoldStays
<1> DEFINE n == Enlarged(m, order)
<1>13. Grown(d, FoldLeft(Visit, g, turns))
  BY <1>8, <1>10, <1>11, <1>12
<1>14. Same(d, n) /\ DOMAIN n.node = Nodes(d.levels) /\ n.buffer = d.buffer
  BY <1>4, <1>13 DEF Grown
<1>15. \A id \in Idents : WholeIn(d, id) = WholeIn(m, id)
  BY WholeGrown DEF d, l
<1> HIDE DEF n
<1>. QED
  BY <1>1, <1>14, <1>15 DEF Same, n, l

-----------------------------------------------------------------------------
\* What the methods put into the stash and take out of it.

\* Another stash: the tree below it does not mind.
LEMMA OtherStash ==
  ASSUME NEW m, Tree(m), NEW s \in Stashes
  PROVE  LET n == [m EXCEPT !.stash = s]
         IN  /\ Tree(n) /\ n.levels = m.levels /\ n.node = m.node /\ n.buffer = m.buffer /\ n.stash = s
             /\ \A id : ChunksDown(n, id) = ChunksDown(m, id)
<1> DEFINE n == [m EXCEPT !.stash = s]
<1>1. m \in Mems
  BY DEF Tree
<1>2. /\ n \in Mems /\ n.levels = m.levels /\ n.node = m.node /\ n.buffer = m.buffer
      /\ n.stash = s /\ n.keys = m.keys /\ n.fault = m.fault
  BY <1>1 DEF Mems
<1> HIDE DEF n
<1>3. Tree(n)
  BY <1>2 DEF Tree, Keyed, Locked
<1>4. \A id : ChunksDown(n, id) = ChunksDown(m, id)
  BY <1>2 DEF ChunksDown, Path, ChunkOf
<1>. QED
  BY <1>2, <1>3, <1>4 DEF n

\* A blob with no chunk at rest is in the stash, all of it.
LEMMA AllInStash ==
  ASSUME NEW m, Tree(m), NEW id, \A p \in DOMAIN m.node \ m.buffer : id \notin ChunkIds(m.node[p])
  PROVE  WholeIn(m, id) = At(m.stash, id)
<1> DEFINE a == At(m.stash, id)  f == ChunksDown(m, id)  L == m.levels + 1
<1>1. m \in Mems
  BY DEF Tree
<1>2. L \in Nat /\ a \in Data
  BY <1>1, MemTyped, AtTyped, VoramAssumption
<1>3. ASSUME NEW p PROVE ChunkOf(m, p, id) = << >>
  <2>1. CASE p \in m.buffer \/ p \notin DOMAIN m.node
    BY <2>1 DEF ChunkOf
  <2>2. CASE p \in DOMAIN m.node \ m.buffer
    <3>1. m.node[p].chunks \in Chunks /\ id \notin IdsIn(m.node[p].chunks)
      BY <1>1, <2>2, MemTyped DEF IdsIn, ChunkIds
    <3>. QED
      BY <2>2, <3>1, NoPieces DEF ChunkOf
  <2>. QED
    BY <2>1, <2>2
<1>4. DOMAIN f = 1 .. L /\ \A i \in 1 .. L : f[i] = << >>
  BY <1>3 DEF ChunksDown
<1> HIDE DEF a, f, L
<1>5. Joins!Fold(a, f) = a
  BY <1>2, <1>4, JoinNothing
<1>. QED
  BY <1>5, WholeIs DEF a, f

\* fetch(): after a path is read, all of its blob is in the stash, and nothing
\* of another blob goes with it.
LEMMA FetchSame ==
  ASSUME NEW m, Tree(m), DOMAIN m.node = Nodes(m.levels), NEW id \in Idents
  PROVE  LET r == ReadPath(m, id)
             n == [r EXCEPT !.stash = Without(r.stash, {id})]
         IN  /\ Tree(n) /\ n.levels = m.levels /\ n.node = m.node /\ m.buffer \subseteq n.buffer
             /\ StoredIn(n) = StoredIn(m) \ {id}
             /\ At(r.stash, id) = WholeIn(m, id)
             /\ \A other \in Idents \ {id} : WholeIn(n, other) = WholeIn(m, other)
<1> DEFINE r == ReadPath(m, id)  s == Without(r.stash, {id})  n == [r EXCEPT !.stash = s]
<1>1. /\ Same(m, r) /\ r.node = m.node /\ m.buffer \subseteq r.buffer
      /\ \A i \in 1 .. m.levels + 1 : Path(m, id)[i] \in r.buffer
  BY ReadPathSame
<1> HIDE DEF r
<1>2. Tree(r) /\ r \in Mems /\ r.levels = m.levels /\ StoredIn(r) = StoredIn(m)
  BY <1>1, SameTyped DEF Same
<1>3. r.stash \in Stashes
  BY <1>2, MemTyped
<1>4. s \in Stashes /\ DOMAIN s = DOMAIN r.stash \ {id} /\ \A z \in DOMAIN r.stash \ {id} : s[z] = r.stash[z]
  <2> DEFINE f == r.stash  X == {id}
  <2>1. f \in Partial(Idents, Data)
    BY <1>3 DEF Stashes
  <2> HIDE DEF f, X
  <2>2. /\ Without(f, X) \in Partial(Idents, Data) /\ DOMAIN Without(f, X) = DOMAIN f \ X
        /\ \A z \in DOMAIN f \ X : Without(f, X)[z] = f[z]
    <3>1. /\ DOMAIN Without(f, X) = DOMAIN f \ X
          /\ \A z \in DOMAIN f \ X : Without(f, X)[z] = f[z]
      BY DEF Without
    <3>2. Without(f, X) \in Partial(Idents, Data)
      BY <2>1, WithoutTyped, Zenon
    <3>. QED
      BY <3>1, <3>2
  <2>. QED
    BY <2>2 DEF f, X, Stashes
<1> HIDE DEF s
<1>5. /\ Tree(n) /\ n.levels = r.levels /\ n.node = r.node /\ n.buffer = r.buffer /\ n.stash = s
      /\ \A other : ChunksDown(n, other) = ChunksDown(r, other)
  BY <1>2, <1>4, OtherStash
<1> HIDE DEF n
<1>6. ASSUME NEW p \in DOMAIN r.node \ r.buffer PROVE id \notin ChunkIds(r.node[p])
  <2>1. Fits(r.node[p], p) /\ p \in Nodes(m.levels)
    BY <1>1, <1>2 DEF Tree
  <2>2. m.levels \in 0 .. MaxLevels
    BY <1>2, MemTyped, VoramAssumption
  <2>3. ~OnPath(id, p)
    <3>1. OnPath(id, p) => \E i \in 1 .. m.levels + 1 : Path(m, id)[i] = p
      BY <2>1, <2>2, PathFacts
    <3>. QED
      BY <1>1, <3>1
  <2>. QED
    BY <2>1, <2>3 DEF Fits, ChunkIds
<1>7. At(r.stash, id) = WholeIn(m, id)
  <2>1. WholeIn(r, id) = At(r.stash, id)
    BY <1>2, <1>6, AllInStash
  <2>. QED
    BY <1>1, <2>1 DEF Same
<1>8. StoredIn(n) = StoredIn(m) \ {id}
  <2>1. StoredIn(r) = DOMAIN r.stash \cup UNION {ChunkIds(r.node[p]) : p \in DOMAIN r.node \ r.buffer}
    BY DEF StoredIn
  <2>2. StoredIn(n) = (DOMAIN r.stash \ {id}) \cup UNION {ChunkIds(r.node[p]) : p \in DOMAIN r.node \ r.buffer}
    BY <1>4, <1>5 DEF StoredIn
  <2>3. id \notin UNION {ChunkIds(r.node[p]) : p \in DOMAIN r.node \ r.buffer}
    BY <1>6
  <2>. QED
    BY <1>2, <2>1, <2>2, <2>3
<1>9. ASSUME NEW other \in Idents \ {id} PROVE WholeIn(n, other) = WholeIn(m, other)
  <2>1. At(n.stash, other) = At(r.stash, other)
    BY <1>4, <1>5 DEF At
  <2>2. WholeIn(n, other) = WholeIn(r, other)
    BY <1>5, <2>1, WholeIs
  <2>. QED
    BY <1>1, <2>2 DEF Same
<1>. QED
  BY <1>1, <1>2, <1>5, <1>7, <1>8, <1>9 DEF n, s, r

\* finalize(): the blobs of the cache go to the stash.
LEMMA StashSame ==
  ASSUME NEW m, Tree(m), NEW c \in Stashes, DOMAIN c \cap StoredIn(m) = {}
  PROVE  LET n == [m EXCEPT !.stash = Over(c, m.stash)]
         IN  /\ Tree(n) /\ n.levels = m.levels /\ n.node = m.node /\ n.buffer = m.buffer
             /\ StoredIn(n) = DOMAIN c \cup StoredIn(m)
             /\ \A id \in DOMAIN c : WholeIn(n, id) = c[id]
             /\ \A id \in Idents \ DOMAIN c : WholeIn(n, id) = WholeIn(m, id)
<1> DEFINE s == Over(c, m.stash)  n == [m EXCEPT !.stash = s]
<1>1. m \in Mems /\ m.stash \in Stashes
  BY MemTyped DEF Tree
<1>2. s \in Stashes /\ DOMAIN s = DOMAIN c \cup DOMAIN m.stash
  <2> DEFINE f == m.stash
  <2>1. f \in Partial(Idents, Data) /\ c \in Partial(Idents, Data)
    BY <1>1 DEF Stashes
  <2> HIDE DEF f
  <2>2. Over(c, f) \in Partial(Idents, Data) /\ DOMAIN Over(c, f) = DOMAIN c \cup DOMAIN f
    BY <2>1, OverTyped
  <2>. QED
    BY <2>2 DEF f, Stashes
<1>3. \A id \in DOMAIN s : s[id] = IF id \in DOMAIN c THEN c[id] ELSE m.stash[id]
  BY <1>2 DEF Over
<1> HIDE DEF s
<1>4. /\ Tree(n) /\ n.levels = m.levels /\ n.node = m.node /\ n.buffer = m.buffer /\ n.stash = s
      /\ \A id : ChunksDown(n, id) = ChunksDown(m, id)
  BY <1>2, OtherStash
<1> HIDE DEF n
<1>5. StoredIn(n) = DOMAIN c \cup StoredIn(m)
  BY <1>2, <1>4 DEF StoredIn
<1>6. ASSUME NEW id \in DOMAIN c PROVE WholeIn(n, id) = c[id]
  <2>1. \A p \in DOMAIN n.node \ n.buffer : id \notin ChunkIds(n.node[p])
    BY <1>4 DEF StoredIn
  <2>2. WholeIn(n, id) = At(n.stash, id)
    BY <1>4, <2>1, AllInStash
  <2>. QED
    BY <1>2, <1>3, <1>4, <2>2 DEF At
<1>7. ASSUME NEW id \in Idents \ DOMAIN c PROVE WholeIn(n, id) = WholeIn(m, id)
  <2>1. At(n.stash, id) = At(m.stash, id)
    BY <1>2, <1>3, <1>4 DEF At
  <2>. QED
    BY <1>4, <2>1, WholeIs
<1>. QED
  BY <1>4, <1>5, <1>6, <1>7 DEF n, s

-----------------------------------------------------------------------------
\* There is a name left for a new blob.
LEMMA MostBlobs ==
  /\ Max(Range(MaxBlobs)) \in Nat
  /\ \A l \in InitialLevels .. MaxLevels : MaxBlobs[l] <= Max(Range(MaxBlobs))
<1> DEFINE I == InitialLevels  M == MaxLevels  R == Range(MaxBlobs)
           Bound(l, b) == \A k \in I .. l : MaxBlobs[k] <= b
           T == {l \in I .. M : ~\E b \in Nat : Bound(l, b)}
           B == {b \in Nat : Bound(M, b)}
<1>1. I \in Nat /\ M \in Nat /\ I <= M /\ DOMAIN MaxBlobs = I .. M /\ \A l \in I .. M : MaxBlobs[l] \in Nat \ {0}
  BY VoramAssumption
<1>2. T = {}
  <2> SUFFICES ASSUME T # {} PROVE FALSE
    OBVIOUS
  <2>1. PICK x \in T : \A y \in T : x <= y
    <3>1. T \in SUBSET Nat
      BY <1>1
    <3> HIDE DEF T
    <3>. QED
      BY <3>1, Readings!Least
  <2>2. x \in I .. M /\ ~\E b \in Nat : Bound(x, b)
    BY <2>1
  <2>3. CASE x = I
    BY <1>1, <2>2, <2>3
  <2>4. CASE x # I
    <3>1. x - 1 \in I .. M /\ ~(x <= x - 1) /\ \A k \in I .. x : k = x \/ k \in I .. x - 1
      BY <1>1, <2>2, <2>4
    <3>2. PICK b \in Nat : Bound(x - 1, b)
      BY <2>1, <3>1
    <3>3. CASE MaxBlobs[x] <= b
      BY <2>2, <3>1, <3>2, <3>3
    <3>4. CASE ~(MaxBlobs[x] <= b)
      <4>1. MaxBlobs[x] \in Nat /\ \A k \in I .. x - 1 : MaxBlobs[k] \in Nat /\ MaxBlobs[k] <= b
        BY <1>1, <2>2, <3>2, SMTT(30)
      <4>2. Bound(x, MaxBlobs[x])
        BY <3>1, <3>4, <4>1
      <4>. QED
        BY <2>2, <4>1, <4>2
    <3>. QED
      BY <3>3, <3>4
  <2>. QED
    BY <2>3, <2>4
<1>3. PICK b \in B : \A y \in B : b <= y
  <2>1. B \in SUBSET Nat /\ B # {}
    <3>1. M \in I .. M
      BY <1>1
    <3>. QED
      BY <1>2, <3>1
  <2> HIDE DEF B
  <2>. QED
    BY <2>1, Readings!Least
<1>4. b \in R
  <2> SUFFICES ASSUME b \notin R PROVE FALSE
    OBVIOUS
  <2>1. \A k \in I .. M : MaxBlobs[k] \in Nat \ {0} /\ MaxBlobs[k] <= b /\ MaxBlobs[k] # b
    BY <1>1, <1>3 DEF Range
  <2>2. I \in I .. M /\ b \in Nat
    BY <1>1, <1>3
  <2>3. b - 1 \in Nat /\ Bound(M, b - 1)
    BY <2>1, <2>2
  <2>. QED
    BY <1>3, <2>2, <2>3
<1>5. \A y \in R : b >= y
  BY <1>1, <1>3 DEF Range
<1>6. Max(R) \in R /\ \A y \in R : Max(R) >= y
  <2> HIDE DEF R
  <2>. QED
    BY <1>4, <1>5 DEF Max
<1>7. \A l \in I .. M : MaxBlobs[l] \in R
  BY <1>1 DEF Range
<1>8. \A y \in R : y \in Nat
  BY <1>1 DEF Range
<1>. QED
  BY <1>6, <1>7, <1>8

LEMMA FreeName ==
  ASSUME NEW H, IsFiniteSet(H), NEW l \in InitialLevels .. MaxLevels, Cardinality(H) <= MaxBlobs[l], NEW a
  PROVE  LET k == Min({n \in Names : [at |-> a, name |-> n] \notin H})
         IN  k \in Names /\ [at |-> a, name |-> k] \notin H
<1> DEFINE M == Max(Range(MaxBlobs))  F == {n \in Names : [at |-> a, name |-> n] \notin H}
           f == [n \in Names |-> [at |-> a, name |-> n]]
<1>1. M \in Nat /\ MaxBlobs[l] <= M /\ MaxBlobs[l] \in Nat /\ Names = 0 .. M
  BY MostBlobs, VoramAssumption DEF Names
<1> HIDE DEF M
<1>2. IsFiniteSet(Names) /\ Cardinality(Names) = M + 1
  BY <1>1, FS_Interval
<1>3. Cardinality(H) \in Nat
  BY FS_CardinalityType
<1>4. F # {}
  <2> SUFFICES ASSUME F = {} PROVE FALSE
    OBVIOUS
  <2>1. f \in [Names -> H]
    OBVIOUS
  <2>2. Cardinality(H) < Cardinality(Names)
    BY <1>1, <1>2, <1>3
  <2>3. \A x, y \in Names : f[x] = f[y] => x = y
    <3>1. ASSUME NEW x \in Names, NEW y \in Names, f[x] = f[y] PROVE x = y
      <4>1. f[x].name = x /\ f[y].name = y
        OBVIOUS
      <4>. QED
        BY <3>1, <4>1
    <3>. QED
      BY <3>1
  <2> HIDE DEF f
  <2>4. \E x, y \in Names : x # y /\ f[x] = f[y]
    BY <1>2, <2>1, <2>2, FS_PigeonHole
  <2>. QED
    BY <2>3, <2>4
<1>5. PICK k \in F : \A y \in F : k <= y
  <2>1. F \in SUBSET Nat
    BY <1>1
  <2> HIDE DEF F
  <2>. QED
    BY <1>4, <2>1, Readings!Least
<1>6. Min(F) \in F
  <2> HIDE DEF F
  <2>. QED
    BY <1>5 DEF Min
<1>. QED
  BY <1>6

LEMMA FreshFacts ==
  ASSUME mem.levels \in InitialLevels .. MaxLevels, IsFiniteSet(Held), Cardinality(Held) <= MaxBlobs[mem.levels]
  PROVE  \A id \in Fresh : id \in Idents /\ id \notin Held
<1> SUFFICES ASSUME NEW id \in Fresh PROVE id \in Idents /\ id \notin Held
  OBVIOUS
<1>1. PICK a \in Leaves[mem.levels] :
         id = [at |-> a, name |-> Min({n \in Names : [at |-> a, name |-> n] \notin Held})]
  BY DEF Fresh
<1> DEFINE k == Min({n \in Names : [at |-> a, name |-> n] \notin Held})  l == mem.levels  H == Held
<1>2. k \in Names /\ [at |-> a, name |-> k] \notin Held
  <2>1. IsFiniteSet(H) /\ l \in InitialLevels .. MaxLevels /\ Cardinality(H) <= MaxBlobs[l]
    OBVIOUS
  <2> HIDE DEF H, l, k
  <2>2. LET z == Min({n \in Names : [at |-> a, name |-> n] \notin H})
        IN  z \in Names /\ [at |-> a, name |-> z] \notin H
    BY <2>1, FreeName
  <2>. QED
    BY <2>2 DEF H, k
<1>3. a \in UNION Range(Leaves)
  BY VoramAssumption DEF Range
<1> HIDE DEF k
<1>. QED
  BY <1>1, <1>2, <1>3 DEF Idents, k

\* An order lists every blob.
LEMMA OrderFacts ==
  ASSUME NEW H, IsFiniteSet(H), NEW order \in Orders(H)
  PROVE  LET L == Cardinality(H)
         IN  L \in Nat /\ DOMAIN order = 1 .. L /\ \A id \in H : \E j \in 1 .. L : order[j] = id
<1> DEFINE L == Cardinality(H)
<1>1. L \in Nat
  BY FS_CardinalityType
<1>2. order \in [1 .. L -> H] /\ \A i, j \in 1 .. L : i # j => order[i] # order[j]
  BY DEF Orders, SetToSeqs
<1>3. IsFiniteSet(1 .. L) /\ Cardinality(1 .. L) = L
  BY <1>1, FS_Interval
<1> HIDE DEF L
<1>4. order \in Injection(1 .. L, H)
  BY <1>2 DEF Injection, IsInjective
<1>5. order \in Surjection(1 .. L, H)
  BY <1>3, <1>4, FS_Injection DEF L
<1>. QED
  BY <1>1, <1>2, <1>5 DEF Surjection, L

-----------------------------------------------------------------------------
\* The inductive invariant: the tree is in order and complete, blobs in use
\* are not at rest, and there are no more of them than there are names for.
BlobsCounted == IsFiniteSet(Held) /\ Cardinality(Held) <= MaxBlobs[mem.levels]

VInv ==
    /\ Tree(mem) /\ DOMAIN mem.node = Nodes(mem.levels)
    /\ cache \in Stashes /\ reads \in 0 .. MaxReads
    /\ DOMAIN cache \cap StoredIn(mem) = {}
    /\ BlobsCounted

LEMMA StoredTyped ==
  ASSUME NEW m, Tree(m)
  PROVE  StoredIn(m) \subseteq Idents
<1>1. m \in Mems
  BY DEF Tree
<1>2. DOMAIN m.stash \subseteq Idents
  BY <1>1, MemTyped
<1>3. ASSUME NEW p \in DOMAIN m.node PROVE ChunkIds(m.node[p]) \subseteq Idents
  <2>1. m.node[p].chunks \in Chunks
    BY <1>1, MemTyped
  <2>. QED
    BY <2>1, ChunkTyped DEF ChunkIds, ToSet
<1>. QED
  BY <1>2, <1>3 DEF StoredIn

LEMMA Nothing ==
  /\ << >> \in Stashes /\ DOMAIN << >> = {} /\ << >> \in Chunks /\ ToSet(<< >>) = {} /\ Sum(<< >>) = 0
<1>1. << >> \in Seq(Data) /\ Len(<< >>) = 0
  BY EmptySeq
<1>2. DOMAIN << >> = {}
  BY <1>1
<1>3. << >> \in [DOMAIN << >> -> Data]
  BY <1>1
<1>4. << >> \in Stashes
  BY <1>2, <1>3, PartialFacts DEF Stashes
<1>. QED
  BY <1>2, <1>4, EmptySeq, UsedFacts DEF Chunks, ToSet

LEMMA InitKeeps == Init => VInv
<1> SUFFICES ASSUME Init PROVE VInv
  OBVIOUS
<1> DEFINE l == InitialLevels  K == 2 ^ l  Inner == [kids |-> <<TRUE, TRUE>>, chunks |-> << >>]
           Outer == [kids |-> <<FALSE, FALSE>>, chunks |-> << >>]
<1>1. /\ mem.levels = l /\ mem.keys = [p \in {1} |-> TRUE] /\ mem.stash = << >> /\ mem.buffer = {} /\ mem.fault = FALSE
      /\ DOMAIN mem.node = Nodes(l)
      /\ \A p \in Nodes(l) : mem.node[p] = IF p < K THEN Inner ELSE Outer
      /\ cache = << >> /\ reads = 0
      /\ mem = [levels |-> mem.levels, node |-> mem.node, keys |-> mem.keys, stash |-> mem.stash,
                buffer |-> mem.buffer, fault |-> mem.fault]
      /\ mem.node = [p \in Nodes(l) |-> mem.node[p]]
  BY DEF Init
<1>2. l \in Nat \ {0} /\ l \in InitialLevels .. MaxLevels /\ Room \in Nat /\ MaxReads \in Nat
  BY VoramAssumption
<1>3. K \in Nat \ {0} /\ Nodes(l) = 1 .. 2 * K - 1
  BY <1>2, Powers DEF Nodes
<1> HIDE DEF K
<1>4. Inner \in NodeRecs /\ Outer \in NodeRecs
  <2>1. <<TRUE, TRUE>> \in BOOLEAN \X BOOLEAN /\ <<FALSE, FALSE>> \in BOOLEAN \X BOOLEAN
    OBVIOUS
  <2>. QED
    BY <2>1, Nothing DEF NodeRecs
<1>5. mem.node \in Partial(Nat, NodeRecs)
  <2>1. \A p \in Nodes(l) : mem.node[p] \in NodeRecs
    BY <1>1, <1>4
  <2> HIDE DEF l
  <2>2. mem.node \in [Nodes(l) -> NodeRecs]
    BY <1>1, <2>1
  <2>. QED
    BY <1>3, <2>2 DEF Partial
<1>6. mem.keys \in Partial(Nat, BOOLEAN) /\ DOMAIN mem.keys = {1} /\ mem.keys[1]
  <2>1. mem.keys \in [{1} -> BOOLEAN] /\ {1} \subseteq Nat
    BY <1>1
  <2>. QED
    BY <1>1, <2>1 DEF Partial
<1>7. mem \in Mems
  <2>1. mem.levels \in InitialLevels .. MaxLevels /\ mem.stash \in Stashes /\ mem.buffer \in SUBSET Nat /\ mem.fault \in BOOLEAN
    BY <1>1, <1>2, Nothing
  <2>. QED
    BY <1>1, <1>5, <1>6, <2>1 DEF Mems
<1>8. ParentClosed(mem.buffer) /\ ParentClosed(DOMAIN mem.node)
  <2>1. \A p \in 1 .. 2 * K - 1 : p > 1 => p \div 2 \in 1 .. 2 * K - 1
    BY <1>3
  <2>. QED
    BY <1>1, <1>3, <2>1 DEF ParentClosed
<1>9. Keyed(mem)
  BY <1>1, <1>6 DEF Keyed
<1>10. Locked(mem)
  <2>1. ASSUME NEW p \in Nodes(l), p # 1 PROVE mem.node[p \div 2].kids[Side(p)]
    <3>1. p \div 2 \in 1 .. 2 * K - 1 /\ p \div 2 < K
      BY <1>3, <2>1
    <3>2. mem.node[p \div 2] = Inner
      BY <1>1, <1>3, <3>1
    <3>3. Side(p) \in {1, 2}
      BY <1>3 DEF Side
    <3> DEFINE s == Side(p)
    <3>4. Inner.kids[1] /\ Inner.kids[2]
      BY Zenon
    <3>5. s = 1 \/ s = 2
      BY <3>3
    <3> HIDE DEF s, Inner
    <3>6. Inner.kids[s]
      BY <3>4, <3>5, Zenon
    <3>. QED
      BY <3>2, <3>6 DEF s
  <2>. QED
    BY <1>1, <1>6, <2>1 DEF Locked
<1>11. ASSUME NEW p \in Nodes(l) PROVE Fits(mem.node[p], p)
  <2>1. mem.node[p].chunks = << >>
    BY <1>1
  <2>. QED
    BY <1>2, <2>1, Nothing DEF Fits, Used, Sum
<1>12. Tree(mem)
  BY <1>1, <1>3, <1>7, <1>8, <1>9, <1>10, <1>11 DEF Tree
<1>13. StoredIn(mem) = {} /\ DOMAIN cache = {} /\ cache \in Stashes
  <2>1. \A p \in DOMAIN mem.node : ChunkIds(mem.node[p]) = {}
    BY <1>1, Nothing DEF ChunkIds
  <2>. QED
    BY <1>1, <2>1, Nothing DEF StoredIn
<1>14. BlobsCounted
  <2>1. Held = {}
    BY <1>13 DEF Held, Stored
  <2>. QED
    BY <1>1, <1>2, <2>1, FS_EmptySet, VoramAssumption DEF BlobsCounted
<1>. QED
  BY <1>1, <1>2, <1>12, <1>13, <1>14 DEF VInv

-----------------------------------------------------------------------------
\* Every step keeps it.
LEMMA InvFacts ==
  ASSUME VInv
  PROVE  /\ Tree(mem) /\ mem \in Mems /\ mem.levels \in InitialLevels .. MaxLevels
         /\ DOMAIN mem.node = Nodes(mem.levels)
         /\ cache \in Partial(Idents, Data) /\ DOMAIN cache \subseteq Idents
         /\ reads \in 0 .. MaxReads /\ MaxReads \in Nat
         /\ DOMAIN cache \cap Stored = {} /\ Stored = StoredIn(mem) /\ Stored \subseteq Idents
         /\ Held = DOMAIN cache \cup Stored /\ IsFiniteSet(Held)
         /\ Cardinality(Held) \in Nat /\ Cardinality(Held) <= MaxBlobs[mem.levels]
         /\ \A id \in Fresh : id \in Idents /\ id \notin Held
         /\ \A l \in InitialLevels .. MaxLevels : MaxBlobs[l] \in Nat
<1>1. /\ Tree(mem) /\ DOMAIN mem.node = Nodes(mem.levels) /\ cache \in Stashes /\ reads \in 0 .. MaxReads
      /\ DOMAIN cache \cap StoredIn(mem) = {} /\ IsFiniteSet(Held) /\ Cardinality(Held) <= MaxBlobs[mem.levels]
  BY DEF VInv, BlobsCounted
<1>2. mem \in Mems /\ mem.levels \in InitialLevels .. MaxLevels
  BY <1>1, MemTyped DEF Tree
<1>3. cache \in Partial(Idents, Data) /\ DOMAIN cache \subseteq Idents
  BY <1>1, PartialFacts DEF Stashes
<1>4. Stored = StoredIn(mem) /\ Held = DOMAIN cache \cup Stored
  BY DEF Stored, Held
<1>5. \A id \in Fresh : id \in Idents /\ id \notin Held
  BY <1>1, <1>2, FreshFacts
<1>6. Cardinality(Held) \in Nat
  BY <1>1, FS_CardinalityType
<1>. QED
  BY <1>1, <1>2, <1>3, <1>4, <1>5, <1>6, StoredTyped, VoramAssumption

\* What reading a path leaves: the same blobs, the same nodes.
LEMMA ReadStep ==
  ASSUME VInv, NEW id \in Idents, Read(id)
  PROVE  /\ Tree(mem') /\ mem'.levels = mem.levels /\ mem'.node = mem.node
         /\ StoredIn(mem') = StoredIn(mem) /\ reads' \in 0 .. MaxReads
         /\ mem.buffer \subseteq mem'.buffer /\ mem'.buffer # {}
         /\ \A other \in Idents : WholeIn(mem', other) = WholeIn(mem, other)
<1>1. mem' = ReadPath(mem, id) /\ reads < MaxReads /\ reads' = reads + 1
  BY DEF Read
<1>2. LET n == ReadPath(mem, id)
      IN  /\ Same(mem, n) /\ n.node = mem.node /\ mem.buffer \subseteq n.buffer
          /\ \A i \in 1 .. mem.levels + 1 : Path(mem, id)[i] \in n.buffer
  BY InvFacts, ReadPathSame
<1>3. 1 \in 1 .. mem.levels + 1
  BY InvFacts, VoramAssumption
<1>. QED
  BY <1>1, <1>2, <1>3, InvFacts DEF Same

\* A method that leaves the blobs at rest where they are, as a caller sees it.
Undisturbed ==
    /\ Tree(mem') /\ mem'.levels = mem.levels /\ DOMAIN mem'.node = Nodes(mem'.levels)
    /\ StoredIn(mem') = StoredIn(mem) /\ reads' \in 0 .. MaxReads
    /\ \A id \in Idents : WholeIn(mem', id) = WholeIn(mem, id)

LEMMA ReadUndisturbed == ASSUME VInv, NEW id \in Idents, Read(id) PROVE Undisturbed
BY ReadStep, InvFacts DEF Undisturbed

LEMMA RestUndisturbed == ASSUME VInv, UNCHANGED <<mem, reads>> PROVE Undisturbed
BY InvFacts DEF Undisturbed

LEMMA CreateKeeps ==
  ASSUME VInv, NEW id \in Fresh, Create(id)
  PROVE  Undisturbed /\ VInv'
<1>1. Cardinality(Held) < MaxBlobs[mem.levels] /\ cache' = Put(cache, id, << >>)
  BY DEF Create
<1>2. Undisturbed
  BY InvFacts, ReadUndisturbed, RestUndisturbed DEF Create
<1>3. id \in Idents /\ id \notin Held
  BY InvFacts
<1>4. cache' \in Stashes /\ DOMAIN cache' = {id} \cup DOMAIN cache
  <2>1. cache \in Partial(Idents, Data) /\ << >> \in Data /\ id \in Idents
    BY <1>3, InvFacts, NoData
  <2>2. Put(cache, id, << >>) \in Partial(Idents, Data)
    BY <2>1, PutTyped, Zenon
  <2>. QED
    BY <1>1, <2>2 DEF Stashes, Put, Over
<1>5. Stored' = Stored /\ Held' = Held \cup {id}
  BY <1>2, <1>4 DEF Undisturbed, Stored, Held
<1>6. IsFiniteSet(Held') /\ Cardinality(Held') = Cardinality(Held) + 1
  <2> DEFINE H == Held
  <2>1. IsFiniteSet(H) /\ id \notin H
    BY <1>3, InvFacts
  <2> HIDE DEF H
  <2>2. IsFiniteSet(H \cup {id}) /\ Cardinality(H \cup {id}) = Cardinality(H) + 1
    BY <2>1, FS_AddElement
  <2>. QED
    BY <1>5, <2>2 DEF H
<1>7. Cardinality(Held') <= MaxBlobs[mem'.levels]
  BY <1>1, <1>2, <1>6, InvFacts DEF Undisturbed
<1>8. DOMAIN cache' \cap StoredIn(mem') = {}
  BY <1>2, <1>3, <1>4, InvFacts DEF Undisturbed
<1>. QED
  BY <1>2, <1>4, <1>6, <1>7, <1>8 DEF VInv, BlobsCounted, Undisturbed

\* dummy_op(), and a fetch() that fails.
LEMMA AccessKeeps ==
  ASSUME VInv, NEW id \in Fresh, Read(id), UNCHANGED cache
  PROVE  Undisturbed /\ VInv'
<1>1. Undisturbed
  BY InvFacts, ReadUndisturbed
<1>2. Held' = Held
  BY <1>1 DEF Undisturbed, Held, Stored
<1>. QED
  BY <1>1, <1>2, InvFacts, SMTT(30) DEF VInv, BlobsCounted, Undisturbed

\* A blob moves from rest to the cache and gets its new name.
LEMMA FetchKeeps ==
  ASSUME VInv, NEW id \in Stored, NEW next \in Fresh, Fetch(id, next)
  PROVE  /\ Tree(mem') /\ mem'.levels = mem.levels /\ DOMAIN mem'.node = Nodes(mem'.levels)
         /\ Stored' = Stored \ {id} /\ reads < MaxReads /\ reads' = reads + 1
         /\ mem.buffer \subseteq mem'.buffer
         /\ cache' = Put(cache, next, WholeIn(mem, id))
         /\ \A other \in Idents \ {id} : WholeIn(mem', other) = WholeIn(mem, other)
         /\ VInv'
<1> DEFINE r == ReadPath(mem, id)  n == [r EXCEPT !.stash = Without(r.stash, {id})]
<1>0. n = [r EXCEPT !.stash = Without(@, {id})]
  OBVIOUS
<1>1. reads < MaxReads /\ reads' = reads + 1 /\ mem' = n /\ cache' = Put(cache, next, At(r.stash, id))
  BY DEF Fetch
<1>2. id \in Idents /\ next \in Idents /\ next \notin Held
  BY InvFacts
<1>3. /\ Tree(n) /\ n.levels = mem.levels /\ n.node = mem.node /\ mem.buffer \subseteq n.buffer
      /\ StoredIn(n) = StoredIn(mem) \ {id}
      /\ At(r.stash, id) = WholeIn(mem, id)
      /\ \A other \in Idents \ {id} : WholeIn(n, other) = WholeIn(mem, other)
  <2>1. Tree(mem) /\ DOMAIN mem.node = Nodes(mem.levels)
    BY InvFacts
  <2>. QED
    BY <1>2, <2>1, FetchSame
<1> HIDE DEF n, r
<1>4. Stored' = Stored \ {id}
  BY <1>1, <1>3 DEF Stored
<1> DEFINE w == WholeIn(mem, id)
<1>5. w \in Data
  BY InvFacts, WholeTyped
<1>6. cache' = Put(cache, next, w)
  BY <1>1, <1>3
<1> HIDE DEF w
<1>7. cache' \in Stashes /\ DOMAIN cache' = {next} \cup DOMAIN cache
  <2>1. cache \in Partial(Idents, Data)
    BY InvFacts
  <2>2. Put(cache, next, w) \in Partial(Idents, Data)
    BY <1>2, <1>5, <2>1, PutTyped, Zenon
  <2>. QED
    BY <1>6, <2>2 DEF Stashes, Put, Over
<1>8. Held' = (Held \ {id}) \cup {next}
  <2>1. id \notin DOMAIN cache
    BY InvFacts
  <2>. QED
    BY <1>4, <1>7, <2>1 DEF Held
<1>9. IsFiniteSet(Held') /\ Cardinality(Held') = Cardinality(Held)
  <2> DEFINE H == Held  G == Held \ {id}
  <2>1. IsFiniteSet(H) /\ id \in H /\ Cardinality(H) \in Nat /\ G = H \ {id} /\ next \notin G
    BY <1>2, InvFacts
  <2>2. Held' = G \cup {next}
    BY <1>8
  <2> HIDE DEF H, G
  <2>3. IsFiniteSet(G) /\ Cardinality(G) = Cardinality(H) - 1
    BY <2>1, FS_RemoveElement
  <2>4. IsFiniteSet(G \cup {next}) /\ Cardinality(G \cup {next}) = Cardinality(G) + 1
    BY <2>1, <2>3, FS_AddElement
  <2>. QED
    BY <2>1, <2>2, <2>3, <2>4 DEF H
<1>10. DOMAIN cache' \cap StoredIn(mem') = {}
  BY <1>2, <1>4, <1>7, InvFacts DEF Stored
<1>11. reads' \in 0 .. MaxReads
  BY <1>1, InvFacts
<1>12. Tree(mem') /\ mem'.levels = mem.levels /\ DOMAIN mem'.node = Nodes(mem'.levels)
  BY <1>1, <1>3, InvFacts
<1>13. VInv'
  BY <1>7, <1>9, <1>10, <1>11, <1>12, InvFacts DEF VInv, BlobsCounted
<1>. QED
  BY <1>1, <1>3, <1>4, <1>6, <1>12, <1>13 DEF w

LEMMA SetDataKeeps ==
  ASSUME VInv, NEW id \in DOMAIN cache, NEW data \in Contents, SetData(id, data)
  PROVE  Undisturbed /\ VInv'
<1>1. Undisturbed /\ cache' = [cache EXCEPT ![id] = data]
  BY RestUndisturbed DEF SetData
<1>2. cache' \in Stashes /\ DOMAIN cache' = DOMAIN cache
  <2>1. data \in Data
    BY VoramAssumption DEF Data
  <2>2. cache \in [DOMAIN cache -> Data] /\ DOMAIN cache \subseteq Idents
    BY InvFacts, PartialFacts
  <2>3. cache' \in [DOMAIN cache -> Data]
    BY <1>1, <2>1, <2>2
  <2>. QED
    BY <2>2, <2>3 DEF Stashes, Partial
<1>3. Held' = Held
  BY <1>1, <1>2 DEF Undisturbed, Held, Stored
<1>. QED
  BY <1>1, <1>2, <1>3, InvFacts DEF VInv, BlobsCounted, Undisturbed

LEMMA RemoveKeeps ==
  ASSUME VInv, NEW id \in DOMAIN cache, RemoveBlob(id)
  PROVE  Undisturbed /\ VInv'
<1>1. Undisturbed /\ cache' = Without(cache, {id})
  BY RestUndisturbed DEF RemoveBlob
<1>2. cache' \in Stashes /\ DOMAIN cache' = DOMAIN cache \ {id}
  <2>1. cache \in [DOMAIN cache -> Data] /\ DOMAIN cache \subseteq Idents
    BY InvFacts, PartialFacts
  <2>2. cache' \in [DOMAIN cache \ {id} -> Data] /\ DOMAIN cache \ {id} \subseteq Idents
    BY <1>1, <2>1 DEF Without
  <2>. QED
    BY <2>2 DEF Stashes, Partial
<1>3. Held' \in SUBSET Held
  BY <1>1, <1>2 DEF Undisturbed, Held, Stored
<1>4. IsFiniteSet(Held') /\ Cardinality(Held') <= Cardinality(Held)
  <2> DEFINE H == Held  G == Held'
  <2>1. IsFiniteSet(H) /\ G \in SUBSET H
    BY <1>3, InvFacts
  <2> HIDE DEF H, G
  <2>2. IsFiniteSet(G) /\ Cardinality(G) <= Cardinality(H)
    BY <2>1, FS_Subset
  <2>. QED
    BY <2>2 DEF H, G
<1>5. Cardinality(Held') \in Nat
  BY <1>4, FS_CardinalityType
<1>6. Cardinality(Held') <= MaxBlobs[mem'.levels]
  BY <1>1, <1>4, <1>5, InvFacts DEF Undisturbed
<1>. QED
  BY <1>1, <1>2, <1>4, <1>6, InvFacts DEF VInv, BlobsCounted, Undisturbed

\* A write back: all blobs are at rest, in the tree or in the stash.
LEMMA FinalizeKeeps ==
  ASSUME VInv, NEW order \in Orders(Held), Finalize(order)
  PROVE  /\ mem'.levels = mem.levels /\ mem'.buffer = {} /\ Stored' = Held
         /\ \A id \in Held : WholeIn(mem', id) = IF id \in DOMAIN cache THEN cache[id] ELSE WholeIn(mem, id)
         /\ \A p \in mem.buffer : \A id \in DOMAIN mem'.stash :
               OnPath(id, p) => Used(mem'.node[p]) + Header >= Room
         /\ VInv'
<1> DEFINE m == [mem EXCEPT !.stash = Over(cache, mem.stash)]  n == WriteBack(m, order)  L == Cardinality(Held)
<1>0. m = [mem EXCEPT !.stash = Over(cache, @)]
  OBVIOUS
<1>1. mem' = n /\ cache' = << >> /\ reads' = 0
  BY DEF Finalize
<1>2. /\ Tree(m) /\ m.levels = mem.levels /\ m.node = mem.node /\ m.buffer = mem.buffer
      /\ StoredIn(m) = DOMAIN cache \cup StoredIn(mem)
      /\ \A id \in DOMAIN cache : WholeIn(m, id) = cache[id]
      /\ \A id \in Idents \ DOMAIN cache : WholeIn(m, id) = WholeIn(mem, id)
  <2>1. Tree(mem) /\ cache \in Stashes /\ DOMAIN cache \cap StoredIn(mem) = {}
    BY DEF VInv
  <2>. QED
    BY <2>1, StashSame
<1> HIDE DEF m
<1>3. L \in Nat /\ DOMAIN order = 1 .. L /\ \A id \in Held : \E j \in 1 .. L : order[j] = id
  <2> DEFINE H == Held
  <2>1. IsFiniteSet(H) /\ order \in Orders(H)
    BY InvFacts
  <2> HIDE DEF H
  <2>2. LET k == Cardinality(H)
        IN  k \in Nat /\ DOMAIN order = 1 .. k /\ \A id \in H : \E j \in 1 .. k : order[j] = id
    BY <2>1, OrderFacts
  <2>. QED
    BY <2>2 DEF H
<1> HIDE DEF L
<1>4. /\ Same(m, n) /\ n.buffer = {} /\ DOMAIN n.node = DOMAIN m.node
      /\ \A q \in m.buffer : \A j \in 1 .. L :
            order[j] \in DOMAIN n.stash /\ OnPath(order[j], q) => Used(n.node[q]) + Header >= Room
  <2>1. DOMAIN m.node = Nodes(m.levels)
    BY <1>2, InvFacts
  <2>. QED
    BY <1>2, <1>3, <2>1, WriteBackSame
<1> HIDE DEF n
<1>5. Tree(n) /\ n.levels = mem.levels /\ DOMAIN n.node = Nodes(n.levels)
  BY <1>2, <1>4, InvFacts, SameTyped
<1>6. Stored' = Held /\ StoredIn(n) = Held
  BY <1>1, <1>2, <1>4, InvFacts DEF Same, Stored
<1>7. Held' = Held
  BY <1>1, <1>6, Nothing DEF Held
<1>8. ASSUME NEW id \in Held
      PROVE  WholeIn(mem', id) = IF id \in DOMAIN cache THEN cache[id] ELSE WholeIn(mem, id)
  <2>1. id \in Idents
    BY InvFacts
  <2>2. WholeIn(mem', id) = WholeIn(m, id)
    BY <1>1, <1>4, <2>1 DEF Same
  <2>. QED
    BY <1>2, <2>1, <2>2
<1>9. ASSUME NEW p \in mem.buffer, NEW id \in DOMAIN mem'.stash, OnPath(id, p)
      PROVE  Used(mem'.node[p]) + Header >= Room
  <2>1. id \in Held
    BY <1>1, <1>6 DEF StoredIn
  <2>2. PICK j \in 1 .. L : order[j] = id
    BY <1>3, <2>1
  <2>. QED
    BY <1>1, <1>2, <1>4, <1>9, <2>2
<1>10. VInv'
  <2>1. Tree(mem') /\ DOMAIN mem'.node = Nodes(mem'.levels) /\ mem'.levels = mem.levels
    BY <1>1, <1>5
  <2>2. cache' \in Stashes /\ DOMAIN cache' = {}
    BY <1>1, Nothing
  <2>3. reads' \in 0 .. MaxReads
    BY <1>1, InvFacts
  <2>. QED
    BY <1>7, <2>1, <2>2, <2>3, InvFacts DEF VInv, BlobsCounted
<1>. QED
  BY <1>1, <1>4, <1>5, <1>6, <1>8, <1>9, <1>10

LEMMA GrowKeeps ==
  ASSUME VInv, NEW order \in Orders(Held), Grow(order)
  PROVE  /\ Stored' = Stored /\ UNCHANGED <<cache, reads>> /\ mem'.buffer = mem.buffer
         /\ \A id \in Idents : WholeIn(mem', id) = WholeIn(mem, id)
         /\ VInv'
<1> DEFINE m == Enlarged(mem, order)  n == [m EXCEPT !.fault = m.fault \/ m.buffer # mem.buffer]
           L == Cardinality(Held)
<1>0. n = [m EXCEPT !.fault = @ \/ m.buffer # mem.buffer]
  OBVIOUS
<1>1. /\ mem.levels < MaxLevels /\ Cardinality(Held) <= MaxBlobs[mem.levels + 1]
      /\ mem' = n /\ UNCHANGED <<cache, reads>>
  BY <1>0 DEF Grow
<1>2. L \in Nat /\ DOMAIN order = 1 .. L
  <2> DEFINE H == Held
  <2>1. IsFiniteSet(H) /\ order \in Orders(H)
    BY InvFacts
  <2> HIDE DEF H
  <2>2. LET k == Cardinality(H)
        IN  k \in Nat /\ DOMAIN order = 1 .. k /\ \A id \in H : \E j \in 1 .. k : order[j] = id
    BY <2>1, OrderFacts
  <2>. QED
    BY <2>2 DEF H
<1> HIDE DEF L
<1>3. /\ Tree(m) /\ m.levels = mem.levels + 1 /\ DOMAIN m.node = Nodes(m.levels) /\ m.buffer = mem.buffer
      /\ StoredIn(m) = StoredIn(mem)
      /\ \A id \in Idents : WholeIn(m, id) = WholeIn(mem, id)
  <2>1. Tree(mem) /\ DOMAIN mem.node = Nodes(mem.levels)
    BY InvFacts
  <2>. QED
    BY <1>1, <1>2, <2>1, EnlargedSame
<1> HIDE DEF m
<1>4. n = m
  <2>1. m \in Mems /\ m.fault = FALSE
    BY <1>3, TreeFacts
  <2>. QED
    BY <1>3, <2>1 DEF Mems
<1>5. mem' = m
  BY <1>1, <1>4
<1>6. Stored' = Stored /\ Held' = Held
  BY <1>1, <1>3, <1>5 DEF Stored, Held
<1>7. VInv'
  BY <1>1, <1>3, <1>5, <1>6, InvFacts DEF VInv, BlobsCounted
<1>. QED
  BY <1>1, <1>3, <1>5, <1>6, <1>7

LEMMA StepKeeps == VInv /\ [Next]_vars => VInv'
<1> SUFFICES ASSUME VInv, [Next]_vars PROVE VInv'
  OBVIOUS
<1>1. ASSUME NEW id \in Fresh, Create(id) \/ DummyOp(id) \/ FetchMissing(id) PROVE VInv'
  BY <1>1, CreateKeeps, AccessKeeps DEF DummyOp, FetchMissing
<1>2. ASSUME NEW id \in Stored, NEW next \in Fresh, Fetch(id, next) PROVE VInv'
  BY <1>2, FetchKeeps
<1>3. ASSUME NEW id \in DOMAIN cache, RemoveBlob(id) \/ \E data \in Contents : SetData(id, data) PROVE VInv'
  BY <1>3, RemoveKeeps, SetDataKeeps
<1>4. ASSUME NEW order \in Orders(Held), Finalize(order) \/ Grow(order) PROVE VInv'
  BY <1>4, FinalizeKeeps, GrowKeeps
<1>5. CASE UNCHANGED vars
  BY <1>5 DEF VInv, BlobsCounted, vars, Held, Stored
<1>. QED
  BY <1>1, <1>2, <1>3, <1>4, <1>5 DEF Next

THEOREM Invariant == Spec => []VInv
<1>1. Init => VInv
  BY InitKeeps
<1>2. VInv /\ [Next]_vars => VInv'
  BY StepKeeps
<1>. QED
  BY <1>1, <1>2, PTL DEF Spec

-----------------------------------------------------------------------------
\* Every node fits its fixed size, the tree has all its nodes, and all idents
\* lead to leaves: the checks of node sizes at voram.py:597 and :605.
THEOREM NodesFit == Spec => []TypeOK
<1>1. VInv => TypeOK
  BY InvFacts DEF TypeOK, Tree, Fits
<1>. QED
  BY <1>1, Invariant, PTL

\* No assertion of _readnode, _writenode, finalize and grow fails: what is
\* read has its key at hand, what is written was read before.
THEOREM NoAssertionFails == Spec => []NoFault
<1>1. VInv => NoFault
  <2> SUFFICES ASSUME VInv PROVE NoFault
    OBVIOUS
  <2>1. ~mem.fault /\ \A q : q \in DOMAIN mem.keys <=> q \in Nat /\ (q = 1 \/ q \div 2 \in mem.buffer)
    BY InvFacts, TreeFacts
  <2>. QED
    BY <2>1 DEF NoFault
<1>. QED
  BY <1>1, Invariant, PTL

\* Whoever has the root's key can decrypt every node at rest, through all
\* partial write backs and growth.
THEOREM ChainHolds == Spec => []KeyChain
<1>1. VInv => KeyChain
  <2> SUFFICES ASSUME VInv PROVE KeyChain
    OBVIOUS
  <2>1. /\ \A q : q \in DOMAIN mem.keys <=> q \in Nat /\ (q = 1 \/ q \div 2 \in mem.buffer)
        /\ \A p \in DOMAIN mem.node \ mem.buffer :
              /\ p = 1 \/ p \div 2 \in mem.buffer => mem.keys[p]
              /\ p # 1 /\ p \div 2 \notin mem.buffer => mem.node[p \div 2].kids[Side(p)]
        /\ DOMAIN mem.node \subseteq Nat
    BY InvFacts, TreeFacts, MemTyped
  <2>. QED
    BY <2>1 DEF KeyChain
<1>. QED
  BY <1>1, Invariant, PTL

\* What a write back leaves in the stash has no room in any node it wrote on
\* the path of its blob.
WaitsForRoom ==
    mem.buffer # {} /\ mem'.buffer = {} =>
        \A p \in mem.buffer : \A id \in DOMAIN mem'.stash : OnPath(id, p) => Used(mem'.node[p]) + Header >= Room

LEMMA RoomStep == VInv /\ [Next]_vars => WaitsForRoom
<1> SUFFICES ASSUME VInv, [Next]_vars, mem.buffer # {}, mem'.buffer = {} PROVE WaitsForRoom
  BY DEF WaitsForRoom
<1>1. ASSUME NEW id \in Fresh, Create(id) \/ DummyOp(id) \/ FetchMissing(id) PROVE FALSE
  <2>1. CASE \E other \in Fresh : Read(other)
    BY <2>1, ReadStep, InvFacts
  <2>2. CASE UNCHANGED mem
    BY <2>2
  <2>. QED
    BY <1>1, <2>1, <2>2 DEF Create, DummyOp, FetchMissing
<1>2. ASSUME NEW id \in Stored, NEW next \in Fresh, Fetch(id, next) PROVE FALSE
  BY <1>2, FetchKeeps
<1>3. ASSUME NEW id \in DOMAIN cache, RemoveBlob(id) \/ \E data \in Contents : SetData(id, data) PROVE FALSE
  BY <1>3 DEF RemoveBlob, SetData
<1>4. ASSUME NEW order \in Orders(Held), Finalize(order) PROVE WaitsForRoom
  BY <1>4, FinalizeKeeps DEF WaitsForRoom
<1>5. ASSUME NEW order \in Orders(Held), Grow(order) PROVE FALSE
  BY <1>5, GrowKeeps
<1>6. ~UNCHANGED vars
  BY DEF vars
<1>. QED
  BY <1>1, <1>2, <1>3, <1>4, <1>5, <1>6 DEF Next

THEOREM RoomUsed == Spec => StashWaitsForRoom
<1>1. VInv /\ [Next]_vars => [WaitsForRoom]_vars
  BY RoomStep
<1>. QED
  BY <1>1, Invariant, PTL DEF Spec, StashWaitsForRoom, WaitsForRoom

-----------------------------------------------------------------------------
\* The tree is a store of whole blobs: every method is an operation of the
\* abstract store, or no change of it.
Abstract == [blobs |-> [id \in Stored |-> WholeIn(mem, id)], cache |-> cache, reads |-> reads, rounds |-> << >>]

LEMMA AbstractInit == Init => Blobs!Init
<1> SUFFICES ASSUME Init PROVE Blobs!Init
  OBVIOUS
<1>1. VInv
  BY InitKeeps
<1>2. cache = << >> /\ reads = 0 /\ mem.stash = << >> /\ mem.buffer = {}
  BY DEF Init
<1>3. \A p \in DOMAIN mem.node : mem.node[p].chunks = << >>
  BY DEF Init
<1>4. Stored = {}
  BY <1>2, <1>3, Nothing DEF Stored, StoredIn, ChunkIds
<1>5. [id \in Stored |-> WholeIn(mem, id)] = << >>
  BY <1>4
<1>. QED
  BY <1>2, <1>5 DEF Blobs!Init, Blobs!NewStore, Blobs!NoBlobs

\* The store after a step that keeps the blobs at rest.
LEMMA SameBlobs ==
  ASSUME VInv, Undisturbed
  PROVE  /\ Stored' = Stored
         /\ [id \in Stored' |-> WholeIn(mem', id)] = [id \in Stored |-> WholeIn(mem, id)]
<1>1. Stored' = Stored
  BY DEF Undisturbed, Stored
<1>2. \A id \in Stored : WholeIn(mem', id) = WholeIn(mem, id)
  BY InvFacts DEF Undisturbed
<1>. QED
  BY <1>1, <1>2

LEMMA PutIsWith == \A f, x, y : Put(f, x, y) = Blobs!With(f, x, y)
BY DEF Put, Over, Blobs!With

\* The operations of the store, on the parts of it.
Store(b, c, r) == [blobs |-> b, cache |-> c, reads |-> r, rounds |-> << >>]

LEMMA StoreIs ==
  ASSUME NEW P, NEW Q, NEW R, NEW H, NEW y \in [blobs : P, cache : Q, reads : R, rounds : H], y.rounds = << >>
  PROVE  y = Store(y.blobs, y.cache, y.reads)
BY DEF Store
LEMMA StoreFacts ==
  ASSUME NEW b, NEW c, NEW r
  PROVE  LET x == Store(b, c, r)
         IN  /\ x.blobs = b /\ x.cache = c /\ x.reads = r
             /\ Blobs!Access(x) = Store(b, c, r + 1)
             /\ \A id, data : Blobs!SetBlob(x, id, data) = Store(b, Blobs!With(c, id, data), r)
             /\ \A id : Blobs!Create(x, id) = Store(b, Blobs!With(c, id, << >>), r)
             /\ \A id : Blobs!Destroy(x, id) = Store(b, Blobs!Without(c, id), r)
             /\ \A id, next : id \notin DOMAIN c =>
                   Blobs!Fetch(x, id, next) = Store(Blobs!Without(b, id), Blobs!With(c, next, b[id]), r + 1)
             /\ [Blobs!Finalize(x) EXCEPT !.rounds = << >>] = Store(Blobs!Over(c, b), << >>, 0)
<1> DEFINE x == Store(b, c, r)  S(a, d, e, h) == [blobs : {a, b}, cache : {c, d}, reads : {e, r}, rounds : {h, << >>}]
<1>1. x.blobs = b /\ x.cache = c /\ x.reads = r /\ x.rounds = << >> /\ \A a, d, e, h : x \in S(a, d, e, h)
  BY DEF Store
<1> HIDE DEF x
<1>4. Blobs!Access(x) = Store(b, c, r + 1)
  <2> DEFINE e == r + 1  y == [x EXCEPT !.reads = e]
  <2>1. Blobs!Access(x) = y
    BY <1>1 DEF Blobs!Access
  <2> HIDE DEF e
  <2>2. y \in S(b, c, e, << >>) /\ y.blobs = b /\ y.cache = c /\ y.reads = e /\ y.rounds = << >>
    BY <1>1
  <2> HIDE DEF y
  <2>. QED
    BY <2>1, <2>2, StoreIs DEF e
<1>5. ASSUME NEW id, NEW data PROVE Blobs!SetBlob(x, id, data) = Store(b, Blobs!With(c, id, data), r)
  <2> DEFINE d == Blobs!With(c, id, data)  y == [x EXCEPT !.cache = d]
  <2>1. Blobs!SetBlob(x, id, data) = y
    BY <1>1 DEF Blobs!SetBlob
  <2> HIDE DEF d
  <2>2. y \in S(b, d, r, << >>) /\ y.blobs = b /\ y.cache = d /\ y.reads = r /\ y.rounds = << >>
    BY <1>1
  <2> HIDE DEF y
  <2>. QED
    BY <2>1, <2>2, StoreIs DEF d
<1>6. \A id : Blobs!Create(x, id) = Store(b, Blobs!With(c, id, << >>), r)
  BY <1>5 DEF Blobs!Create, Blobs!NoBlobs
<1>7. ASSUME NEW id PROVE Blobs!Destroy(x, id) = Store(b, Blobs!Without(c, id), r)
  <2> DEFINE d == Blobs!Without(c, id)  y == [x EXCEPT !.cache = d]
  <2>1. Blobs!Destroy(x, id) = y
    BY <1>1 DEF Blobs!Destroy
  <2> HIDE DEF d
  <2>2. y \in S(b, d, r, << >>) /\ y.blobs = b /\ y.cache = d /\ y.reads = r /\ y.rounds = << >>
    BY <1>1
  <2> HIDE DEF y
  <2>. QED
    BY <2>1, <2>2, StoreIs DEF d
<1>8. ASSUME NEW id, NEW next, id \notin DOMAIN c
      PROVE  Blobs!Fetch(x, id, next) = Store(Blobs!Without(b, id), Blobs!With(c, next, b[id]), r + 1)
  <2> DEFINE a == Blobs!Without(b, id)  d == Blobs!With(c, next, b[id])  e == r + 1  z == Store(b, c, e)
             y == [z EXCEPT !.blobs = a, !.cache = d]
  <2>1. z.blobs = b /\ z.cache = c /\ z.reads = e /\ z.rounds = << >> /\ z \in S(a, d, e, << >>)
    BY DEF Store
  <2>2. Blobs!Fetch(x, id, next) = y
    BY <1>1, <1>4, <1>8, <2>1 DEF Blobs!Fetch
  <2> HIDE DEF a, d, e, z
  <2>3. y \in S(a, d, e, << >>) /\ y.blobs = a /\ y.cache = d /\ y.reads = e /\ y.rounds = << >>
    BY <2>1
  <2> HIDE DEF y
  <2>. QED
    BY <2>2, <2>3, StoreIs DEF a, d, e
<1>9. [Blobs!Finalize(x) EXCEPT !.rounds = << >>] = Store(Blobs!Over(c, b), << >>, 0)
  <2> DEFINE h == IF x.reads = 0 THEN x.rounds ELSE Append(x.rounds, x.reads)
             a == Blobs!Over(c, b)  d == << >>  e == 0
             z == [x EXCEPT !.blobs = a, !.cache = d, !.rounds = h, !.reads = e]  y == [z EXCEPT !.rounds = << >>]
  <2>1. Blobs!Finalize(x) = z
    BY <1>1 DEF Blobs!Finalize, Blobs!NoBlobs
  <2> HIDE DEF h, a, d, e
  <2>2. z \in S(a, d, e, h) /\ z.blobs = a /\ z.cache = d /\ z.reads = e
    BY <1>1
  <2> HIDE DEF z
  <2>3. y \in S(a, d, e, h) /\ y.blobs = a /\ y.cache = d /\ y.reads = e /\ y.rounds = << >>
    BY <2>2
  <2>4. [Blobs!Finalize(x) EXCEPT !.rounds = << >>] = y
    BY <2>1
  <2> HIDE DEF y
  <2>. QED
    BY <2>3, <2>4, StoreIs DEF a, d, e
<1>. QED
  BY <1>1, <1>4, <1>5, <1>6, <1>7, <1>8, <1>9 DEF x

\* What the store is before and after a step.
LEMMA AbstractIs ==
  ASSUME NEW b, b = [i \in Stored |-> WholeIn(mem, i)], NEW n, n = [i \in Stored' |-> WholeIn(mem', i)]
  PROVE  Abstract = Store(b, cache, reads) /\ Abstract' = Store(n, cache', reads')
BY DEF Abstract, Store

LEMMA NamedIs == \A id : Blobs!Named(id) <=> id \in Held
BY DEF Blobs!Named, Blobs!Found, Held

LEMMA MayReadIs == Blobs!MayRead <=> reads < MaxReads
BY DEF Blobs!MayRead

LEMMA AbstractCreate ==
  ASSUME VInv, NEW id \in Fresh, Create(id)
  PROVE  Blobs!CreateBlob(id) /\ id \in Idents
<1> DEFINE b == [i \in Stored |-> WholeIn(mem, i)]  n == [i \in Stored' |-> WholeIn(mem', i)]
<1>1. id \in Idents /\ ~Blobs!Named(id)
  BY InvFacts, NamedIs
<1>2. n = b
  BY CreateKeeps, SameBlobs
<1>3. cache' = Blobs!With(cache, id, << >>)
  BY PutIsWith DEF Create
<1>4. reads' = reads \/ (reads < MaxReads /\ reads' = reads + 1)
  BY DEF Create, Read
<1>5. Abstract = Store(b, cache, reads) /\ Abstract' = Store(n, cache', reads')
  BY AbstractIs
<1> HIDE DEF b, n
<1>6. Abstract' = Blobs!Create(Abstract, id) \/ (Blobs!MayRead /\ Abstract' = Blobs!Access(Blobs!Create(Abstract, id)))
  BY <1>2, <1>3, <1>4, <1>5, StoreFacts, MayReadIs, SMTT(30)
<1>. QED
  BY <1>1, <1>6 DEF Abstract, Blobs!CreateBlob

LEMMA AbstractAccess ==
  ASSUME VInv, NEW id \in Fresh, Read(id), UNCHANGED cache
  PROVE  Blobs!DummyOp
<1> DEFINE b == [i \in Stored |-> WholeIn(mem, i)]  n == [i \in Stored' |-> WholeIn(mem', i)]
<1>1. n = b
  BY AccessKeeps, SameBlobs
<1>2. reads < MaxReads /\ reads' = reads + 1 /\ cache' = cache
  BY DEF Read
<1>3. Abstract = Store(b, cache, reads) /\ Abstract' = Store(n, cache', reads')
  BY AbstractIs
<1> HIDE DEF b, n
<1>4. Blobs!MayRead /\ Abstract' = Blobs!Access(Abstract)
  BY <1>1, <1>2, <1>3, StoreFacts, MayReadIs
<1>. QED
  BY <1>4 DEF Abstract, Blobs!DummyOp

LEMMA AbstractFetch ==
  ASSUME VInv, NEW id \in Stored, NEW next \in Fresh, Fetch(id, next)
  PROVE  Blobs!FetchBlob(id, next) /\ id \in Idents /\ next \in Idents
<1> DEFINE b == [i \in Stored |-> WholeIn(mem, i)]  n == [i \in Stored' |-> WholeIn(mem', i)]
<1>1. /\ id \in Idents /\ next \in Idents /\ next \notin Held /\ id \in Held
      /\ id \notin DOMAIN cache /\ Stored \subseteq Idents
  BY InvFacts
<1>2. /\ Stored' = Stored \ {id} /\ reads < MaxReads /\ reads' = reads + 1
      /\ cache' = Put(cache, next, WholeIn(mem, id))
      /\ \A other \in Idents \ {id} : WholeIn(mem', other) = WholeIn(mem, other)
  BY FetchKeeps
<1>3. DOMAIN b = Stored /\ b[id] = WholeIn(mem, id)
  OBVIOUS
<1>4. n = Blobs!Without(b, id)
  <2>1. \A i \in Stored \ {id} : WholeIn(mem', i) = b[i]
    BY <1>1, <1>2
  <2>2. [i \in Stored \ {id} |-> WholeIn(mem', i)] = [i \in Stored \ {id} |-> b[i]]
    BY <2>1
  <2> HIDE DEF b
  <2>. QED
    BY <1>2, <1>3, <2>2 DEF Blobs!Without
<1>5. cache' = Blobs!With(cache, next, b[id])
  BY <1>2, <1>3, PutIsWith
<1>6. Abstract = Store(b, cache, reads) /\ Abstract' = Store(n, cache', reads')
  BY AbstractIs
<1> HIDE DEF b, n
<1>7. Blobs!MayRead /\ Abstract' = Blobs!Fetch(Abstract, id, next)
  BY <1>1, <1>2, <1>4, <1>5, <1>6, StoreFacts, MayReadIs
<1>8. Blobs!Named(id) /\ ~Blobs!Named(next)
  BY <1>1, NamedIs
<1>. QED
  BY <1>1, <1>7, <1>8 DEF Abstract, Blobs!FetchBlob

LEMMA AbstractSet ==
  ASSUME VInv, NEW id \in DOMAIN cache, NEW data \in Contents, SetData(id, data)
  PROVE  Blobs!SetCached(id, data) /\ id \in Idents
<1> DEFINE b == [i \in Stored |-> WholeIn(mem, i)]  n == [i \in Stored' |-> WholeIn(mem', i)]
<1>1. n = b
  BY SetDataKeeps, SameBlobs
<1>2. reads' = reads /\ cache' = [cache EXCEPT ![id] = data]
  BY DEF SetData
<1>3. cache' = Blobs!With(cache, id, data)
  <2>1. {id} \cup DOMAIN cache = DOMAIN cache
    OBVIOUS
  <2>. QED
    BY <1>2, <2>1 DEF Blobs!With
<1>4. Abstract = Store(b, cache, reads) /\ Abstract' = Store(n, cache', reads')
  BY AbstractIs
<1> HIDE DEF b, n
<1>5. Abstract' = Blobs!SetBlob(Abstract, id, data) /\ id \in DOMAIN Abstract.cache
  BY <1>1, <1>2, <1>3, <1>4, StoreFacts, SMTT(30)
<1>6. id \in Idents
  BY InvFacts
<1>. QED
  BY <1>5, <1>6 DEF Abstract, Blobs!SetCached

LEMMA AbstractRemove ==
  ASSUME VInv, NEW id \in DOMAIN cache, RemoveBlob(id)
  PROVE  Blobs!DestroyCached(id) /\ id \in Idents
<1> DEFINE b == [i \in Stored |-> WholeIn(mem, i)]  n == [i \in Stored' |-> WholeIn(mem', i)]
<1>1. n = b
  BY RemoveKeeps, SameBlobs
<1>2. reads' = reads /\ cache' = Blobs!Without(cache, id)
  BY DEF RemoveBlob, Without, Blobs!Without
<1>3. Abstract = Store(b, cache, reads) /\ Abstract' = Store(n, cache', reads')
  BY AbstractIs
<1> HIDE DEF b, n
<1>4. Abstract' = Blobs!Destroy(Abstract, id) /\ id \in DOMAIN Abstract.cache
  BY <1>1, <1>2, <1>3, StoreFacts, SMTT(30)
<1>5. id \in Idents
  BY InvFacts
<1>. QED
  BY <1>4, <1>5 DEF Abstract, Blobs!DestroyCached

LEMMA AbstractFinalize ==
  ASSUME VInv, NEW order \in Orders(Held), Finalize(order)
  PROVE  Blobs!WriteBack
<1> DEFINE b == [i \in Stored |-> WholeIn(mem, i)]  n == [i \in Stored' |-> WholeIn(mem', i)]
<1>1. Stored' = Held /\ Held = DOMAIN cache \cup Stored
  BY FinalizeKeeps, InvFacts
<1>2. \A id \in Held : WholeIn(mem', id) = IF id \in DOMAIN cache THEN cache[id] ELSE b[id]
  BY <1>1, FinalizeKeeps
<1>3. DOMAIN b = Stored
  OBVIOUS
<1>4. cache' = << >> /\ reads' = 0
  BY DEF Finalize
<1>5. n = Blobs!Over(cache, b)
  <2> HIDE DEF b
  <2>. QED
    BY <1>1, <1>2, <1>3 DEF Blobs!Over
<1>6. Abstract = Store(b, cache, reads) /\ Abstract' = Store(n, cache', reads')
  BY AbstractIs
<1> HIDE DEF b, n
<1>7. Abstract' = [Blobs!Finalize(Abstract) EXCEPT !.rounds = << >>]
  BY <1>4, <1>5, <1>6, StoreFacts
<1>. QED
  BY <1>7 DEF Abstract, Blobs!WriteBack

LEMMA AbstractGrow ==
  ASSUME VInv, NEW order \in Orders(Held), Grow(order)
  PROVE  Abstract' = Abstract
<1>1. /\ Stored' = Stored /\ UNCHANGED <<cache, reads>>
      /\ \A id \in Idents : WholeIn(mem', id) = WholeIn(mem, id)
  BY GrowKeeps
<1>2. \A id \in Stored : WholeIn(mem', id) = WholeIn(mem, id)
  BY <1>1, InvFacts
<1>. QED
  BY <1>1, <1>2 DEF Abstract

LEMMA AbstractStep == VInv /\ [Next]_vars => [Blobs!Next]_Abstract
<1> SUFFICES ASSUME VInv, [Next]_vars PROVE [Blobs!Next]_Abstract
  OBVIOUS
<1>1. ASSUME NEW id \in Fresh, Create(id) PROVE Blobs!Next
  BY <1>1, AbstractCreate DEF Blobs!Next
<1>2. ASSUME NEW id \in Fresh, DummyOp(id) \/ FetchMissing(id) PROVE Blobs!Next
  BY <1>2, AbstractAccess DEF Blobs!Next, DummyOp, FetchMissing
<1>3. ASSUME NEW id \in Stored, NEW next \in Fresh, Fetch(id, next) PROVE Blobs!Next
  BY <1>3, AbstractFetch DEF Blobs!Next
<1>4. ASSUME NEW id \in DOMAIN cache, RemoveBlob(id) PROVE Blobs!Next
  BY <1>4, AbstractRemove DEF Blobs!Next
<1>5. ASSUME NEW id \in DOMAIN cache, NEW data \in Contents, SetData(id, data) PROVE Blobs!Next
  BY <1>5, AbstractSet DEF Blobs!Next
<1>6. ASSUME NEW order \in Orders(Held), Finalize(order) PROVE Blobs!Next
  BY <1>6, AbstractFinalize DEF Blobs!Next
<1>7. ASSUME NEW order \in Orders(Held), Grow(order) PROVE Abstract' = Abstract
  BY <1>7, AbstractGrow
<1>8. CASE UNCHANGED vars
  BY <1>8 DEF vars, Abstract, Stored
<1>. QED
  BY <1>1, <1>2, <1>3, <1>4, <1>5, <1>6, <1>7, <1>8 DEF Next

\* Through all splitting, partial write backs and growth the tree is a store
\* of whole blobs under the names their Refs hold.
THEOREM StoresWholeBlobs == Spec => ImplementsBlobSpec
<1>1. Init => Blobs!Init
  BY AbstractInit
<1>2. VInv /\ [Next]_vars => [Blobs!Next]_Abstract
  BY AbstractStep
<1>. QED
  BY <1>1, <1>2, Invariant, PTL DEF Spec, ImplementsBlobSpec, Blobs!Spec, Abstract
=============================================================================
