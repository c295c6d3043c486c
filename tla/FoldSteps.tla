------------------------------ MODULE FoldSteps ------------------------------
(***************************************************************************)
(* Induction along FoldLeft, for an operator Op that the instance gives.   *)
(***************************************************************************)
EXTENDS Integers, Folds, WellFoundedInduction, TLAPS

CONSTANT Op(_, _)

\* FoldLeft of SequencesExt, by its definition.
Latest(S) == CHOOSE x \in S : \A y \in S : x >= y
Fold(base, seq) ==
    MapThenFoldSet(LAMBDA x, y : Op(y, x), base, LAMBDA i : seq[i], LAMBDA S : Latest(S), DOMAIN seq)

\* A set of natural numbers that is not empty has a least element.
LEMMA Least ==
  ASSUME NEW T \in SUBSET Nat, T # {}
  PROVE  \E x \in T : \A y \in T : x <= y
<1> DEFINE R == {p \in Nat \X Nat : p[1] < p[2]}
<1>1. IsWellFoundedOn(R, Nat)
  BY NatLessThanWellFounded DEF OpToRel
<1>2. \A x, y \in Nat : y < x => <<y, x>> \in R
  OBVIOUS
<1> HIDE DEF R
<1>3. T \subseteq Nat /\ T # {}
  OBVIOUS
<1>4. PICK x \in T : \A y \in T : ~(<<y, x>> \in R)
  BY <1>1, <1>3, WFMin
<1>5. \A y \in T : ~(y < x)
  BY <1>2, <1>4
<1>. QED
  BY <1>5

\* What the fold of a prefix is, by the set of its positions.
Equation(f, base, seq, k) ==
    f = [s \in SUBSET (1 .. k) |->
            IF s = {} THEN base ELSE Op(f[s \ {Latest(s)}], seq[Latest(s)])]

\* The latest position of a prefix is its last one.
LEMMA LatestIsLast ==
  ASSUME NEW k \in Nat \ {0}, NEW s \in SUBSET (1 .. k), k \in s
  PROVE  Latest(s) = k
<1>1. \A y \in s : k >= y
  OBVIOUS
<1>2. \A x \in s : (\A y \in s : x >= y) => x = k
  BY <1>1
<1>. QED
  BY <1>1, <1>2 DEF Latest

\* The fold is a function that satisfies its equation at every position.
LEMMA Defined ==
  ASSUME NEW base, NEW seq, NEW L \in Nat
  PROVE  \E f : Equation(f, base, seq, L)
<1> DEFINE T == {k \in Nat : ~\E f : Equation(f, base, seq, k)}
<1> SUFFICES ASSUME T # {} PROVE FALSE
  OBVIOUS
<1>1. PICK m \in T : \A y \in T : m <= y
  <2> HIDE DEF T
  <2>. QED
    BY Least DEF T
<1>2. m # 0
  <2> SUFFICES ASSUME m = 0 PROVE FALSE
    OBVIOUS
  <2>1. SUBSET (1 .. 0) = {{}}
    OBVIOUS
  <2> DEFINE g == [s \in SUBSET (1 .. 0) |-> base]
  <2>2. Equation(g, base, seq, 0)
    BY <2>1 DEF Equation
  <2>. QED
    BY <2>2
<1>3. PICK f : Equation(f, base, seq, m - 1)
  <2>1. m - 1 \in Nat /\ m - 1 \notin T
    BY <1>1, <1>2
  <2>. QED
    BY <2>1
<1> DEFINE g == [s \in SUBSET (1 .. m) |-> IF m \in s THEN Op(f[s \ {m}], seq[m]) ELSE f[s]]
<1>4. ASSUME NEW s \in SUBSET (1 .. m)
      PROVE  g[s] = IF s = {} THEN base ELSE Op(g[s \ {Latest(s)}], seq[Latest(s)])
  <2>1. CASE m \in s
    <3>1. Latest(s) = m
      BY <2>1, <1>2, LatestIsLast
    <3>2. g[s \ {m}] = f[s \ {m}]
      OBVIOUS
    <3>. QED
      BY <2>1, <3>1, <3>2
  <2>2. CASE m \notin s
    <3>1. s \in SUBSET (1 .. m - 1)
      BY <2>2
    <3>2. f[s] = IF s = {} THEN base ELSE Op(f[s \ {Latest(s)}], seq[Latest(s)])
      <4> DEFINE F == [t \in SUBSET (1 .. m - 1) |-> IF t = {} THEN base ELSE Op(f[t \ {Latest(t)}], seq[Latest(t)])]
      <4>1. f = F
        BY <1>3 DEF Equation
      <4>2. F[s] = IF s = {} THEN base ELSE Op(f[s \ {Latest(s)}], seq[Latest(s)])
        BY <3>1
      <4>. QED
        BY <4>1, <4>2
    <3>3. g[s] = f[s] /\ g[s \ {Latest(s)}] = f[s \ {Latest(s)}]
      BY <2>2
    <3>. QED
      BY <3>2, <3>3
  <2>. QED
    BY <2>1, <2>2
<1>5. Equation(g, base, seq, m)
  <2>1. g = [s \in SUBSET (1 .. m) |-> g[s]]
    OBVIOUS
  <2> HIDE DEF g
  <2>. QED
    BY <1>4, <2>1 DEF Equation
<1>. QED
  BY <1>5

\* A fold stays where each of its steps stays.
THEOREM FoldStays ==
  ASSUME NEW base, NEW seq, NEW L \in Nat, DOMAIN seq = 1 .. L, NEW Ok,
         base \in Ok[0],
         \A n \in 1 .. L : \A x \in Ok[n - 1] : Op(x, seq[n]) \in Ok[n]
  PROVE  Fold(base, seq) \in Ok[L]
<1> DEFINE it == CHOOSE f : Equation(f, base, seq, L)
<1>1. Fold(base, seq) = it[1 .. L]
  BY DEF Fold, MapThenFoldSet, Equation
<1>2. Equation(it, base, seq, L)
  BY Defined
<1> HIDE DEF it
<1>3. it[{}] = base
  BY <1>2 DEF Equation
<1>4. ASSUME NEW n \in 1 .. L PROVE it[1 .. n] = Op(it[1 .. n - 1], seq[n])
  <2>1. Latest(1 .. n) = n
    BY LatestIsLast
  <2>2. (1 .. n) \ {n} = 1 .. n - 1 /\ 1 .. n # {} /\ 1 .. n \in SUBSET (1 .. L)
    <3>1. n \in 1 .. n /\ n <= L /\ n \in Nat
      OBVIOUS
    <3>2. (1 .. n) \ {n} = 1 .. n - 1
      BY <3>1
    <3>3. \A j \in 1 .. n : j \in 1 .. L
      BY <3>1
    <3>. QED
      BY <3>1, <3>2, <3>3
  <2> DEFINE s == 1 .. n
  <2> HIDE DEF s
  <2>3. s \in SUBSET (1 .. L) => it[s] = IF s = {} THEN base ELSE Op(it[s \ {Latest(s)}], seq[Latest(s)])
    BY <1>2 DEF Equation
  <2>. QED
    BY <2>1, <2>2, <2>3 DEF s
<1> DEFINE T == {n \in Nat : n <= L /\ it[1 .. n] \notin Ok[n]}
<1>5. T = {}
  <2> SUFFICES ASSUME T # {} PROVE FALSE
    OBVIOUS
  <2>1. PICK m \in T : \A y \in T : m <= y
    <3> HIDE DEF T
    <3>. QED
      BY Least DEF T
  <2>2. m # 0
    <3>1. 1 .. 0 = {}
      OBVIOUS
    <3>. QED
      BY <1>3, <3>1
  <2>3. m - 1 \in Nat /\ m - 1 \notin T /\ m \in 1 .. L
    BY <2>1, <2>2
  <2>4. it[1 .. m - 1] \in Ok[m - 1]
    BY <2>3
  <2>. QED
    BY <1>4, <2>3, <2>4
<1>. QED
  BY <1>1, <1>5

\* What a fold of the first n elements is.
Prefix(seq, n) == [i \in 1 .. n |-> seq[i]]

\* The positions up to k.
LEMMA PrefixIs ==
  ASSUME NEW L \in Nat, NEW k \in 1 .. L
  PROVE  (1 .. k) \ {k} = 1 .. k - 1 /\ 1 .. k # {} /\ 1 .. k \in SUBSET (1 .. L)
OBVIOUS

\* The fold of a prefix is found on the way to the fold of the whole.
LEMMA FoldOfPrefix ==
  ASSUME NEW base, NEW seq, NEW L \in Nat, NEW it, Equation(it, base, seq, L), NEW n \in 0 .. L
  PROVE  Fold(base, Prefix(seq, n)) = it[1 .. n]
<1>1. it[{}] = base
  BY DEF Equation
<1>2. ASSUME NEW k \in 1 .. L PROVE it[1 .. k] = Op(it[1 .. k - 1], seq[k])
  <2>1. Latest(1 .. k) = k
    BY LatestIsLast
  <2>2. (1 .. k) \ {k} = 1 .. k - 1 /\ 1 .. k # {} /\ 1 .. k \in SUBSET (1 .. L)
    BY PrefixIs
  <2> DEFINE s == 1 .. k
  <2> HIDE DEF s
  <2>3. s \in SUBSET (1 .. L) => it[s] = IF s = {} THEN base ELSE Op(it[s \ {Latest(s)}], seq[Latest(s)])
    BY DEF Equation
  <2>. QED
    BY <2>1, <2>2, <2>3 DEF s
<1> DEFINE Ok == [k \in Nat |-> {it[1 .. k]}]  pre == Prefix(seq, n)
<1>3. n \in Nat /\ DOMAIN pre = 1 .. n
  BY DEF Prefix
<1>4. 1 .. 0 = {}
  OBVIOUS
<1>5. base \in Ok[0]
  BY <1>1, <1>4
<1>6. ASSUME NEW k \in 1 .. n, NEW x \in Ok[k - 1] PROVE Op(x, pre[k]) \in Ok[k]
  <2>1. pre[k] = seq[k] /\ k \in 1 .. L /\ k \in Nat /\ k - 1 \in Nat
    BY DEF Prefix
  <2>2. x = it[1 .. k - 1]
    BY <2>1
  <2>. QED
    BY <1>2, <2>1, <2>2
<1>7. Fold(base, pre) \in Ok[n]
  <2> HIDE DEF Ok, pre
  <2>. QED
    BY <1>3, <1>5, <1>6, FoldStays
<1>. QED
  BY <1>3, <1>7

\* The fold of nothing, and of one element more.
THEOREM FoldOfNone == ASSUME NEW base, NEW seq PROVE Fold(base, Prefix(seq, 0)) = base
<1>1. PICK it : Equation(it, base, seq, 0)
  BY Defined
<1>2. Fold(base, Prefix(seq, 0)) = it[1 .. 0]
  BY <1>1, FoldOfPrefix
<1>3. it[{}] = base
  BY <1>1 DEF Equation
<1>. QED
  BY <1>2, <1>3

THEOREM FoldGoesOn ==
  ASSUME NEW base, NEW seq, NEW n \in Nat \ {0}
  PROVE  Fold(base, Prefix(seq, n)) = Op(Fold(base, Prefix(seq, n - 1)), seq[n])
<1>1. PICK it : Equation(it, base, seq, n)
  BY Defined
<1>2. Fold(base, Prefix(seq, n)) = it[1 .. n] /\ Fold(base, Prefix(seq, n - 1)) = it[1 .. n - 1]
  BY <1>1, FoldOfPrefix
<1>3. Latest(1 .. n) = n
  BY LatestIsLast
<1>4. (1 .. n) \ {n} = 1 .. n - 1 /\ 1 .. n # {} /\ 1 .. n \in SUBSET (1 .. n)
  OBVIOUS
<1> DEFINE s == 1 .. n
<1> HIDE DEF s
<1>5. s \in SUBSET (1 .. n) => it[s] = IF s = {} THEN base ELSE Op(it[s \ {Latest(s)}], seq[Latest(s)])
  BY <1>1 DEF Equation
<1>6. it[1 .. n] = Op(it[1 .. n - 1], seq[n])
  BY <1>3, <1>4, <1>5 DEF s
<1>. QED
  BY <1>2, <1>6
=============================================================================
