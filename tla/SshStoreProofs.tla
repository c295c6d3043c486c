--------------------------- MODULE SshStoreProofs ---------------------------
(***************************************************************************)
(* What TLAPS proves of the remote list of mt_ssh_store.py: no block is    *)
(* lost whatever the Copier threads do and wherever they stop, no file has *)
(* two writers, what close() leaves behind is the list, and every call is  *)
(* one of the plain list of FileStore.                                     *)
(***************************************************************************)
EXTENDS SshStore, SequenceTheorems, FiniteSetTheorems, FunctionTheorems, TLAPS

\* Induction along the loops of the code.
Answer(s, r) == ProcessFirst(s)
Answers == INSTANCE FoldSteps WITH Op <- Answer
Fetches == INSTANCE FoldSteps WITH Op <- PrefetchOne
Pops    == INSTANCE FoldSteps WITH Op <- PopOldest
Drops   == INSTANCE FoldSteps WITH Op <- DropRead
Writes  == INSTANCE FoldSteps WITH Op <- WriteUnwritten
Dies    == INSTANCE FoldSteps WITH Op <- Die

\* Places, contents and dictionaries of the store.
Blocks   == 0 .. MaxLen - 1
Contents == Values \cup {Nothing}
Maps(S)  == UNION {[D -> S] : D \in SUBSET Blocks}

\* What the queues hold: commands for the threads and their answers.
Tasks == [cmd : {"GET", "PUT", "DEL", "DIE"}, id : Nat, ind : Blocks \cup {-1}, data : Contents]

Stores ==
    [len : 0 .. MaxLen, buffer : Maps(Contents), order : Seq(Blocks),
     pendReads : Maps(Nat), pendWrites : Maps(Nat),
     taskq : Seq(Tasks), resq : Seq(Tasks), nthreads : Int]

CopierStates == {Off, Free} \cup [pc : {"took", "writing", "worked", "dead"}, task : Tasks]

\* Tasks on their way through the queues and the threads.
Queued(s)      == ToSet(s.taskq)
InHand         == {copier[t].task : t \in Taken}
Answered(s)    == ToSet(s.resq)
Outstanding(s) == Queued(s) \cup InHand \cup Answered(s)
Working(pc)    == {t \in Copiers : copier[t].pc = pc}
Done(s)        == {copier[t].task : t \in Working("worked")} \cup Answered(s)

\* A thread works on a task that its state is about.
Fitting ==
    /\ \A t \in Working("writing") : copier[t].task.cmd = "PUT"
    /\ \A t \in Working("worked") : copier[t].task.cmd # "DIE"
    /\ \A t \in Dead : copier[t].task.cmd \in {"GET", "DEL"}

\* The order has each key of the buffer once, and a key is pending for at most
\* one of read and write.
Ordered(s) ==
    /\ DOMAIN s.buffer = ToSet(s.order) /\ IsInjective(s.order)
    /\ DOMAIN s.pendReads \cup DOMAIN s.pendWrites \subseteq DOMAIN s.buffer
    /\ DOMAIN s.pendReads \cap DOMAIN s.pendWrites = {}

\* A task id is on its way once: in a queue or in one thread's hand.
OneIdEach(s) ==
    /\ \A m, n \in DOMAIN s.taskq : s.taskq[m].id = s.taskq[n].id => m = n
    /\ \A m, n \in DOMAIN s.resq : s.resq[m].id = s.resq[n].id => m = n
    /\ \A t, u \in Taken : copier[t].task.id = copier[u].task.id => t = u
    /\ \A k \in Queued(s), h \in InHand : k.id # h.id
    /\ \A k \in Queued(s), a \in Answered(s) : k.id # a.id
    /\ \A h \in InHand, a \in Answered(s) : h.id # a.id

\* What a write or delete on its way says of the buffer, of the list l and, once
\* it is done, of the file.
Writers(s, l) ==
    /\ \A k \in Outstanding(s) : k.cmd \in {"PUT", "DEL"} => Current(s.pendWrites, k)
    /\ \A k \in Outstanding(s) : k.cmd = "PUT" => k.ind \in DOMAIN l /\ s.buffer[k.ind] = k.data
    /\ \A k \in Outstanding(s) : k.cmd = "DEL" => k.ind \notin DOMAIN l
    /\ \A k \in Done(s) : k.cmd = "PUT" => k.ind \in DOMAIN file /\ file[k.ind] = k.data
    /\ \A k \in Done(s) : k.cmd = "DEL" => k.ind \notin DOMAIN file

\* A read that still counts has got the current contents.
Readers(s, l) ==
    /\ \A k \in Done(s) : k.cmd = "GET" /\ Current(s.pendReads, k) => k.data = l[k.ind]
    /\ \A t \in Dead : copier[t].task.cmd = "GET" => ~Current(s.pendReads, copier[t].task)

\* Where the blocks of the list are, those in X excepted.
Kept(s, l, X) ==
    /\ DOMAIN s.pendReads \subseteq DOMAIN l \ X
    /\ DOMAIN s.buffer \cup DOMAIN file \subseteq DOMAIN l \cup DOMAIN s.pendWrites
    /\ \A i \in DOMAIN l \ X :
          IF i \in DOMAIN s.buffer \ DOMAIN s.pendReads THEN s.buffer[i] = l[i]
          ELSE i \in DOMAIN file /\ file[i] = l[i]

DieIds(s) == {a.id : a \in {k \in Answered(s) : k.cmd = "DIE"}}
\* The threads counted as running are those that run and those whose last
\* word is still open.
Counted(s) ==
    /\ s.nthreads <= Cardinality(Copiers)
    /\ Cardinality(Working("off")) = Cardinality(Copiers) - s.nthreads + Cardinality(DieIds(s))

Threads == copier \in [Copiers -> CopierStates] /\ Fitting

SInv(s, l, X) ==
    /\ s \in Stores /\ l \in Maps(Values) /\ file \in Maps(Contents) /\ Threads
    /\ Ordered(s) /\ OneIdEach(s) /\ Writers(s, l) /\ Readers(s, l) /\ Kept(s, l, X) /\ Counted(s)

\* The call in progress.
Calls ==
    {NoCall, [op |-> "failed"]} \cup [op : {"get", "del"}, ind : Blocks]
    \cup [op : {"set"}, ind : Blocks, val : Values]
    \cup [op : {"pickle", "close"}, step : {"check", "join", "assert"}]

\* The block whose place in the list the call in progress is about to change.
Exempt == IF call.op \in {"set", "del"} THEN {call.ind} ELSE {}

\* No thread is stopping.
NoDie(s) == \A k \in Outstanding(s) : k.cmd # "DIE"
\* Every entry of the buffer waits for a write.
AllPending(s) == DOMAIN s.buffer \subseteq DOMAIN s.pendWrites /\ DOMAIN s.pendReads = {}

CallInv ==
    /\ call \in Calls
    /\ call.op \notin {"close", "failed"} => NoDie(store)
    /\ call.op \in {"get", "set", "del"} => store.nthreads > 0
    /\ call.op = "get" => call.ind \in DOMAIN store.buffer \cap DOMAIN list
    /\ call.op \in {"pickle", "close"} => AllPending(store)
    /\ call.op = "set" =>
          \/ call.ind \in Indices /\ DOMAIN list = Indices
          \/ call.ind = store.len - 1 /\ DOMAIN list = 0 .. store.len - 2
    /\ call.op = "del" => call.ind = store.len - 1
    /\ call.op # "set" => DOMAIN list = Indices
    /\ call = NoCall /\ store.nthreads = 0 => DOMAIN store.buffer = {}

\* The inductive invariant.
IInv == SInv(store, list, Exempt) /\ CallInv
-----------------------------------------------------------------------------
\* Functions on blocks.
LEMMA MapFacts ==
  ASSUME NEW S, NEW f \in Maps(S)
  PROVE  /\ DOMAIN f \subseteq Blocks /\ \A i \in DOMAIN f : f[i] \in S
         /\ f = [i \in DOMAIN f |-> f[i]]
<1>1. PICK D \in SUBSET Blocks : f \in [D -> S]
  BY DEF Maps
<1>. QED
  BY <1>1

\* A function on blocks is a map to whatever holds all its values.
LEMMA IsMap ==
  ASSUME NEW S, NEW D \in SUBSET Blocks, NEW f, f = [i \in D |-> f[i]], \A i \in D : f[i] \in S
  PROVE  f \in Maps(S)
<1>1. f \in [D -> S]
  OBVIOUS
<1>. QED
  BY <1>1 DEF Maps

\* Two functions on blocks that agree everywhere are the same.
LEMMA MapsEqual ==
  ASSUME NEW S, NEW T, NEW f \in Maps(S), NEW g \in Maps(T),
         DOMAIN f = DOMAIN g, \A i \in DOMAIN f : f[i] = g[i]
  PROVE  f = g
<1>1. f = [i \in DOMAIN f |-> f[i]] /\ g = [i \in DOMAIN g |-> g[i]]
  BY MapFacts
<1>. QED
  BY <1>1

\* The empty dictionary, which the code writes as << >>, is a map.
LEMMA EmptyMap ==
  ASSUME NEW S
  PROVE  << >> \in Maps(S) /\ DOMAIN << >> = {}
<1>1. DOMAIN << >> = {} /\ << >> = [i \in {} |-> << >>[i]]
  OBVIOUS
<1>. QED
  BY <1>1, IsMap

\* What With makes of a map.
LEMMA WithIsMap ==
  ASSUME NEW S, NEW f \in Maps(S), NEW i \in Blocks, NEW v \in S
  PROVE  With(f, i, v) \in Maps(S)
<1> DEFINE g == With(f, i, v)
<1>1. DOMAIN g = DOMAIN f \cup {i} /\ g[i] = v /\ \A j \in DOMAIN f \ {i} : g[j] = f[j]
  BY DEF With
<1>2. g = [j \in DOMAIN f \cup {i} |-> g[j]]
  BY DEF With
<1> HIDE DEF g
<1>3. PICK D \in SUBSET Blocks : D = DOMAIN f \cup {i}
  BY MapFacts
<1>4. \A j \in D : g[j] \in S
  BY <1>1, <1>3, MapFacts
<1>5. g = [j \in D |-> g[j]]
  BY <1>2, <1>3
<1>6. g \in Maps(S)
  BY <1>4, <1>5, IsMap
<1>. QED
  BY <1>6 DEF g

\* What Without makes of a map.
LEMMA WithoutFacts ==
  ASSUME NEW S, NEW f \in Maps(S), NEW X
  PROVE  /\ Without(f, X) \in Maps(S) /\ DOMAIN Without(f, X) = DOMAIN f \ X
         /\ \A j \in DOMAIN f \ X : Without(f, X)[j] = f[j]
<1> DEFINE g == Without(f, X)
<1>1. /\ DOMAIN g = DOMAIN f \ X /\ g = [j \in DOMAIN f \ X |-> g[j]]
      /\ \A j \in DOMAIN f \ X : g[j] = f[j]
  BY DEF Without
<1> HIDE DEF g
<1>2. PICK D \in SUBSET Blocks : D = DOMAIN f \ X
  BY MapFacts
<1>3. \A j \in D : g[j] \in S
  BY <1>1, <1>2, MapFacts
<1>4. g = [j \in D |-> g[j]]
  BY <1>1, <1>2
<1>5. g \in Maps(S)
  BY <1>3, <1>4, IsMap
<1>. QED
  BY <1>1, <1>5 DEF g

\* The same, for one block.
LEMMA WithoutOne ==
  ASSUME NEW S, NEW f \in Maps(S), NEW i
  PROVE  /\ Without(f, {i}) \in Maps(S) /\ DOMAIN Without(f, {i}) = DOMAIN f \ {i}
         /\ \A j \in DOMAIN f \ {i} : Without(f, {i})[j] = f[j]
<1>1. PICK X : X = {i}
  OBVIOUS
<1>2. /\ Without(f, X) \in Maps(S) /\ DOMAIN Without(f, X) = DOMAIN f \ X
      /\ \A j \in DOMAIN f \ X : Without(f, X)[j] = f[j]
  BY WithoutFacts
<1>. QED
  BY <1>1, <1>2

\* What EXCEPT makes of a map.
LEMMA ExceptFacts ==
  ASSUME NEW S, NEW f \in Maps(S), NEW i \in DOMAIN f, NEW v \in S
  PROVE  LET g == [f EXCEPT ![i] = v]
         IN  /\ g \in Maps(S) /\ DOMAIN g = DOMAIN f /\ g[i] = v
             /\ \A j \in DOMAIN f \ {i} : g[j] = f[j]
<1> DEFINE g == [f EXCEPT ![i] = v]
<1>1. /\ DOMAIN g = DOMAIN f /\ g[i] = v
      /\ \A j \in DOMAIN f \ {i} : g[j] = f[j]
  OBVIOUS
<1>2. g = [j \in DOMAIN f |-> g[j]]
  OBVIOUS
<1> HIDE DEF g
<1>3. PICK D \in SUBSET Blocks : D = DOMAIN f
  BY MapFacts
<1>4. \A j \in D : g[j] \in S
  BY <1>1, <1>3, MapFacts
<1>5. g = [j \in D |-> g[j]]
  BY <1>1, <1>3, <1>2
<1>6. g \in Maps(S)
  BY <1>4, <1>5, IsMap
<1>. QED
  BY <1>1, <1>6 DEF g

\* Sequences without repetition, as the keys of an OrderedDict.
LEMMA AppendFacts ==
  ASSUME NEW S, NEW q \in Seq(S), NEW x \in S
  PROVE  /\ Append(q, x) \in Seq(S) /\ ToSet(Append(q, x)) = ToSet(q) \cup {x}
         /\ Len(Append(q, x)) = Len(q) + 1 /\ Append(q, x)[Len(q) + 1] = x
         /\ IsInjective(q) /\ x \notin ToSet(q) => IsInjective(Append(q, x))
<1>1. PICK n \in Nat : n = Len(q)
  OBVIOUS
<1>2. DOMAIN q = 1 .. n /\ DOMAIN Append(q, x) = 1 .. n + 1
  BY <1>1
<1>3. \A m \in 1 .. n : Append(q, x)[m] = q[m]
  BY <1>1
<1>4. Append(q, x)[n + 1] = x /\ Len(Append(q, x)) = n + 1 /\ Append(q, x) \in Seq(S)
  BY <1>1
<1>5. 1 .. n + 1 = 1 .. n \cup {n + 1}
  OBVIOUS
<1>6. ToSet(Append(q, x)) = ToSet(q) \cup {x}
  BY <1>2, <1>3, <1>4, <1>5 DEF ToSet
<1>7. ASSUME IsInjective(q), x \notin ToSet(q) PROVE IsInjective(Append(q, x))
  BY <1>2, <1>3, <1>4, <1>5, <1>7 DEF IsInjective, ToSet
<1>. QED
  BY <1>1, <1>4, <1>6, <1>7

\* Removed takes one key out of the order and keeps the rest.
LEMMA RemovedFacts ==
  ASSUME NEW S, NEW q \in Seq(S), IsInjective(q), NEW x
  PROVE  /\ Removed(q, x) \in Seq(S) /\ ToSet(Removed(q, x)) = ToSet(q) \ {x}
         /\ IsInjective(Removed(q, x))
<1>1. CASE x \notin ToSet(q)
  BY <1>1 DEF Removed
<1>2. CASE x \in ToSet(q)
  <2>1. PICK n \in Nat : n = Len(q)
    OBVIOUS
  <2>2. DOMAIN q = 1 .. n /\ \A m \in 1 .. n : q[m] \in S
    BY <2>1
  <2>3. PICK p \in 1 .. n : p = (CHOOSE m \in DOMAIN q : q[m] = x) /\ q[p] = x
    BY <1>2, <2>2 DEF ToSet
  <2> DEFINE a == SubSeq(q, 1, p - 1)
             b == SubSeq(q, p + 1, n)
             r == Removed(q, x)
  <2>4. r = a \o b
    BY <1>2, <2>1, <2>3 DEF Removed, RemoveAt
  <2>5. /\ a \in Seq(S) /\ Len(a) = p - 1 /\ \A m \in 1 .. p - 1 : a[m] = q[m]
        /\ b \in Seq(S) /\ Len(b) = n - p /\ \A m \in 1 .. n - p : b[m] = q[p + m]
    <3>1. /\ a \in Seq(S) /\ Len(a) = p - 1 /\ \A m \in 1 .. p - 1 : a[m] = q[m]
      <4>1. p - 1 \in Int /\ \A m \in 1 .. p - 1 : q[m] \in S
        BY <2>2
      <4>. QED
        BY <4>1, SubSeqProperties
    <3>2. /\ b \in Seq(S) /\ Len(b) = n - p /\ \A m \in 1 .. n - p : b[m] = q[p + m]
      <4>1. p + 1 \in Int /\ n \in Int /\ \A m \in p + 1 .. n : q[m] \in S
        BY <2>2
      <4>2. /\ b \in Seq(S) /\ Len(b) = IF p + 1 <= n THEN n - (p + 1) + 1 ELSE 0
            /\ \A m \in 1 .. n - (p + 1) + 1 : b[m] = q[(p + 1) + m - 1]
        BY <4>1, SubSeqProperties
      <4>3. \A m \in 1 .. n - p : (p + 1) + m - 1 = p + m /\ m \in 1 .. n - (p + 1) + 1
        OBVIOUS
      <4>. QED
        BY <4>2, <4>3
    <3>. QED
      BY <3>1, <3>2
  <2> HIDE DEF a, b
  <2>6. r \in Seq(S) /\ DOMAIN r = 1 .. n - 1
    <3>1. Len(a) + Len(b) = n - 1
      BY <2>5
    <3>2. r \in Seq(S) /\ Len(r) = n - 1
      BY <2>4, <2>5, <3>1, ConcatProperties
    <3>. QED
      BY <3>2, LenProperties
  <2>7. \A m \in 1 .. n - 1 : r[m] = q[IF m < p THEN m ELSE m + 1]
    <3> SUFFICES ASSUME NEW m \in 1 .. n - 1 PROVE r[m] = q[IF m < p THEN m ELSE m + 1]
      OBVIOUS
    <3>1. m \in 1 .. Len(a) + Len(b)
      BY <2>5
    <3>2. r[m] = IF m <= Len(a) THEN a[m] ELSE b[m - Len(a)]
      BY <2>4, <2>5, <3>1, ConcatProperties
    <3>3. CASE m < p
      BY <3>2, <3>3, <2>5
    <3>4. CASE m >= p
      <4>1. m - Len(a) = m - (p - 1) /\ m - (p - 1) \in 1 .. n - p /\ ~(m <= Len(a))
        BY <2>5, <3>4
      <4>2. p + (m - (p - 1)) = m + 1
        OBVIOUS
      <4>. QED
        BY <2>5, <3>2, <3>4, <4>1, <4>2
    <3>. QED
      BY <3>3, <3>4
  <2> HIDE DEF r
  <2>8. IsInjective(r)
    <3> SUFFICES ASSUME NEW m \in 1 .. n - 1, NEW k \in 1 .. n - 1, r[m] = r[k] PROVE m = k
      BY <2>6 DEF IsInjective
    <3>1. (IF m < p THEN m ELSE m + 1) = (IF k < p THEN k ELSE k + 1)
      <4>1. (IF m < p THEN m ELSE m + 1) \in 1 .. n /\ (IF k < p THEN k ELSE k + 1) \in 1 .. n
        BY <2>3
      <4>. QED
        BY <2>2, <2>7, <4>1, SMTT(30) DEF IsInjective
    <3>. QED
      BY <3>1
  <2>9. ASSUME NEW y \in ToSet(r) PROVE y \in ToSet(q) \ {x}
    <3>1. PICK m \in 1 .. n - 1 : y = r[m]
      BY <2>6 DEF ToSet
    <3>2. PICK k \in 1 .. n : k = (IF m < p THEN m ELSE m + 1) /\ k # p
      OBVIOUS
    <3>. QED
      BY <2>2, <2>3, <2>7, <3>1, <3>2 DEF IsInjective, ToSet
  <2>10. ASSUME NEW y \in ToSet(q), y # x PROVE y \in ToSet(r)
    <3>1. PICK k \in 1 .. n : y = q[k] /\ k # p
      BY <2>2, <2>3, <2>10 DEF ToSet
    <3>2. PICK m \in 1 .. n - 1 : k = (IF m < p THEN m ELSE m + 1)
      <4>1. CASE k < p
        BY <4>1
      <4>2. CASE k > p
        <5>1. k - 1 \in 1 .. n - 1 /\ ~(k - 1 < p) /\ k = (k - 1) + 1
          BY <4>2
        <5>. QED
          BY <5>1
      <4>. QED
        BY <3>1, <4>1, <4>2
    <3>. QED
      BY <2>6, <2>7, <3>1, <3>2 DEF ToSet
  <2>. QED
    BY <2>6, <2>8, <2>9, <2>10 DEF r
<1>. QED
  BY <1>1, <1>2

\* MovedToEnd changes only the order of the keys.
LEMMA MovedFacts ==
  ASSUME NEW S, NEW q \in Seq(S), IsInjective(q), NEW x \in S
  PROVE  /\ MovedToEnd(q, x) \in Seq(S) /\ ToSet(MovedToEnd(q, x)) = ToSet(q) \cup {x}
         /\ IsInjective(MovedToEnd(q, x))
         /\ Len(MovedToEnd(q, x)) \in Nat \ {0} /\ MovedToEnd(q, x)[Len(MovedToEnd(q, x))] = x
<1>1. Removed(q, x) \in Seq(S) /\ ToSet(Removed(q, x)) = ToSet(q) \ {x} /\ IsInjective(Removed(q, x))
  BY RemovedFacts
<1> DEFINE r == Removed(q, x)
<1>2. r \in Seq(S) /\ IsInjective(r) /\ ToSet(r) = ToSet(q) \ {x} /\ Len(r) \in Nat
  BY <1>1
<1> HIDE DEF r
<1>. QED
  BY <1>2, AppendFacts DEF MovedToEnd, r

\* A queue without its head.
LEMMA TailFacts ==
  ASSUME NEW S, NEW q \in Seq(S), q # << >>
  PROVE  /\ Tail(q) \in Seq(S) /\ Len(Tail(q)) = Len(q) - 1 /\ Head(q) \in ToSet(q)
         /\ ToSet(q) = ToSet(Tail(q)) \cup {Head(q)} /\ ToSet(q) \subseteq S
         /\ \A m \in DOMAIN Tail(q) : m + 1 \in DOMAIN q /\ Tail(q)[m] = q[m + 1]
<1>1. PICK n \in Nat \ {0} : n = Len(q)
  BY EmptySeq
<1>2. DOMAIN q = 1 .. n /\ \A m \in 1 .. n : q[m] \in S
  BY <1>1
<1>3. Tail(q) \in Seq(S) /\ Len(Tail(q)) = n - 1 /\ \A m \in 1 .. n - 1 : Tail(q)[m] = q[m + 1]
  BY <1>1, HeadTailProperties
<1>4. DOMAIN Tail(q) = 1 .. n - 1
  BY <1>3, LenProperties
<1>5. Head(q) = q[1]
  OBVIOUS
<1>6. ASSUME NEW m \in 1 .. n PROVE m = 1 \/ (m - 1 \in 1 .. n - 1 /\ Tail(q)[m - 1] = q[m])
  BY <1>3
<1>7. \A m \in 1 .. n - 1 : m + 1 \in 1 .. n
  OBVIOUS
<1>8. ToSet(q) = ToSet(Tail(q)) \cup {Head(q)}
  <2>1. ASSUME NEW x \in ToSet(q) PROVE x \in ToSet(Tail(q)) \cup {Head(q)}
    <3>1. PICK m \in 1 .. n : x = q[m]
      BY <1>2 DEF ToSet
    <3>. QED
      BY <1>4, <1>5, <1>6, <3>1 DEF ToSet
  <2>2. ASSUME NEW x \in ToSet(Tail(q)) PROVE x \in ToSet(q)
    BY <1>2, <1>3, <1>4, <1>7 DEF ToSet
  <2>3. Head(q) \in ToSet(q)
    BY <1>2, <1>5 DEF ToSet
  <2>. QED
    BY <2>1, <2>2, <2>3
<1>9. Head(q) \in ToSet(q) /\ ToSet(q) \subseteq S
  BY <1>2, <1>5 DEF ToSet
<1>10. \A m \in DOMAIN Tail(q) : m + 1 \in DOMAIN q /\ Tail(q)[m] = q[m + 1]
  BY <1>2, <1>3, <1>4, <1>7
<1>. QED
  BY <1>1, <1>3, <1>8, <1>9, <1>10
-----------------------------------------------------------------------------

\* The id of a new task is that of no other.
LEMMA ImageFinite ==
  ASSUME NEW D, IsFiniteSet(D), NEW f
  PROVE  IsFiniteSet({f[x] : x \in D})
<1> DEFINE T == {f[x] : x \in D}
           g == [x \in D |-> f[x]]
<1>1. g \in Surjection(D, T)
  BY DEF Surjection
<1>. QED
  BY <1>1, FS_Surjection

\* NewId chooses an id that is in no task on its way and in no pending entry.
LEMMA NewIdIsNew ==
  ASSUME NEW s \in Stores
  PROVE  /\ NewId(s) \in Nat
         /\ \A k \in Outstanding(s) : k.id # NewId(s)
<1> DEFINE Q == {s.taskq[n].id : n \in DOMAIN s.taskq}
           R == {s.resq[n].id : n \in DOMAIN s.resq}
           H == {copier[t].task.id : t \in Taken}
           used == Q \cup R \cup H
<1>1. IsFiniteSet(Q)
  <2> DEFINE f == [n \in DOMAIN s.taskq |-> s.taskq[n].id]
  <2>1. DOMAIN s.taskq = 1 .. Len(s.taskq) /\ Len(s.taskq) \in Nat
    BY LenProperties DEF Stores
  <2>2. IsFiniteSet(DOMAIN s.taskq)
    BY <2>1, FS_Interval
  <2>3. {f[x] : x \in DOMAIN s.taskq} = Q
    OBVIOUS
  <2> HIDE DEF f
  <2>4. IsFiniteSet({f[x] : x \in DOMAIN s.taskq})
    BY <2>2, ImageFinite
  <2>. QED
    BY <2>3, <2>4
<1>2. IsFiniteSet(R)
  <2> DEFINE f == [n \in DOMAIN s.resq |-> s.resq[n].id]
  <2>1. DOMAIN s.resq = 1 .. Len(s.resq) /\ Len(s.resq) \in Nat
    BY LenProperties DEF Stores
  <2>2. IsFiniteSet(DOMAIN s.resq)
    BY <2>1, FS_Interval
  <2>3. {f[x] : x \in DOMAIN s.resq} = R
    OBVIOUS
  <2> HIDE DEF f
  <2>4. IsFiniteSet({f[x] : x \in DOMAIN s.resq})
    BY <2>2, ImageFinite
  <2>. QED
    BY <2>3, <2>4
<1>3. IsFiniteSet(H)
  <2> DEFINE f == [t \in Taken |-> copier[t].task.id]
  <2>1. IsFiniteSet(Taken)
    BY SshAssumption, FS_Subset DEF Taken
  <2>2. {f[x] : x \in Taken} = H
    OBVIOUS
  <2> HIDE DEF f
  <2>3. IsFiniteSet({f[x] : x \in Taken})
    BY <2>1, ImageFinite
  <2>. QED
    BY <2>2, <2>3
<1>4. IsFiniteSet(used)
  BY <1>1, <1>2, <1>3, FS_Union
<1> DEFINE c == Cardinality(used)
           free == (0 .. c) \ used
<1>5. NewId(s) = Min(free)
  BY DEF NewId
<1>6. \A k \in Outstanding(s) : k.id \in used
  BY DEF Outstanding, Queued, Answered, InHand, ToSet
<1> HIDE DEF used
<1>7. c \in Nat
  BY <1>4, FS_CardinalityType
<1>8. free # {}
  <2> SUFFICES ASSUME 0 .. c \subseteq used PROVE FALSE
    OBVIOUS
  <2>1. Cardinality(0 .. c) = c + 1
    BY <1>7, FS_Interval
  <2>2. Cardinality(0 .. c) <= c
    BY <1>4, FS_Subset
  <2>. QED
    BY <1>7, <2>1, <2>2
<1>9. PICK x \in free : \A y \in free : x <= y
  <2>1. free \in SUBSET Nat
    BY <1>7
  <2> HIDE DEF free
  <2>. QED
    BY <1>8, <2>1, Pops!Least
<1>10. Min(free) \in free
  BY <1>9 DEF Min
<1>. QED
  BY <1>5, <1>6, <1>10, <1>7

-----------------------------------------------------------------------------
\* What the elementary changes of the store do to its invariant.
Rest(s, m) == m.len = s.len /\ m.nthreads = s.nthreads

\* The queues determine which tasks are on their way.
LEMMA SameTasks ==
  ASSUME NEW s, NEW m, m.taskq = s.taskq, m.resq = s.resq
  PROVE  /\ Outstanding(m) = Outstanding(s) /\ Done(m) = Done(s) /\ DieIds(m) = DieIds(s)
         /\ OneIdEach(s) => OneIdEach(m)
BY DEF Outstanding, Done, DieIds, OneIdEach, Queued, Answered

\* Two tasks on their way with one id are the same task.
LEMMA OneTaskPerId ==
  ASSUME NEW s, OneIdEach(s), NEW k \in Outstanding(s), NEW h \in Outstanding(s), k.id = h.id
  PROVE  k = h
BY DEF OneIdEach, Outstanding, Queued, InHand, Answered, ToSet

\* A task with a new id joins those on their way.
LEMMA OneMoreTask ==
  ASSUME NEW s \in Stores, NEW m, NEW k \in Tasks,
         m.taskq = Append(s.taskq, k), m.resq = s.resq
  PROVE  /\ Outstanding(m) = Outstanding(s) \cup {k} /\ Done(m) = Done(s) /\ DieIds(m) = DieIds(s)
         /\ OneIdEach(s) /\ k.id = NewId(s) => OneIdEach(m)
<1>1. s.taskq \in Seq(Tasks)
  BY DEF Stores
<1>2. Queued(m) = Queued(s) \cup {k} /\ Answered(m) = Answered(s)
  BY <1>1, AppendFacts DEF Queued, Answered
<1>3. ASSUME OneIdEach(s), k.id = NewId(s) PROVE OneIdEach(m)
  <2>1. \A h \in Outstanding(s) : h.id # k.id
    BY <1>3, NewIdIsNew
  <2>2. \A a, b \in DOMAIN m.taskq : m.taskq[a].id = m.taskq[b].id => a = b
    <3> DEFINE n == Len(s.taskq)
    <3>1. n \in Nat /\ DOMAIN s.taskq = 1 .. n /\ DOMAIN m.taskq = 1 .. n \cup {n + 1}
      BY <1>1
    <3>2. m.taskq[n + 1] = k /\ \A a \in 1 .. n : m.taskq[a] = s.taskq[a]
      BY <1>1
    <3> HIDE DEF n
    <3>3. \A a \in 1 .. n : s.taskq[a] \in Outstanding(s)
      BY <3>1 DEF Outstanding, Queued, ToSet
    <3>. QED
      BY <1>3, <2>1, <3>1, <3>2, <3>3 DEF OneIdEach
  <2>3. \A h \in InHand \cup Answered(s) : h.id # k.id
    BY <2>1 DEF Outstanding
  <2>. QED
    BY <1>2, <1>3, <2>2, <2>3 DEF OneIdEach, Answered
<1>. QED
  BY <1>2, <1>3 DEF Outstanding, Done, DieIds

\* An entry is moved to the end of the order.
LEMMA MoveKeeps ==
  ASSUME NEW s, NEW l, NEW X, SInv(s, l, X), NEW i \in DOMAIN s.buffer,
         NEW m, m = [s EXCEPT !.order = MovedToEnd(@, i)]
  PROVE  /\ SInv(m, l, X) /\ m.order[Len(m.order)] = i /\ Len(m.order) \in Nat \ {0}
<1>1. s \in Stores /\ Ordered(s)
  BY DEF SInv
<1>2. i \in Blocks /\ s.order \in Seq(Blocks)
  BY <1>1, MapFacts DEF Stores
<1>3. /\ m.order \in Seq(Blocks) /\ ToSet(m.order) = ToSet(s.order) \cup {i} /\ IsInjective(m.order)
      /\ m.order[Len(m.order)] = i /\ Len(m.order) \in Nat \ {0}
  <2>1. m.order = MovedToEnd(s.order, i)
    BY <1>1 DEF Stores
  <2>2. PICK o \in Seq(Blocks) : o = s.order
    BY <1>2
  <2>3. IsInjective(o)
    BY <1>1, <2>2 DEF Ordered
  <2>4. /\ MovedToEnd(o, i) \in Seq(Blocks) /\ ToSet(MovedToEnd(o, i)) = ToSet(o) \cup {i}
        /\ IsInjective(MovedToEnd(o, i))
        /\ Len(MovedToEnd(o, i)) \in Nat \ {0} /\ MovedToEnd(o, i)[Len(MovedToEnd(o, i))] = i
    BY <1>2, <2>3, MovedFacts
  <2>. QED
    BY <2>1, <2>2, <2>4
<1>4. /\ m \in Stores
      /\ m.buffer = s.buffer /\ m.pendReads = s.pendReads /\ m.pendWrites = s.pendWrites
      /\ m.taskq = s.taskq /\ m.resq = s.resq /\ m.nthreads = s.nthreads
  BY <1>1, <1>3 DEF Stores
<1>5. Ordered(m)
  BY <1>1, <1>3, <1>4 DEF Ordered
<1>6. /\ Outstanding(m) = Outstanding(s) /\ Done(m) = Done(s) /\ DieIds(m) = DieIds(s)
      /\ OneIdEach(m)
  BY <1>4, SameTasks DEF SInv
<1>7. Writers(m, l) /\ Readers(m, l) /\ Kept(m, l, X) /\ Counted(m)
  BY <1>4, <1>6 DEF SInv, Writers, Readers, Kept, Counted
<1>. QED
  BY <1>3, <1>4, <1>5, <1>6, <1>7 DEF SInv

\* A block that is not pending is put down to be written.
LEMMA WritebackKeeps ==
  ASSUME NEW s, NEW l, NEW X, SInv(s, l, X), NEW i \in DOMAIN s.buffer,
         i \notin DOMAIN s.pendReads, i \notin DOMAIN s.pendWrites,
         NEW m, m = Writeback(s, i)
  PROVE  /\ SInv(m, l, X) /\ Rest(s, m) /\ m.resq = s.resq
         /\ m.buffer = s.buffer /\ m.order = s.order /\ m.pendReads = s.pendReads
         /\ DOMAIN m.pendWrites = DOMAIN s.pendWrites \cup {i}
         /\ NoDie(s) => NoDie(m)
<1>1. s \in Stores /\ Ordered(s) /\ OneIdEach(s)
  BY DEF SInv
<1>2. i \in Blocks /\ s.buffer[i] \in Contents /\ NewId(s) \in Nat
  BY <1>1, MapFacts, NewIdIsNew DEF Stores
<1> DEFINE k == Task("PUT", s, i, s.buffer[i])
<1>3. /\ k \in Tasks /\ k.cmd = "PUT" /\ k.id = NewId(s) /\ k.ind = i
      /\ k.data = s.buffer[i]
  BY <1>2 DEF Task, Tasks
<1>4. /\ m.taskq = Append(s.taskq, k) /\ m.resq = s.resq
      /\ m.buffer = s.buffer /\ m.pendReads = s.pendReads /\ m.order = s.order /\ Rest(s, m)
      /\ m.pendWrites = With(s.pendWrites, i, NewId(s))
  BY <1>1 DEF Stores, Writeback, Rest
<1>5. /\ With(s.pendWrites, i, NewId(s)) \in Maps(Nat)
      /\ DOMAIN m.pendWrites = DOMAIN s.pendWrites \cup {i} /\ m.pendWrites[i] = NewId(s)
      /\ \A j \in DOMAIN s.pendWrites \ {i} : m.pendWrites[j] = s.pendWrites[j]
  <2>1. PICK p \in Maps(Nat) : p = s.pendWrites
    BY <1>1 DEF Stores
  <2>2. PICK d \in Nat : d = NewId(s)
    BY <1>2
  <2>3. With(p, i, d) \in Maps(Nat)
    BY <1>2, WithIsMap
  <2>4. /\ DOMAIN With(p, i, d) = DOMAIN p \cup {i} /\ With(p, i, d)[i] = d
        /\ \A j \in DOMAIN p \ {i} : With(p, i, d)[j] = p[j]
    BY DEF With
  <2>. QED
    BY <1>4, <2>1, <2>2, <2>3, <2>4
<1> HIDE DEF k
<1>6. m \in Stores
  <2>1. Append(s.taskq, k) \in Seq(Tasks)
    BY <1>1, <1>3, AppendFacts DEF Stores
  <2>2. m = [s EXCEPT !.taskq = Append(s.taskq, k), !.pendWrites = With(s.pendWrites, i, NewId(s))]
    BY <1>1 DEF Stores, Writeback, k
  <2>. QED
    BY <1>1, <1>5, <2>1, <2>2 DEF Stores
<1>7. Ordered(m)
  BY <1>1, <1>4, <1>5 DEF Ordered
<1>8. /\ Outstanding(m) = Outstanding(s) \cup {k} /\ Done(m) = Done(s) /\ DieIds(m) = DieIds(s)
      /\ OneIdEach(m)
  <2>1. s \in Stores /\ k \in Tasks /\ m.taskq = Append(s.taskq, k) /\ m.resq = s.resq
        /\ OneIdEach(s) /\ k.id = NewId(s)
    BY <1>1, <1>3, <1>4
  <2>. QED
    BY <2>1, OneMoreTask
<1>9. i \in DOMAIN l
  BY DEF SInv, Kept
<1>10. Writers(m, l)
  <2>1. \A h \in Outstanding(s) : h.cmd \in {"PUT", "DEL"} => Current(m.pendWrites, h)
    BY <1>5 DEF SInv, Writers, Current
  <2>2. Current(m.pendWrites, k)
    BY <1>3, <1>5 DEF Current
  <2>. QED
    BY <1>3, <1>4, <1>8, <1>9, <2>1, <2>2 DEF SInv, Writers
<1>11. Readers(m, l) /\ Counted(m)
  BY <1>4, <1>8 DEF SInv, Readers, Counted, Rest
<1>12. Kept(m, l, X)
  BY <1>4, <1>5 DEF SInv, Kept
<1>13. NoDie(s) => NoDie(m)
  BY <1>3, <1>8 DEF NoDie
<1>. QED
  BY <1>4, <1>5, <1>6, <1>7, <1>8, <1>10, <1>11, <1>12, <1>13 DEF SInv

\* A read that is under way and the entry that waits for it are dropped.
LEMMA DropReadKeeps ==
  ASSUME NEW s, NEW l, NEW X, SInv(s, l, X), NEW i \in DOMAIN s.pendReads,
         NEW m, m = DropRead(s, i)
  PROVE  /\ SInv(m, l, X) /\ Rest(s, m) /\ m.resq = s.resq /\ m.taskq = s.taskq
         /\ DOMAIN m.buffer = DOMAIN s.buffer \ {i}
         /\ DOMAIN m.pendReads = DOMAIN s.pendReads \ {i} /\ m.pendWrites = s.pendWrites
         /\ NoDie(s) => NoDie(m)
<1>1. s \in Stores /\ Ordered(s)
  BY DEF SInv
<1>2. /\ m = [s EXCEPT !.buffer = Without(s.buffer, {i}), !.order = Removed(s.order, i),
                       !.pendReads = Without(s.pendReads, {i})]
      /\ m.buffer = Without(s.buffer, {i}) /\ m.order = Removed(s.order, i)
      /\ m.pendReads = Without(s.pendReads, {i})
      /\ m.taskq = s.taskq /\ m.resq = s.resq /\ m.pendWrites = s.pendWrites /\ Rest(s, m)
  BY <1>1 DEF Stores, DropRead, Forget, Rest
<1>3. /\ m.buffer \in Maps(Contents) /\ DOMAIN m.buffer = DOMAIN s.buffer \ {i}
      /\ \A j \in DOMAIN s.buffer \ {i} : m.buffer[j] = s.buffer[j]
  <2>1. PICK f \in Maps(Contents) : f = s.buffer
    BY <1>1 DEF Stores
  <2>2. /\ Without(f, {i}) \in Maps(Contents) /\ DOMAIN Without(f, {i}) = DOMAIN f \ {i}
        /\ \A j \in DOMAIN f \ {i} : Without(f, {i})[j] = f[j]
    BY WithoutOne
  <2>. QED
    BY <1>2, <2>1, <2>2
<1>4. /\ m.pendReads \in Maps(Nat) /\ DOMAIN m.pendReads = DOMAIN s.pendReads \ {i}
      /\ \A j \in DOMAIN s.pendReads \ {i} : m.pendReads[j] = s.pendReads[j]
  <2>1. PICK f \in Maps(Nat) : f = s.pendReads
    BY <1>1 DEF Stores
  <2>2. /\ Without(f, {i}) \in Maps(Nat) /\ DOMAIN Without(f, {i}) = DOMAIN f \ {i}
        /\ \A j \in DOMAIN f \ {i} : Without(f, {i})[j] = f[j]
    BY WithoutOne
  <2>. QED
    BY <1>2, <2>1, <2>2
<1>5. m.order \in Seq(Blocks) /\ ToSet(m.order) = ToSet(s.order) \ {i} /\ IsInjective(m.order)
  <2>1. PICK o \in Seq(Blocks) : o = s.order
    BY <1>1 DEF Stores
  <2>2. IsInjective(o)
    BY <1>1, <2>1 DEF Ordered
  <2>. QED
    BY <1>2, <2>1, <2>2, RemovedFacts
<1>6. m \in Stores
  BY <1>1, <1>2, <1>3, <1>4, <1>5 DEF Stores
<1>7. Ordered(m)
  BY <1>1, <1>2, <1>3, <1>4, <1>5 DEF Ordered
<1>8. /\ Outstanding(m) = Outstanding(s) /\ Done(m) = Done(s) /\ DieIds(m) = DieIds(s)
      /\ OneIdEach(m)
  BY <1>2, SameTasks DEF SInv
<1>9. Writers(m, l)
  <2>1. \A j \in DOMAIN s.pendWrites : j \in DOMAIN s.buffer \ {i}
    BY <1>1 DEF Ordered
  <2>. QED
    BY <1>2, <1>3, <1>8, <2>1 DEF SInv, Writers, Current
<1>10. Readers(m, l)
  <2>1. \A k : Current(m.pendReads, k) => Current(s.pendReads, k)
    BY <1>4 DEF Current
  <2>. QED
    BY <1>8, <2>1 DEF SInv, Readers
<1>11. Kept(m, l, X)
  BY <1>2, <1>3, <1>4 DEF SInv, Kept
<1>12. Counted(m) /\ (NoDie(s) => NoDie(m))
  BY <1>2, <1>8 DEF SInv, Counted, Rest, NoDie
<1>. QED
  BY <1>2, <1>3, <1>4, <1>6, <1>7, <1>8, <1>9, <1>10, <1>11, <1>12 DEF SInv

\* A read that is under way no longer counts: the block is about to change.
LEMMA UnreadKeeps ==
  ASSUME NEW s, NEW l, SInv(s, l, {}), NEW i,
         NEW m, m = [s EXCEPT !.pendReads = Without(@, {i})]
  PROVE  /\ SInv(m, l, {i}) /\ Rest(s, m) /\ (NoDie(s) => NoDie(m))
<1>1. s \in Stores /\ Ordered(s)
  BY DEF SInv
<1>2. /\ m = [s EXCEPT !.pendReads = Without(s.pendReads, {i})]
      /\ m.buffer = s.buffer /\ m.order = s.order
      /\ m.pendReads = Without(s.pendReads, {i})
      /\ m.taskq = s.taskq /\ m.resq = s.resq /\ m.pendWrites = s.pendWrites /\ Rest(s, m)
  BY <1>1 DEF Stores, Rest
<1>3. /\ m.pendReads \in Maps(Nat) /\ DOMAIN m.pendReads = DOMAIN s.pendReads \ {i}
      /\ \A j \in DOMAIN s.pendReads \ {i} : m.pendReads[j] = s.pendReads[j]
  <2>1. PICK f \in Maps(Nat) : f = s.pendReads
    BY <1>1 DEF Stores
  <2>2. /\ Without(f, {i}) \in Maps(Nat) /\ DOMAIN Without(f, {i}) = DOMAIN f \ {i}
        /\ \A j \in DOMAIN f \ {i} : Without(f, {i})[j] = f[j]
    BY WithoutOne, ZenonT(60)
  <2>. QED
    BY <1>2, <2>1, <2>2
<1>4. m \in Stores
  BY <1>1, <1>2, <1>3 DEF Stores
<1>5. Ordered(m)
  BY <1>1, <1>2, <1>3 DEF Ordered
<1>6. /\ Outstanding(m) = Outstanding(s) /\ Done(m) = Done(s) /\ DieIds(m) = DieIds(s)
      /\ OneIdEach(m)
  BY <1>2, SameTasks DEF SInv
<1>7. Writers(m, l)
  BY <1>2, <1>6 DEF SInv, Writers
<1>8. Readers(m, l)
  <2>1. \A k : Current(m.pendReads, k) => Current(s.pendReads, k)
    BY <1>3 DEF Current
  <2>. QED
    BY <1>6, <2>1 DEF SInv, Readers
<1>9. Kept(m, l, {i})
  BY <1>2, <1>3 DEF SInv, Kept
<1>10. Counted(m) /\ (NoDie(s) => NoDie(m))
  BY <1>2, <1>6 DEF SInv, Counted, Rest, NoDie
<1>. QED
  BY <1>2, <1>4, <1>5, <1>6, <1>7, <1>8, <1>9, <1>10 DEF SInv

\* A read of a block that has no entry is put in the queue.
LEMMA GetQueuedKeeps ==
  ASSUME NEW s, NEW l, NEW X, SInv(s, l, X), NEW i \in DOMAIN l \ X, i \notin DOMAIN s.buffer,
         NEW m, m = PrefetchOne(s, i)
  PROVE  /\ SInv(m, l, X) /\ Rest(s, m) /\ (NoDie(s) => NoDie(m))
         /\ Len(m.order) \in Nat \ {0} /\ m.order[Len(m.order)] = i
<1>1. s \in Stores /\ Ordered(s) /\ OneIdEach(s)
  BY DEF SInv
<1>2. i \in Blocks /\ NewId(s) \in Nat /\ Nothing \in Contents
  BY <1>1, MapFacts, NewIdIsNew DEF SInv, Contents
<1> DEFINE k == Task("GET", s, i, Nothing)
<1>3. k \in Tasks /\ k.cmd = "GET" /\ k.id = NewId(s) /\ k.ind = i
  BY <1>2 DEF Task, Tasks
<1>4. /\ m = [s EXCEPT !.taskq = Append(s.taskq, k), !.buffer = With(s.buffer, i, Nothing),
                       !.order = Append(s.order, i), !.pendReads = With(s.pendReads, i, NewId(s))]
      /\ m.taskq = Append(s.taskq, k) /\ m.buffer = With(s.buffer, i, Nothing)
      /\ m.order = Append(s.order, i) /\ m.pendReads = With(s.pendReads, i, NewId(s))
      /\ m.resq = s.resq /\ m.pendWrites = s.pendWrites /\ Rest(s, m)
  BY <1>1 DEF Stores, PrefetchOne, Rest
<1>5. /\ m.buffer \in Maps(Contents) /\ DOMAIN m.buffer = DOMAIN s.buffer \cup {i}
      /\ \A j \in DOMAIN s.buffer \ {i} : m.buffer[j] = s.buffer[j]
  <2>1. PICK f \in Maps(Contents) : f = s.buffer
    BY <1>1 DEF Stores
  <2>2. With(f, i, Nothing) \in Maps(Contents)
    BY <1>2, WithIsMap
  <2>3. /\ DOMAIN With(f, i, Nothing) = DOMAIN f \cup {i}
        /\ \A j \in DOMAIN f \ {i} : With(f, i, Nothing)[j] = f[j]
    BY DEF With
  <2>. QED
    BY <1>4, <2>1, <2>2, <2>3
<1>6. /\ m.pendReads \in Maps(Nat) /\ DOMAIN m.pendReads = DOMAIN s.pendReads \cup {i}
      /\ m.pendReads[i] = NewId(s)
      /\ \A j \in DOMAIN s.pendReads \ {i} : m.pendReads[j] = s.pendReads[j]
  <2>1. PICK f \in Maps(Nat) : f = s.pendReads
    BY <1>1 DEF Stores
  <2>2. i \in Blocks /\ NewId(s) \in Nat
    BY <1>2
  <2> DEFINE g == With(f, i, NewId(s))
  <2>3. g \in Maps(Nat)
    BY <2>2, WithIsMap
  <2>4. /\ DOMAIN g = DOMAIN f \cup {i} /\ g[i] = NewId(s)
        /\ \A j \in DOMAIN f \ {i} : g[j] = f[j]
    BY DEF With
  <2>. QED
    BY <1>4, <2>1, <2>3, <2>4
<1>7. /\ m.order \in Seq(Blocks) /\ ToSet(m.order) = ToSet(s.order) \cup {i} /\ IsInjective(m.order)
      /\ Len(m.order) \in Nat \ {0} /\ m.order[Len(m.order)] = i
  <2>1. PICK o \in Seq(Blocks) : o = s.order
    BY <1>1 DEF Stores
  <2>2. IsInjective(o) /\ i \notin ToSet(o)
    BY <1>1, <2>1 DEF Ordered
  <2>3. PICK n \in Nat : n = Len(o)
    OBVIOUS
  <2>4. /\ Append(o, i) \in Seq(Blocks) /\ ToSet(Append(o, i)) = ToSet(o) \cup {i}
        /\ Len(Append(o, i)) = n + 1 /\ Append(o, i)[n + 1] = i /\ IsInjective(Append(o, i))
    BY <1>2, <2>2, <2>3, AppendFacts
  <2>5. n + 1 \in Nat \ {0}
    OBVIOUS
  <2>. QED
    BY <1>4, <2>1, <2>4, <2>5
<1>8. m \in Stores
  <2>1. Append(s.taskq, k) \in Seq(Tasks)
    BY <1>1, <1>3, AppendFacts DEF Stores
  <2> HIDE DEF k
  <2>. QED
    BY <1>1, <1>4, <1>5, <1>6, <1>7, <2>1 DEF Stores
<1>9. Ordered(m)
  <2>1. m.pendWrites = s.pendWrites
    BY <1>4
  <2>2. i \notin DOMAIN s.pendWrites
    BY <1>1 DEF Ordered
  <2>. QED
    BY <1>1, <2>1, <2>2, <1>5, <1>6, <1>7 DEF Ordered
<1> HIDE DEF k
<1>10. /\ Outstanding(m) = Outstanding(s) \cup {k} /\ Done(m) = Done(s) /\ DieIds(m) = DieIds(s)
       /\ OneIdEach(m)
  <2>1. k \in Tasks /\ m.taskq = Append(s.taskq, k) /\ m.resq = s.resq
    BY <1>3, <1>4
  <2>2. k.id = NewId(s)
    BY <1>3
  <2>. QED
    BY <1>1, <2>1, <2>2, OneMoreTask
<1>11. Writers(m, l)
  <2>1. \A j \in DOMAIN s.pendWrites : j \in DOMAIN s.buffer \ {i}
    BY <1>1 DEF Ordered
  <2>. QED
    BY <1>3, <1>4, <1>5, <1>10, <2>1 DEF SInv, Writers, Current
<1>12. Readers(m, l)
  <2>1. ASSUME NEW h \in Outstanding(s), Current(m.pendReads, h) PROVE Current(s.pendReads, h)
    <3>1. h.id # NewId(s)
      BY <1>1, NewIdIsNew
    <3>. QED
      BY <1>6, <2>1, <3>1 DEF Current
  <2>2. Done(s) \subseteq Outstanding(s) /\ \A t \in Dead : copier[t].task \in Outstanding(s)
    BY DEF Done, Outstanding, InHand, Working, Taken, Dead
  <2>. QED
    BY <1>10, <2>1, <2>2 DEF SInv, Readers
<1>13. Kept(m, l, X)
  BY <1>4, <1>5, <1>6 DEF SInv, Kept
<1>14. Counted(m) /\ (NoDie(s) => NoDie(m))
  BY <1>3, <1>4, <1>10 DEF SInv, Counted, Rest, NoDie
<1>. QED
  BY <1>4, <1>7, <1>8, <1>9, <1>10, <1>11, <1>12, <1>13, <1>14 DEF SInv

\* A copier is told to stop.
LEMMA DieKeeps ==
  ASSUME NEW s, NEW l, NEW X, SInv(s, l, X), NEW n, NEW m, m = Die(s, n)
  PROVE  /\ SInv(m, l, X) /\ Rest(s, m)
         /\ m.buffer = s.buffer /\ m.pendReads = s.pendReads /\ m.pendWrites = s.pendWrites
<1>1. s \in Stores /\ Ordered(s) /\ OneIdEach(s)
  BY DEF SInv
<1>2. NewId(s) \in Nat /\ Nothing \in Contents
  BY <1>1, NewIdIsNew DEF Contents
<1> DEFINE k == Task("DIE", s, -1, Nothing)
<1>3. k \in Tasks /\ k.cmd = "DIE" /\ k.id = NewId(s)
  BY <1>2 DEF Task, Tasks
<1>4. /\ m = [s EXCEPT !.taskq = Append(s.taskq, k)]
      /\ m.taskq = Append(s.taskq, k) /\ m.buffer = s.buffer /\ m.order = s.order
      /\ m.pendReads = s.pendReads /\ m.pendWrites = s.pendWrites /\ m.resq = s.resq /\ Rest(s, m)
  BY <1>1 DEF Stores, Die, Rest
<1> HIDE DEF k
<1>5. m \in Stores
  <2>1. Append(s.taskq, k) \in Seq(Tasks)
    BY <1>1, <1>3, AppendFacts DEF Stores
  <2>. QED
    BY <1>1, <1>4, <2>1 DEF Stores
<1>6. /\ Outstanding(m) = Outstanding(s) \cup {k} /\ Done(m) = Done(s) /\ DieIds(m) = DieIds(s)
      /\ OneIdEach(m)
  BY <1>1, <1>3, <1>4, OneMoreTask
<1>7. Ordered(m) /\ Writers(m, l) /\ Readers(m, l) /\ Kept(m, l, X) /\ Counted(m)
  BY <1>1, <1>3, <1>4, <1>6, ZenonT(60) DEF SInv, Ordered, Writers, Readers, Kept, Counted, Rest
<1>. QED
  BY <1>4, <1>5, <1>6, <1>7 DEF SInv

\* The task at the head of the answers leaves.
LEMMA OneTaskFewer ==
  ASSUME NEW s \in Stores, OneIdEach(s), s.resq # << >>, NEW m,
         m.taskq = s.taskq, m.resq = Tail(s.resq), NEW r, r = Head(s.resq)
  PROVE  /\ r \in Tasks /\ r \in Done(s) /\ r \in Outstanding(s)
         /\ Outstanding(m) = Outstanding(s) \ {r} /\ Done(m) = Done(s) \ {r}
         /\ DieIds(m) = (IF r.cmd = "DIE" THEN DieIds(s) \ {r.id} ELSE DieIds(s))
         /\ r.cmd = "DIE" => r.id \in DieIds(s)
         /\ OneIdEach(m)
<1>1. PICK q \in Seq(Tasks) : q = s.resq
  BY DEF Stores
<1>2. /\ q # << >> /\ Tail(q) \in Seq(Tasks) /\ r \in ToSet(q) /\ ToSet(q) = ToSet(Tail(q)) \cup {r}
      /\ ToSet(q) \subseteq Tasks
      /\ \A a \in DOMAIN Tail(q) : a + 1 \in DOMAIN q /\ Tail(q)[a] = q[a + 1]
  BY <1>1, TailFacts
<1>3. \A a, b \in DOMAIN q : q[a].id = q[b].id => a = b
  BY <1>1 DEF OneIdEach
<1>4. DOMAIN q \subseteq Nat /\ DOMAIN Tail(q) \subseteq Nat \ {0} /\ 1 \in DOMAIN q /\ q[1] = r
  <2>1. PICK n \in Nat \ {0} : n = Len(q)
    BY <1>2, EmptySeq
  <2>2. DOMAIN q = 1 .. n
    BY <2>1
  <2>3. DOMAIN Tail(q) = 1 .. Len(Tail(q)) /\ Len(Tail(q)) \in Nat
    BY <1>2, LenProperties
  <2>4. r = q[1]
    BY <1>1
  <2>. QED
    BY <2>2, <2>3, <2>4
<1>5. \A k \in ToSet(Tail(q)) : k.id # r.id
  BY <1>2, <1>3, <1>4 DEF ToSet
<1>6. \A a, b \in DOMAIN Tail(q) : Tail(q)[a].id = Tail(q)[b].id => a = b
  <2> SUFFICES ASSUME NEW a \in DOMAIN Tail(q), NEW b \in DOMAIN Tail(q),
                      Tail(q)[a].id = Tail(q)[b].id
               PROVE a = b
    OBVIOUS
  <2>1. a + 1 = b + 1
    BY <1>2, <1>3
  <2>. QED
    BY <1>4, <2>1
<1>7. Answered(m) = Answered(s) \ {r} /\ Queued(m) = Queued(s) /\ r \in Answered(s)
  BY <1>1, <1>2, <1>5 DEF Answered, Queued
<1>8. r \notin Queued(s) /\ r \notin InHand /\ \A k \in Answered(m) : k.id # r.id
  BY <1>1, <1>5, <1>7 DEF OneIdEach, Answered
<1>9. {copier[t].task : t \in Working("worked")} \subseteq InHand
  BY DEF InHand, Working, Taken
<1>10. OneIdEach(m)
  BY <1>1, <1>6, <1>7 DEF OneIdEach
<1>11. Outstanding(m) = Outstanding(s) \ {r} /\ Done(m) = Done(s) \ {r}
  BY <1>7, <1>8, <1>9 DEF Outstanding, Done
<1>12. /\ DieIds(m) = (IF r.cmd = "DIE" THEN DieIds(s) \ {r.id} ELSE DieIds(s))
       /\ r.cmd = "DIE" => r.id \in DieIds(s)
  BY <1>7, <1>8 DEF DieIds
<1>. QED
  BY <1>1, <1>2, <1>7, <1>10, <1>11, <1>12 DEF Done, Outstanding

\* m is s after its oldest answer has been taken from the queue.
Answering(s, m) ==
    /\ m.len = s.len /\ m.taskq = s.taskq /\ Len(m.resq) = Len(s.resq) - 1
    /\ NoDie(s) => NoDie(m) /\ m.nthreads = s.nthreads
    /\ DOMAIN s.buffer \ DOMAIN s.pendWrites \subseteq DOMAIN m.buffer
    /\ AllPending(s) => AllPending(m)

\* The caller takes the oldest answer: that of a read which still counts,
LEMMA ReadAnswered ==
  ASSUME NEW s, NEW l, NEW X, SInv(s, l, X), s.resq # << >>, NEW m, m = ProcessFirst(s),
         NEW r, r = Head(s.resq), r.cmd = "GET", Current(s.pendReads, r)
  PROVE  SInv(m, l, X) /\ Answering(s, m)
<1>1. s \in Stores /\ Ordered(s) /\ OneIdEach(s)
  BY DEF SInv
<1> DEFINE i == r.ind
<1>2. /\ m = [s EXCEPT !.buffer = [s.buffer EXCEPT ![i] = r.data],
                       !.pendReads = Without(s.pendReads, {i}), !.resq = Tail(s.resq)]
      /\ m.buffer = [s.buffer EXCEPT ![i] = r.data] /\ m.order = s.order
      /\ m.pendReads = Without(s.pendReads, {i})
      /\ m.taskq = s.taskq /\ m.resq = Tail(s.resq) /\ m.pendWrites = s.pendWrites /\ Rest(s, m)
  <2>1. Process(s, r) = [s EXCEPT !.buffer[i] = r.data, !.pendReads = Without(@, {i})]
    BY DEF Process, WriteOps
  <2>. QED
    BY <1>1, <2>1 DEF Stores, ProcessFirst, Rest
<1>3. /\ r \in Tasks /\ r \in Done(s) /\ Outstanding(m) = Outstanding(s) \ {r}
      /\ Done(m) = Done(s) \ {r} /\ DieIds(m) = DieIds(s) /\ OneIdEach(m)
  <2>1. m.taskq = s.taskq /\ m.resq = Tail(s.resq)
    BY <1>2
  <2>. QED
    BY <1>1, <2>1, OneTaskFewer
<1>4. i \in DOMAIN s.pendReads /\ i \in DOMAIN s.buffer /\ i \in DOMAIN l \ X /\ r.data = l[i]
  BY <1>1, <1>3 DEF Current, Ordered, SInv, Kept, Readers
<1>5. r.data \in Contents /\ i \in Blocks
  BY <1>3, <1>4, <1>1, MapFacts DEF Tasks, Stores
<1> HIDE DEF i
<1>6. /\ m.buffer \in Maps(Contents) /\ DOMAIN m.buffer = DOMAIN s.buffer /\ m.buffer[i] = r.data
      /\ \A j \in DOMAIN s.buffer \ {i} : m.buffer[j] = s.buffer[j]
  <2>1. PICK f \in Maps(Contents) : f = s.buffer
    BY <1>1 DEF Stores
  <2>2. PICK j \in DOMAIN f : j = i
    BY <1>4, <2>1
  <2>3. PICK v \in Contents : v = r.data
    BY <1>5
  <2> DEFINE g == [f EXCEPT ![j] = v]
  <2>4. /\ g \in Maps(Contents) /\ DOMAIN g = DOMAIN f /\ g[j] = v
        /\ \A h \in DOMAIN f \ {j} : g[h] = f[h]
    BY ExceptFacts
  <2>5. m.buffer = g
    BY <1>2, <2>1, <2>2, <2>3
  <2> HIDE DEF g
  <2>. QED
    BY <2>1, <2>2, <2>3, <2>4, <2>5
<1>7. /\ m.pendReads \in Maps(Nat) /\ DOMAIN m.pendReads = DOMAIN s.pendReads \ {i}
      /\ \A j \in DOMAIN s.pendReads \ {i} : m.pendReads[j] = s.pendReads[j]
  <2>1. PICK f \in Maps(Nat) : f = s.pendReads
    BY <1>1 DEF Stores
  <2>2. /\ Without(f, {i}) \in Maps(Nat) /\ DOMAIN Without(f, {i}) = DOMAIN f \ {i}
        /\ \A j \in DOMAIN f \ {i} : Without(f, {i})[j] = f[j]
    BY WithoutOne
  <2>. QED
    BY <1>2, <2>1, <2>2
<1>8. Tail(s.resq) \in Seq(Tasks) /\ Len(Tail(s.resq)) = Len(s.resq) - 1
  BY <1>1, TailFacts DEF Stores
<1>9. m \in Stores
  BY <1>1, <1>2, <1>6, <1>7, <1>8 DEF Stores
<1>10. Ordered(m)
  <2>1. m.order = s.order /\ m.pendWrites = s.pendWrites
    BY <1>2
  <2>. QED
    BY <1>1, <2>1, <1>6, <1>7 DEF Ordered
<1>11. m.pendWrites = s.pendWrites /\ Rest(s, m) /\ i \notin DOMAIN s.pendWrites
  BY <1>1, <1>2, <1>4 DEF Ordered
<1>12. Writers(m, l)
  <2>1. \A k \in Outstanding(m) : k.cmd \in {"PUT", "DEL"} => Current(m.pendWrites, k)
    BY <1>3, <1>11 DEF SInv, Writers
  <2>2. \A k \in Outstanding(m) : k.cmd = "PUT" => k.ind \in DOMAIN l /\ m.buffer[k.ind] = k.data
    <3> SUFFICES ASSUME NEW k \in Outstanding(m), k.cmd = "PUT"
                 PROVE  k.ind \in DOMAIN l /\ m.buffer[k.ind] = k.data
      OBVIOUS
    <3>1. k \in Outstanding(s) /\ Current(s.pendWrites, k) /\ k.ind # i
      BY <1>3, <1>11 DEF SInv, Writers, Current
    <3>2. k.ind \in DOMAIN s.buffer \ {i}
      BY <1>1, <3>1 DEF Current, Ordered
    <3>. QED
      BY <1>6, <3>1, <3>2 DEF SInv, Writers
  <2>3. \A k \in Outstanding(m) : k.cmd = "DEL" => k.ind \notin DOMAIN l
    BY <1>3 DEF SInv, Writers
  <2>4. /\ \A k \in Done(m) : k.cmd = "PUT" => k.ind \in DOMAIN file /\ file[k.ind] = k.data
        /\ \A k \in Done(m) : k.cmd = "DEL" => k.ind \notin DOMAIN file
    BY <1>3 DEF SInv, Writers
  <2>. QED
    BY <2>1, <2>2, <2>3, <2>4 DEF Writers
<1>13. Readers(m, l)
  <2>1. \A k : Current(m.pendReads, k) => Current(s.pendReads, k)
    BY <1>7 DEF Current
  <2>. QED
    BY <1>3, <2>1 DEF SInv, Readers
<1>14. Kept(m, l, X)
  <2>1. DOMAIN m.pendReads \subseteq DOMAIN l \ X
    BY <1>7 DEF SInv, Kept
  <2>2. DOMAIN m.buffer \cup DOMAIN file \subseteq DOMAIN l \cup DOMAIN m.pendWrites
    BY <1>6, <1>11 DEF SInv, Kept
  <2>3. ASSUME NEW j \in DOMAIN l \ X
        PROVE  IF j \in DOMAIN m.buffer \ DOMAIN m.pendReads THEN m.buffer[j] = l[j]
               ELSE j \in DOMAIN file /\ file[j] = l[j]
    <3>1. CASE j = i
      BY <3>1, <1>4, <1>6, <1>7
    <3>2. CASE j # i
      BY <3>2, <1>6, <1>7 DEF SInv, Kept
    <3>. QED
      BY <3>1, <3>2
  <2>. QED
    BY <2>1, <2>2, <2>3 DEF Kept
<1>15. Counted(m) /\ (NoDie(s) => NoDie(m) /\ m.nthreads = s.nthreads)
  BY <1>3, <1>11 DEF SInv, Counted, Rest, NoDie
<1>16. /\ m.len = s.len /\ m.taskq = s.taskq /\ Len(m.resq) = Len(s.resq) - 1
       /\ DOMAIN s.buffer \ DOMAIN s.pendWrites \subseteq DOMAIN m.buffer
       /\ AllPending(s) => AllPending(m)
  BY <1>2, <1>4, <1>6, <1>8 DEF Rest, AllPending
<1>17. Answering(s, m)
  BY <1>15, <1>16 DEF Answering
<1>. QED
  BY <1>3, <1>9, <1>10, <1>12, <1>13, <1>14, <1>15, <1>17 DEF SInv

\* that of a write or a delete, none of which is ever out of date,
LEMMA WriteAnswered ==
  ASSUME NEW s, NEW l, NEW X, SInv(s, l, X), s.resq # << >>, NEW m, m = ProcessFirst(s),
         NEW r, r = Head(s.resq), r.cmd \in {"PUT", "DEL"}
  PROVE  SInv(m, l, X) /\ Answering(s, m)
<1>1. s \in Stores /\ Ordered(s) /\ OneIdEach(s)
  BY DEF SInv
<1>2. r \in Tasks /\ r \in Done(s) /\ r \in Outstanding(s)
  <2> DEFINE n == [s EXCEPT !.resq = Tail(@)]
  <2>1. n.taskq = s.taskq /\ n.resq = Tail(s.resq)
    BY <1>1 DEF Stores
  <2>. QED
    BY <1>1, <2>1, OneTaskFewer
<1>3. Current(s.pendWrites, r)
  BY <1>2 DEF SInv, Writers
<1> DEFINE i == r.ind
<1>4. /\ m = [s EXCEPT !.buffer = Without(s.buffer, {i}), !.order = Removed(s.order, i),
                       !.pendWrites = Without(s.pendWrites, {i}), !.resq = Tail(s.resq)]
      /\ m.buffer = Without(s.buffer, {i}) /\ m.order = Removed(s.order, i)
      /\ m.pendWrites = Without(s.pendWrites, {i})
      /\ m.taskq = s.taskq /\ m.resq = Tail(s.resq) /\ m.pendReads = s.pendReads /\ Rest(s, m)
  <2>1. Process(s, r) = [Forget(s, i) EXCEPT !.pendWrites = Without(@, {i})]
    BY <1>3 DEF Process, WriteOps
  <2>. QED
    BY <1>1, <2>1 DEF Stores, ProcessFirst, Forget, Rest
<1>5. /\ Outstanding(m) = Outstanding(s) \ {r}
      /\ Done(m) = Done(s) \ {r} /\ DieIds(m) = DieIds(s) /\ OneIdEach(m)
  <2>1. m.taskq = s.taskq /\ m.resq = Tail(s.resq)
    BY <1>4
  <2>. QED
    BY <1>1, <2>1, OneTaskFewer
<1>6. i \in DOMAIN s.pendWrites /\ i \in DOMAIN s.buffer /\ i \notin DOMAIN s.pendReads
  BY <1>1, <1>3 DEF Current, Ordered
<1> HIDE DEF i
<1>7. /\ m.buffer \in Maps(Contents) /\ DOMAIN m.buffer = DOMAIN s.buffer \ {i}
      /\ \A j \in DOMAIN s.buffer \ {i} : m.buffer[j] = s.buffer[j]
  <2>1. PICK f \in Maps(Contents) : f = s.buffer
    BY <1>1 DEF Stores
  <2>2. /\ Without(f, {i}) \in Maps(Contents) /\ DOMAIN Without(f, {i}) = DOMAIN f \ {i}
        /\ \A j \in DOMAIN f \ {i} : Without(f, {i})[j] = f[j]
    BY WithoutOne
  <2>. QED
    BY <1>4, <2>1, <2>2
<1>8. /\ m.pendWrites \in Maps(Nat) /\ DOMAIN m.pendWrites = DOMAIN s.pendWrites \ {i}
      /\ \A j \in DOMAIN s.pendWrites \ {i} : m.pendWrites[j] = s.pendWrites[j]
  <2>1. PICK f \in Maps(Nat) : f = s.pendWrites
    BY <1>1 DEF Stores
  <2>2. /\ Without(f, {i}) \in Maps(Nat) /\ DOMAIN Without(f, {i}) = DOMAIN f \ {i}
        /\ \A j \in DOMAIN f \ {i} : Without(f, {i})[j] = f[j]
    BY WithoutOne
  <2>. QED
    BY <1>4, <2>1, <2>2
<1>9. m.order \in Seq(Blocks) /\ ToSet(m.order) = ToSet(s.order) \ {i} /\ IsInjective(m.order)
  <2>1. PICK o \in Seq(Blocks) : o = s.order
    BY <1>1 DEF Stores
  <2>2. IsInjective(o)
    BY <1>1, <2>1 DEF Ordered
  <2>. QED
    BY <1>4, <2>1, <2>2, RemovedFacts
<1>10. Tail(s.resq) \in Seq(Tasks) /\ Len(Tail(s.resq)) = Len(s.resq) - 1
  BY <1>1, TailFacts DEF Stores
<1>11. m \in Stores
  BY <1>1, <1>4, <1>7, <1>8, <1>9, <1>10 DEF Stores
<1>12. m.pendReads = s.pendReads /\ Rest(s, m) /\ m.taskq = s.taskq /\ m.resq = Tail(s.resq)
  BY <1>4
<1>13. Ordered(m)
  BY <1>1, <1>6, <1>7, <1>8, <1>9, <1>12 DEF Ordered
<1>14. \A k \in Outstanding(m) : k.cmd \in {"PUT", "DEL"} => Current(s.pendWrites, k) /\ k.ind # i
  <2> SUFFICES ASSUME NEW k \in Outstanding(m), k.cmd \in {"PUT", "DEL"}
               PROVE  Current(s.pendWrites, k) /\ k.ind # i
    OBVIOUS
  <2>1. k \in Outstanding(s) /\ k # r
    BY <1>5
  <2>2. Current(s.pendWrites, k)
    BY <2>1 DEF SInv, Writers
  <2>3. k.id # r.id
    BY <1>1, <1>2, <2>1, OneTaskPerId
  <2>. QED
    BY <1>3, <2>2, <2>3 DEF Current, i
<1>15. Writers(m, l)
  <2>1. \A k \in Outstanding(m) : k.cmd \in {"PUT", "DEL"} => Current(m.pendWrites, k)
    BY <1>8, <1>14 DEF Current
  <2>2. \A k \in Outstanding(m) : k.cmd = "PUT" => k.ind \in DOMAIN l /\ m.buffer[k.ind] = k.data
    <3> SUFFICES ASSUME NEW k \in Outstanding(m), k.cmd = "PUT"
                 PROVE  k.ind \in DOMAIN l /\ m.buffer[k.ind] = k.data
      OBVIOUS
    <3>1. k \in Outstanding(s) /\ Current(s.pendWrites, k) /\ k.ind # i
      BY <1>5, <1>14
    <3>2. k.ind \in DOMAIN s.buffer \ {i}
      BY <1>1, <3>1 DEF Current, Ordered
    <3>. QED
      BY <1>7, <3>1, <3>2 DEF SInv, Writers
  <2>3. \A k \in Outstanding(m) : k.cmd = "DEL" => k.ind \notin DOMAIN l
    BY <1>5 DEF SInv, Writers
  <2>4. /\ \A k \in Done(m) : k.cmd = "PUT" => k.ind \in DOMAIN file /\ file[k.ind] = k.data
        /\ \A k \in Done(m) : k.cmd = "DEL" => k.ind \notin DOMAIN file
    BY <1>5 DEF SInv, Writers
  <2>. QED
    BY <2>1, <2>2, <2>3, <2>4 DEF Writers
<1>16. Readers(m, l)
  BY <1>5, <1>12 DEF SInv, Readers
<1>17. Kept(m, l, X)
  <2>1. DOMAIN m.pendReads \subseteq DOMAIN l \ X
    BY <1>12 DEF SInv, Kept
  <2>2. CASE r.cmd = "PUT"
    <3>1. i \in DOMAIN l /\ i \in DOMAIN file /\ file[i] = s.buffer[i]
      BY <1>2, <2>2 DEF SInv, Writers, i
    <3>2. DOMAIN m.buffer \cup DOMAIN file \subseteq DOMAIN l \cup DOMAIN m.pendWrites
      BY <1>7, <1>8, <3>1 DEF SInv, Kept
    <3>3. ASSUME NEW j \in DOMAIN l \ X
          PROVE  IF j \in DOMAIN m.buffer \ DOMAIN m.pendReads THEN m.buffer[j] = l[j]
                 ELSE j \in DOMAIN file /\ file[j] = l[j]
      <4>1. CASE j = i
        BY <3>1, <4>1, <1>6, <1>7 DEF SInv, Kept
      <4>2. CASE j # i
        BY <4>2, <1>7, <1>12 DEF SInv, Kept
      <4>. QED
        BY <4>1, <4>2
    <3>. QED
      BY <2>1, <3>2, <3>3 DEF Kept
  <2>3. CASE r.cmd = "DEL"
    <3>1. i \notin DOMAIN l /\ i \notin DOMAIN file
      BY <1>2, <2>3 DEF SInv, Writers, i
    <3>2. DOMAIN m.buffer \cup DOMAIN file \subseteq DOMAIN l \cup DOMAIN m.pendWrites
      BY <1>7, <1>8, <3>1 DEF SInv, Kept
    <3>3. ASSUME NEW j \in DOMAIN l \ X
          PROVE  IF j \in DOMAIN m.buffer \ DOMAIN m.pendReads THEN m.buffer[j] = l[j]
                 ELSE j \in DOMAIN file /\ file[j] = l[j]
      BY <3>1, <1>7, <1>12 DEF SInv, Kept
    <3>. QED
      BY <2>1, <3>2, <3>3 DEF Kept
  <2>. QED
    BY <2>2, <2>3
<1>18. Counted(m) /\ (NoDie(s) => NoDie(m) /\ m.nthreads = s.nthreads)
  BY <1>5, <1>12 DEF SInv, Counted, Rest, NoDie
<1>19. /\ m.len = s.len /\ m.taskq = s.taskq /\ Len(m.resq) = Len(s.resq) - 1
       /\ DOMAIN s.buffer \ DOMAIN s.pendWrites \subseteq DOMAIN m.buffer
       /\ AllPending(s) => AllPending(m)
  BY <1>6, <1>7, <1>8, <1>10, <1>12 DEF Rest, AllPending
<1>20. Answering(s, m)
  BY <1>18, <1>19 DEF Answering
<1>. QED
  BY <1>5, <1>11, <1>13, <1>15, <1>16, <1>17, <1>18, <1>20 DEF SInv

\* The stopped threads whose answers are open are finitely many.
LEMMA DieIdsFinite ==
  ASSUME NEW s \in Stores
  PROVE  IsFiniteSet(DieIds(s)) /\ Cardinality(DieIds(s)) \in Nat
<1> DEFINE f == [n \in DOMAIN s.resq |-> s.resq[n].id]
           R == {f[n] : n \in DOMAIN s.resq}
<1>1. DOMAIN s.resq = 1 .. Len(s.resq) /\ Len(s.resq) \in Nat
  BY LenProperties DEF Stores
<1>2. IsFiniteSet(DOMAIN s.resq)
  BY <1>1, FS_Interval
<1>3. DieIds(s) \subseteq R
  BY DEF DieIds, Answered, ToSet
<1> HIDE DEF f
<1>4. IsFiniteSet(R)
  BY <1>2, ImageFinite
<1>. QED
  BY <1>3, <1>4, FS_Subset, FS_CardinalityType

\* the last word of a copier, and that of a read which no longer counts.
LEMMA OtherAnswered ==
  ASSUME NEW s, NEW l, NEW X, SInv(s, l, X), s.resq # << >>, NEW m, m = ProcessFirst(s),
         NEW r, r = Head(s.resq),
         r.cmd = "DIE" \/ (r.cmd = "GET" /\ ~Current(s.pendReads, r))
  PROVE  SInv(m, l, X) /\ Answering(s, m)
<1>1. s \in Stores /\ Ordered(s) /\ OneIdEach(s)
  BY DEF SInv
<1>2. /\ m = [s EXCEPT !.resq = Tail(s.resq), !.nthreads = m.nthreads]
      /\ m.buffer = s.buffer /\ m.order = s.order /\ m.pendReads = s.pendReads
      /\ m.pendWrites = s.pendWrites /\ m.taskq = s.taskq /\ m.resq = Tail(s.resq) /\ m.len = s.len
      /\ m.nthreads = (IF r.cmd = "DIE" THEN s.nthreads - 1 ELSE s.nthreads)
  <2>1. CASE r.cmd = "DIE"
    <3>1. Process(s, r) = [s EXCEPT !.nthreads = @ - 1]
      BY <2>1 DEF Process, WriteOps
    <3>. QED
      BY <1>1, <2>1, <3>1 DEF Stores, ProcessFirst
  <2>2. CASE r.cmd # "DIE"
    <3>1. Process(s, r) = s
      BY <2>2 DEF Process, WriteOps
    <3>. QED
      BY <1>1, <2>2, <3>1 DEF Stores, ProcessFirst
  <2>. QED
    BY <2>1, <2>2
<1>3. /\ Outstanding(m) = Outstanding(s) \ {r} /\ r \in Outstanding(s) /\ Done(m) = Done(s) \ {r}
      /\ DieIds(m) = (IF r.cmd = "DIE" THEN DieIds(s) \ {r.id} ELSE DieIds(s))
      /\ r.cmd = "DIE" => r.id \in DieIds(s)
      /\ OneIdEach(m)
  <2>1. m.taskq = s.taskq /\ m.resq = Tail(s.resq)
    BY <1>2
  <2>. QED
    BY <1>1, <2>1, OneTaskFewer
<1>4. Tail(s.resq) \in Seq(Tasks) /\ Len(Tail(s.resq)) = Len(s.resq) - 1
  BY <1>1, TailFacts DEF Stores
<1>5. m.nthreads \in Int
  BY <1>1, <1>2 DEF Stores
<1>6. m \in Stores
  BY <1>1, <1>2, <1>4, <1>5 DEF Stores
<1>7. Ordered(m)
  BY <1>1, <1>2 DEF Ordered
<1>8. Writers(m, l) /\ Readers(m, l) /\ Kept(m, l, X)
  <2>1. m.buffer = s.buffer /\ m.pendReads = s.pendReads /\ m.pendWrites = s.pendWrites
    BY <1>2
  <2>. QED
    BY <1>3, <2>1 DEF SInv, Writers, Readers, Kept
<1>9. Counted(m)
  <2>1. CASE r.cmd = "DIE"
    <3>1. IsFiniteSet(DieIds(s)) /\ Cardinality(DieIds(s)) \in Nat
      BY <1>1, DieIdsFinite
    <3>2. Cardinality(DieIds(m)) = Cardinality(DieIds(s)) - 1
      BY <1>3, <2>1, <3>1, FS_RemoveElement, ZenonT(60)
    <3>3. m.nthreads = s.nthreads - 1 /\ s.nthreads \in Int
      BY <1>1, <1>2, <2>1 DEF Stores
    <3>4. PICK n \in Nat : n = Cardinality(Copiers)
      BY SshAssumption, FS_CardinalityType
    <3>5. /\ s.nthreads <= Cardinality(Copiers)
          /\ Cardinality(Working("off")) = Cardinality(Copiers) - s.nthreads + Cardinality(DieIds(s))
      BY DEF SInv, Counted
    <3>6. PICK a \in Int, d \in Nat : a = s.nthreads /\ d = Cardinality(DieIds(s))
      BY <3>1, <3>3
    <3>7. a <= n /\ Cardinality(Working("off")) = n - a + d
      BY <3>4, <3>5, <3>6
    <3>8. m.nthreads = a - 1 /\ Cardinality(DieIds(m)) = d - 1
      BY <3>2, <3>3, <3>6
    <3>9. a - 1 <= n /\ n - a + d = n - (a - 1) + (d - 1)
      BY <3>7
    <3>. QED
      BY <3>4, <3>7, <3>8, <3>9 DEF Counted
  <2>2. CASE r.cmd # "DIE"
    BY <1>2, <1>3, <2>2 DEF SInv, Counted
  <2>. QED
    BY <2>1, <2>2
<1>10. Answering(s, m)
  <2>1. NoDie(s) => NoDie(m) /\ m.nthreads = s.nthreads
    BY <1>2, <1>3 DEF NoDie
  <2>2. DOMAIN s.buffer \ DOMAIN s.pendWrites \subseteq DOMAIN m.buffer
    BY <1>2
  <2>. QED
    BY <1>2, <1>4, <2>1, <2>2 DEF Answering, AllPending
<1>. QED
  BY <1>3, <1>6, <1>7, <1>8, <1>9, <1>10 DEF SInv

\* Whatever the oldest answer is, the caller may process it.
LEMMA AnswerKeeps ==
  ASSUME NEW s, NEW l, NEW X, SInv(s, l, X), s.resq # << >>, NEW m, m = ProcessFirst(s)
  PROVE  SInv(m, l, X) /\ Answering(s, m)
<1> DEFINE r == Head(s.resq)
<1>1. r.cmd \in {"GET", "PUT", "DEL", "DIE"}
  <2>1. r \in Tasks
    BY TailFacts DEF SInv, Stores
  <2>. QED
    BY <2>1 DEF Tasks
<1> HIDE DEF r
<1>. QED
  BY <1>1, ReadAnswered, WriteAnswered, OtherAnswered DEF r

\* set() ends: nothing of the block is pending.
Buffered(s, i, v) == [s EXCEPT !.buffer = With(@, i, v), !.order = MovedToEnd(@, i)]

\* The invariant holds again, with no exception.
LEMMA SetKeeps ==
  ASSUME NEW s, NEW l, NEW i \in Blocks, SInv(s, l, {i}), i \notin DOMAIN s.pendWrites,
         NEW v \in Values, NEW m, m = Buffered(s, i, v)
  PROVE  SInv(m, With(l, i, v), {}) /\ Rest(s, m) /\ (NoDie(s) => NoDie(m))
<1>1. s \in Stores /\ Ordered(s)
  BY DEF SInv
<1> DEFINE k == With(l, i, v)
<1>2. /\ m = [s EXCEPT !.buffer = With(s.buffer, i, v), !.order = MovedToEnd(s.order, i)]
      /\ m.buffer = With(s.buffer, i, v) /\ m.order = MovedToEnd(s.order, i)
      /\ m.taskq = s.taskq /\ m.resq = s.resq /\ m.pendReads = s.pendReads
      /\ m.pendWrites = s.pendWrites /\ Rest(s, m)
  BY <1>1 DEF Stores, Rest, Buffered
<1>3. /\ m.buffer \in Maps(Contents) /\ DOMAIN m.buffer = DOMAIN s.buffer \cup {i} /\ m.buffer[i] = v
      /\ \A j \in DOMAIN s.buffer \ {i} : m.buffer[j] = s.buffer[j]
  <2>1. PICK f \in Maps(Contents) : f = s.buffer
    BY <1>1 DEF Stores
  <2>2. v \in Contents
    BY DEF Contents
  <2> DEFINE g == With(f, i, v)
  <2>3. g \in Maps(Contents)
    BY <2>2, WithIsMap
  <2>4. /\ DOMAIN g = DOMAIN f \cup {i} /\ g[i] = v
        /\ \A j \in DOMAIN f \ {i} : g[j] = f[j]
    BY DEF With
  <2>. QED
    BY <1>2, <2>1, <2>3, <2>4
<1>4. /\ k \in Maps(Values) /\ DOMAIN k = DOMAIN l \cup {i} /\ k[i] = v
      /\ \A j \in DOMAIN l \ {i} : k[j] = l[j]
  <2>1. l \in Maps(Values)
    BY DEF SInv
  <2>2. k \in Maps(Values)
    BY <2>1, WithIsMap
  <2>3. /\ DOMAIN k = DOMAIN l \cup {i} /\ k[i] = v
        /\ \A j \in DOMAIN l \ {i} : k[j] = l[j]
    BY DEF With
  <2>. QED
    BY <2>2, <2>3
<1>5. m.order \in Seq(Blocks) /\ ToSet(m.order) = ToSet(s.order) \cup {i} /\ IsInjective(m.order)
  <2>1. PICK o \in Seq(Blocks) : o = s.order
    BY <1>1 DEF Stores
  <2>2. IsInjective(o)
    BY <1>1, <2>1 DEF Ordered
  <2>3. /\ MovedToEnd(o, i) \in Seq(Blocks) /\ ToSet(MovedToEnd(o, i)) = ToSet(o) \cup {i}
        /\ IsInjective(MovedToEnd(o, i))
    BY <2>2, MovedFacts
  <2>. QED
    BY <1>2, <2>1, <2>3
<1> HIDE DEF k
<1>6. m \in Stores
  BY <1>1, <1>2, <1>3, <1>5 DEF Stores
<1>7. /\ Outstanding(m) = Outstanding(s) /\ Done(m) = Done(s) /\ DieIds(m) = DieIds(s)
      /\ OneIdEach(m)
  BY <1>2, SameTasks DEF SInv
<1>8. m.pendReads = s.pendReads /\ m.pendWrites = s.pendWrites /\ i \notin DOMAIN s.pendReads
  BY <1>2 DEF SInv, Kept
<1>9. Ordered(m)
  BY <1>1, <1>3, <1>5, <1>8 DEF Ordered
<1>10. \A j \in DOMAIN s.pendWrites : j \in DOMAIN s.buffer \ {i}
  BY <1>1 DEF Ordered
<1>11. Writers(m, k)
  <2>1. ASSUME NEW h \in Outstanding(m), h.cmd \in {"PUT", "DEL"}
        PROVE  /\ Current(m.pendWrites, h) /\ h.ind \in DOMAIN s.buffer \ {i}
               /\ m.buffer[h.ind] = s.buffer[h.ind] /\ h.ind # i
    <3>1. Current(s.pendWrites, h)
      BY <1>7, <2>1 DEF SInv, Writers
    <3>2. h.ind \in DOMAIN s.buffer \ {i}
      BY <1>10, <3>1 DEF Current
    <3>. QED
      BY <1>3, <1>8, <3>1, <3>2
  <2>2. \A h \in Outstanding(m) : h.cmd = "PUT" => h.ind \in DOMAIN k /\ m.buffer[h.ind] = h.data
    BY <1>4, <1>7, <2>1 DEF SInv, Writers
  <2>3. \A h \in Outstanding(m) : h.cmd = "DEL" => h.ind \notin DOMAIN k
    BY <1>4, <1>7, <2>1 DEF SInv, Writers
  <2>4. /\ \A h \in Done(m) : h.cmd = "PUT" => h.ind \in DOMAIN file /\ file[h.ind] = h.data
        /\ \A h \in Done(m) : h.cmd = "DEL" => h.ind \notin DOMAIN file
    BY <1>7 DEF SInv, Writers
  <2>. QED
    BY <2>1, <2>2, <2>3, <2>4 DEF Writers
<1>12. Readers(m, k)
  <2>1. \A h : Current(s.pendReads, h) => h.ind \in DOMAIN l \ {i}
    BY DEF SInv, Kept, Current
  <2>. QED
    BY <1>4, <1>7, <1>8, <2>1 DEF SInv, Readers
<1>13. Kept(m, k, {})
  <2>1. DOMAIN m.pendReads \subseteq DOMAIN k
    BY <1>4, <1>8 DEF SInv, Kept
  <2>2. DOMAIN m.buffer \cup DOMAIN file \subseteq DOMAIN k \cup DOMAIN m.pendWrites
    BY <1>3, <1>4, <1>8 DEF SInv, Kept
  <2>3. ASSUME NEW j \in DOMAIN k
        PROVE  IF j \in DOMAIN m.buffer \ DOMAIN m.pendReads THEN m.buffer[j] = k[j]
               ELSE j \in DOMAIN file /\ file[j] = k[j]
    <3>1. CASE j = i
      BY <3>1, <1>3, <1>4, <1>8
    <3>2. CASE j # i
      BY <3>2, <1>3, <1>4, <1>8 DEF SInv, Kept
    <3>. QED
      BY <3>1, <3>2
  <2>. QED
    BY <2>1, <2>2, <2>3 DEF Kept
<1>14. Counted(m) /\ (NoDie(s) => NoDie(m))
  BY <1>2, <1>7 DEF SInv, Counted, Rest, NoDie
<1>. QED
  BY <1>2, <1>4, <1>6, <1>7, <1>9, <1>11, <1>12, <1>13, <1>14 DEF SInv, k

\* delete() ends: the file is put down to be removed, and until then an empty
\* entry stands for the block.
Deleted(s, i) ==
    [s EXCEPT !.taskq      = Append(@, Task("DEL", s, i, Nothing)),
              !.buffer     = With(@, i, Nothing),
              !.order      = IF i \in DOMAIN s.buffer THEN @ ELSE Append(@, i),
              !.pendWrites = With(@, i, NewId(s)),
              !.len        = @ - 1]

\* The invariant holds again, with no exception.
LEMMA DeleteKeeps ==
  ASSUME NEW s, NEW l, NEW i \in Blocks, SInv(s, l, {i}), i \notin DOMAIN s.pendWrites,
         s.len = i + 1, NEW m, m = Deleted(s, i)
  PROVE  /\ SInv(m, Without(l, {i}), {}) /\ m.len = i /\ m.nthreads = s.nthreads
         /\ NoDie(s) => NoDie(m)
<1>1. s \in Stores /\ Ordered(s) /\ OneIdEach(s)
  BY DEF SInv
<1>2. NewId(s) \in Nat /\ Nothing \in Contents
  BY <1>1, NewIdIsNew DEF Contents
<1> DEFINE k == Task("DEL", s, i, Nothing)
           d == Without(l, {i})
           o == IF i \in DOMAIN s.buffer THEN s.order ELSE Append(s.order, i)
<1>3. k \in Tasks /\ k.cmd = "DEL" /\ k.id = NewId(s) /\ k.ind = i
  BY <1>2 DEF Task, Tasks
<1>4. /\ m = [s EXCEPT !.taskq = Append(s.taskq, k), !.buffer = With(s.buffer, i, Nothing),
                       !.order = o, !.pendWrites = With(s.pendWrites, i, NewId(s)), !.len = i]
      /\ m.taskq = Append(s.taskq, k) /\ m.buffer = With(s.buffer, i, Nothing) /\ m.order = o
      /\ m.pendWrites = With(s.pendWrites, i, NewId(s)) /\ m.len = i
      /\ m.resq = s.resq /\ m.pendReads = s.pendReads /\ m.nthreads = s.nthreads
  <2>1. s.len - 1 = i
    BY DEF Blocks
  <2>. QED
    BY <1>1, <2>1 DEF Stores, Deleted
<1>5. /\ m.buffer \in Maps(Contents) /\ DOMAIN m.buffer = DOMAIN s.buffer \cup {i}
      /\ \A j \in DOMAIN s.buffer \ {i} : m.buffer[j] = s.buffer[j]
  <2>1. PICK f \in Maps(Contents) : f = s.buffer
    BY <1>1 DEF Stores
  <2>2. With(f, i, Nothing) \in Maps(Contents)
    BY <1>2, WithIsMap
  <2>3. /\ DOMAIN With(f, i, Nothing) = DOMAIN f \cup {i}
        /\ \A j \in DOMAIN f \ {i} : With(f, i, Nothing)[j] = f[j]
    BY DEF With
  <2>. QED
    BY <1>4, <2>1, <2>2, <2>3
<1>6. /\ m.pendWrites \in Maps(Nat) /\ DOMAIN m.pendWrites = DOMAIN s.pendWrites \cup {i}
      /\ m.pendWrites[i] = NewId(s)
      /\ \A j \in DOMAIN s.pendWrites \ {i} : m.pendWrites[j] = s.pendWrites[j]
  <2>1. PICK f \in Maps(Nat) : f = s.pendWrites
    BY <1>1 DEF Stores
  <2> DEFINE g == With(f, i, NewId(s))
  <2>2. g \in Maps(Nat)
    BY <1>2, WithIsMap
  <2>3. /\ DOMAIN g = DOMAIN f \cup {i} /\ g[i] = NewId(s)
        /\ \A j \in DOMAIN f \ {i} : g[j] = f[j]
    BY DEF With
  <2>. QED
    BY <1>4, <2>1, <2>2, <2>3
<1>7. /\ d \in Maps(Values) /\ DOMAIN d = DOMAIN l \ {i}
      /\ \A j \in DOMAIN l \ {i} : d[j] = l[j]
  <2>1. l \in Maps(Values)
    BY DEF SInv
  <2> HIDE DEF k, o
  <2>. QED
    BY <2>1, WithoutOne
<1>8. o \in Seq(Blocks) /\ ToSet(o) = ToSet(s.order) \cup {i} /\ IsInjective(o)
  <2>1. PICK p \in Seq(Blocks) : p = s.order
    BY <1>1 DEF Stores
  <2>2. IsInjective(p) /\ ToSet(p) = DOMAIN s.buffer
    BY <1>1, <2>1 DEF Ordered
  <2>3. CASE i \in DOMAIN s.buffer
    BY <2>1, <2>2, <2>3
  <2>4. CASE i \notin DOMAIN s.buffer
    <3>1. o = Append(p, i) /\ i \notin ToSet(p)
      BY <2>1, <2>2, <2>4
    <3> HIDE DEF o
    <3>2. Append(p, i) \in Seq(Blocks) /\ ToSet(Append(p, i)) = ToSet(p) \cup {i} /\ IsInjective(Append(p, i))
      BY <2>2, <3>1, AppendFacts
    <3>. QED
      BY <2>1, <3>1, <3>2
  <2>. QED
    BY <2>3, <2>4
<1> HIDE DEF d, o
<1>9. m \in Stores
  <2>1. Append(s.taskq, k) \in Seq(Tasks)
    BY <1>1, <1>3, AppendFacts DEF Stores
  <2>2. i \in 0 .. MaxLen
    BY SshAssumption DEF Blocks
  <2> HIDE DEF k
  <2>. QED
    BY <1>1, <1>4, <1>5, <1>6, <1>8, <2>1, <2>2 DEF Stores
<1> HIDE DEF k
<1>10. m.pendReads = s.pendReads /\ m.order = o /\ i \notin DOMAIN s.pendReads
  BY <1>4 DEF SInv, Kept
<1>11. Ordered(m)
  BY <1>1, <1>5, <1>6, <1>8, <1>10 DEF Ordered
<1>12. /\ Outstanding(m) = Outstanding(s) \cup {k} /\ Done(m) = Done(s) /\ DieIds(m) = DieIds(s)
       /\ OneIdEach(m)
  <2>1. k \in Tasks /\ m.taskq = Append(s.taskq, k) /\ m.resq = s.resq
    BY <1>3, <1>4
  <2>2. k.id = NewId(s)
    BY <1>3
  <2>. QED
    BY <1>1, <2>1, <2>2, OneMoreTask
<1>13. \A j \in DOMAIN s.pendWrites : j \in DOMAIN s.buffer \ {i}
  BY <1>1 DEF Ordered
<1>14. Writers(m, d)
  <2>1. ASSUME NEW h \in Outstanding(s), h.cmd \in {"PUT", "DEL"}
        PROVE  /\ Current(m.pendWrites, h) /\ h.ind \in DOMAIN s.buffer \ {i}
               /\ m.buffer[h.ind] = s.buffer[h.ind] /\ h.ind # i
    <3>1. Current(s.pendWrites, h)
      BY <2>1 DEF SInv, Writers
    <3>2. h.ind \in DOMAIN s.buffer \ {i}
      BY <1>13, <3>1 DEF Current
    <3>3. Current(m.pendWrites, h)
      BY <1>6, <3>1, <3>2 DEF Current
    <3>. QED
      BY <1>5, <3>2, <3>3
  <2>2. Current(m.pendWrites, k)
    BY <1>3, <1>6 DEF Current
  <2>3. \A h \in Outstanding(m) : h.cmd \in {"PUT", "DEL"} => Current(m.pendWrites, h)
    BY <1>12, <2>1, <2>2
  <2>4. \A h \in Outstanding(m) : h.cmd = "PUT" => h.ind \in DOMAIN d /\ m.buffer[h.ind] = h.data
    BY <1>3, <1>7, <1>12, <2>1 DEF SInv, Writers
  <2>5. \A h \in Outstanding(m) : h.cmd = "DEL" => h.ind \notin DOMAIN d
    BY <1>3, <1>7, <1>12 DEF SInv, Writers
  <2>6. /\ \A h \in Done(m) : h.cmd = "PUT" => h.ind \in DOMAIN file /\ file[h.ind] = h.data
        /\ \A h \in Done(m) : h.cmd = "DEL" => h.ind \notin DOMAIN file
    BY <1>12 DEF SInv, Writers
  <2>. QED
    BY <2>3, <2>4, <2>5, <2>6 DEF Writers
<1>15. Readers(m, d)
  <2>1. \A h : Current(s.pendReads, h) => h.ind \in DOMAIN l \ {i}
    BY DEF SInv, Kept, Current
  <2>. QED
    BY <1>7, <1>10, <1>12, <2>1 DEF SInv, Readers
<1>16. Kept(m, d, {})
  <2>1. DOMAIN m.pendReads \subseteq DOMAIN d
    BY <1>7, <1>10 DEF SInv, Kept
  <2>2. DOMAIN m.buffer \cup DOMAIN file \subseteq DOMAIN d \cup DOMAIN m.pendWrites
    BY <1>5, <1>6, <1>7 DEF SInv, Kept
  <2>3. ASSUME NEW j \in DOMAIN d
        PROVE  IF j \in DOMAIN m.buffer \ DOMAIN m.pendReads THEN m.buffer[j] = d[j]
               ELSE j \in DOMAIN file /\ file[j] = d[j]
    BY <1>5, <1>7, <1>10 DEF SInv, Kept
  <2>. QED
    BY <2>1, <2>2, <2>3 DEF Kept
<1>17. Counted(m) /\ (NoDie(s) => NoDie(m))
  BY <1>3, <1>4, <1>12 DEF SInv, Counted, NoDie
<1>. QED
  BY <1>4, <1>7, <1>9, <1>11, <1>12, <1>14, <1>15, <1>16, <1>17 DEF SInv, d

-----------------------------------------------------------------------------
\* The loops of the store's methods.

\* All answers there are.
LEMMA SyncKeeps ==
  ASSUME NEW s, NEW l, NEW X, SInv(s, l, X), NEW m, m = Sync(s)
  PROVE  /\ SInv(m, l, X) /\ m.len = s.len /\ m.resq = << >>
         /\ NoDie(s) => NoDie(m) /\ m.nthreads = s.nthreads
         /\ AllPending(s) => AllPending(m)
<1>1. s.resq \in Seq(Tasks)
  BY DEF SInv, Stores
<1>2. PICK L \in Nat : L = Len(s.resq) /\ DOMAIN s.resq = 1 .. L
  BY <1>1
<1> DEFINE P(n, x) ==
             /\ SInv(x, l, X) /\ Len(x.resq) = L - n /\ x.len = s.len
             /\ NoDie(s) => NoDie(x) /\ x.nthreads = s.nthreads
             /\ AllPending(s) => AllPending(x)
           Ok == [n \in 0 .. L |-> {x \in Stores : P(n, x)}]
<1>3. s \in Ok[0]
  BY <1>2 DEF SInv
<1>4. ASSUME NEW n \in 1 .. L, NEW x \in Ok[n - 1] PROVE Answer(x, s.resq[n]) \in Ok[n]
  <2>1. n - 1 \in 0 .. L /\ n \in 0 .. L
    OBVIOUS
  <2>2. P(n - 1, x)
    BY <2>1, <1>4
  <2>3. SInv(x, l, X) /\ Len(x.resq) = L - (n - 1)
    BY <2>2
  <2>4. x.resq # << >>
    BY <2>3
  <2> DEFINE y == ProcessFirst(x)
  <2>5. SInv(y, l, X) /\ Answering(x, y)
    BY <2>3, <2>4, AnswerKeeps
  <2> HIDE DEF y
  <2>6. Len(y.resq) = L - n
    BY <2>3, <2>5 DEF Answering
  <2>7. P(n, y)
    BY <2>2, <2>5, <2>6 DEF Answering
  <2>8. y \in Stores
    BY <2>5 DEF SInv
  <2>9. y \in Ok[n]
    BY <2>1, <2>7, <2>8
  <2>. QED
    BY <2>9 DEF Answer, y
<1> HIDE DEF Ok
<1>5. Answers!Fold(s, s.resq) \in Ok[L]
  BY <1>2, <1>3, <1>4, Answers!FoldStays
<1>6. m = Answers!Fold(s, s.resq)
  BY DEF Sync, Answer, Answers!Fold, FoldLeft, Answers!MapThenFoldSet, MapThenFoldSet, Max, Answers!Latest
<1>7. P(L, m)
  BY <1>5, <1>6, <1>2 DEF Ok
<1>8. m.resq = << >>
  <2>1. m.resq \in Seq(Tasks) /\ Len(m.resq) = 0
    BY <1>7 DEF SInv, Stores
  <2>. QED
    BY <2>1, EmptySeq
<1>. QED
  BY <1>7, <1>8

\* A prefetch of blocks of the list: the last of them ends up last in the order.
LEMMA PrefetchOneKeeps ==
  ASSUME NEW s, NEW l, NEW X, SInv(s, l, X), NEW i \in DOMAIN l \ X,
         NEW m, m = PrefetchOne(s, i)
  PROVE  /\ SInv(m, l, X) /\ Rest(s, m) /\ (NoDie(s) => NoDie(m))
         /\ Len(m.order) \in Nat \ {0} /\ m.order[Len(m.order)] = i
<1>1. CASE i \in DOMAIN s.buffer
  <2>1. m = [s EXCEPT !.order = MovedToEnd(@, i)]
    BY <1>1 DEF PrefetchOne
  <2>2. SInv(m, l, X) /\ Len(m.order) \in Nat \ {0} /\ m.order[Len(m.order)] = i
    BY <1>1, <2>1, MoveKeeps, ZenonT(60)
  <2>3. m.taskq = s.taskq /\ m.resq = s.resq /\ Rest(s, m)
    BY <2>1 DEF SInv, Stores, Rest
  <2>4. Outstanding(m) = Outstanding(s)
    BY <2>3, SameTasks
  <2>. QED
    BY <2>2, <2>3, <2>4 DEF NoDie
<1>2. CASE i \notin DOMAIN s.buffer
  BY <1>2, GetQueuedKeeps
<1>. QED
  BY <1>1, <1>2

\* All turns of prefetch.
LEMMA FetchesKeep ==
  ASSUME NEW s, NEW l, NEW X, SInv(s, l, X), NEW L \in Nat, NEW q, DOMAIN q = 1 .. L,
         \A n \in 1 .. L : q[n] \in DOMAIN l \ X,
         NEW m, m = FoldLeft(PrefetchOne, s, q)
  PROVE  /\ SInv(m, l, X) /\ Rest(s, m) /\ (NoDie(s) => NoDie(m))
         /\ L > 0 => Len(m.order) \in Nat \ {0} /\ m.order[Len(m.order)] = q[L]
<1> DEFINE P(n, x) ==
             /\ SInv(x, l, X) /\ Rest(s, x) /\ (NoDie(s) => NoDie(x))
             /\ n > 0 => Len(x.order) \in Nat \ {0} /\ x.order[Len(x.order)] = q[n]
           Ok == [n \in 0 .. L |-> {x \in Stores : P(n, x)}]
<1>1. s \in Ok[0]
  BY DEF SInv, Rest
<1>2. ASSUME NEW n \in 1 .. L, NEW x \in Ok[n - 1] PROVE PrefetchOne(x, q[n]) \in Ok[n]
  <2>1. n - 1 \in 0 .. L /\ n \in 0 .. L
    OBVIOUS
  <2>2. P(n - 1, x)
    BY <2>1, <1>2
  <2> DEFINE y == PrefetchOne(x, q[n])
  <2>3. /\ SInv(y, l, X) /\ Rest(x, y) /\ (NoDie(x) => NoDie(y))
        /\ Len(y.order) \in Nat \ {0} /\ y.order[Len(y.order)] = q[n]
    <3>1. SInv(x, l, X) /\ q[n] \in DOMAIN l \ X
      BY <2>2
    <3>. QED
      BY <3>1, PrefetchOneKeeps
  <2> HIDE DEF y
  <2>4. P(n, y)
    BY <2>2, <2>3 DEF Rest
  <2>5. y \in Stores
    BY <2>3 DEF SInv
  <2>6. y \in Ok[n]
    BY <2>1, <2>4, <2>5
  <2>. QED
    BY <2>6 DEF y
<1> HIDE DEF Ok
<1>3. Fetches!Fold(s, q) \in Ok[L]
  BY <1>1, <1>2, Fetches!FoldStays
<1>4. m = Fetches!Fold(s, q)
  BY DEF Fetches!Fold, FoldLeft, Fetches!MapThenFoldSet, MapThenFoldSet, Max, Fetches!Latest
<1>5. P(L, m)
  BY <1>3, <1>4 DEF Ok
<1>. QED
  BY <1>5

\* _handle_overflow: what remains fits or is being written, and the entry that was
\* used last remains.
LEMMA PopKeeps ==
  ASSUME NEW s, NEW l, NEW X, SInv(s, l, X), NEW i \in DOMAIN s.buffer,
         NEW m, m = PopOldest(s, i)
  PROVE  /\ SInv(m, l, X) /\ Rest(s, m) /\ (NoDie(s) => NoDie(m))
         /\ DOMAIN m.buffer \subseteq DOMAIN s.buffer /\ DOMAIN s.buffer \ {i} \subseteq DOMAIN m.buffer
         /\ DOMAIN s.pendWrites \subseteq DOMAIN m.pendWrites
         /\ Used(s) <= BufSize => m = s
         /\ i \in DOMAIN m.buffer /\ ~(Used(s) <= BufSize) => i \in DOMAIN m.pendWrites
<1>1. CASE Used(s) <= BufSize
  BY <1>1 DEF PopOldest, Rest
<1>2. CASE ~(Used(s) <= BufSize) /\ i \in DOMAIN s.pendReads /\ i \notin DOMAIN s.pendWrites
  <2>1. m = DropRead(s, i)
    BY <1>2 DEF PopOldest
  <2>. QED
    BY <1>2, <2>1, DropReadKeeps
<1> DEFINE back == [s EXCEPT !.order = MovedToEnd(@, i)]
<1>3. /\ SInv(back, l, X) /\ Rest(s, back) /\ back.buffer = s.buffer
      /\ back.pendReads = s.pendReads /\ back.pendWrites = s.pendWrites
      /\ NoDie(s) => NoDie(back)
  <2>1. SInv(back, l, X)
    BY MoveKeeps
  <2>2. /\ Rest(s, back) /\ back.buffer = s.buffer /\ back.taskq = s.taskq /\ back.resq = s.resq
        /\ back.pendReads = s.pendReads /\ back.pendWrites = s.pendWrites
    BY DEF SInv, Stores, Rest
  <2>3. Outstanding(back) = Outstanding(s)
    BY <2>2, SameTasks
  <2>. QED
    BY <2>1, <2>2, <2>3 DEF NoDie
<1> HIDE DEF back
<1>4. CASE ~(Used(s) <= BufSize) /\ i \in DOMAIN s.pendWrites
  <2>1. m = back
    BY <1>4 DEF PopOldest, back
  <2>. QED
    BY <1>3, <1>4, <2>1
<1>5. CASE ~(Used(s) <= BufSize) /\ i \notin DOMAIN s.pendReads /\ i \notin DOMAIN s.pendWrites
  <2>1. m = Writeback(back, i)
    BY <1>5 DEF PopOldest, back
  <2>2. /\ i \in DOMAIN back.buffer /\ i \notin DOMAIN back.pendReads
        /\ i \notin DOMAIN back.pendWrites
    BY <1>3, <1>5
  <2>3. /\ SInv(m, l, X) /\ Rest(back, m) /\ m.buffer = back.buffer
        /\ DOMAIN m.pendWrites = DOMAIN back.pendWrites \cup {i}
        /\ NoDie(back) => NoDie(m)
    BY <1>3, <2>1, <2>2, WritebackKeeps
  <2>. QED
    BY <1>3, <1>5, <2>3 DEF Rest
<1>. QED
  BY <1>1, <1>2, <1>4, <1>5

\* There are finitely many blocks.
LEMMA BlocksFinite ==
  ASSUME NEW D \in SUBSET Blocks
  PROVE  IsFiniteSet(D) /\ Cardinality(D) \in Nat
<1>1. IsFiniteSet(Blocks)
  BY SshAssumption, FS_Interval DEF Blocks
<1>. QED
  BY <1>1, FS_Subset, FS_CardinalityType

\* Once all entries but one are being written, they fit.
LEMMA OneUnwritten ==
  ASSUME NEW s \in Stores, NEW i, DOMAIN s.buffer \subseteq DOMAIN s.pendWrites \cup {i}
  PROVE  Used(s) <= BufSize
<1>1. DOMAIN s.buffer \in SUBSET Blocks /\ DOMAIN s.pendWrites \in SUBSET Blocks
  BY MapFacts DEF Stores
<1>2. IsFiniteSet(DOMAIN s.pendWrites) /\ Cardinality(DOMAIN s.pendWrites) \in Nat
  BY <1>1, BlocksFinite
<1> DEFINE u == DOMAIN s.pendWrites \cup {i}
<1>3. IsFiniteSet(u) /\ Cardinality(u) <= Cardinality(DOMAIN s.pendWrites) + 1
  <2> DEFINE D == DOMAIN s.pendWrites
  <2>1. PICK b \in Nat : b = Cardinality(D)
    BY <1>2
  <2>2. IsFiniteSet(D)
    BY <1>2
  <2> HIDE DEF D
  <2>3. /\ IsFiniteSet(D \cup {i})
        /\ Cardinality(D \cup {i}) = IF i \in D THEN Cardinality(D) ELSE Cardinality(D) + 1
    BY <2>2, FS_AddElement
  <2>4. Cardinality(D \cup {i}) <= Cardinality(D) + 1
    BY <2>1, <2>3
  <2>. QED
    BY <2>3, <2>4 DEF D
<1>4. Cardinality(DOMAIN s.buffer) <= Cardinality(u)
  BY <1>3, FS_Subset
<1>5. Cardinality(DOMAIN s.buffer) \in Nat /\ Cardinality(u) \in Nat
  BY <1>1, <1>3, BlocksFinite, FS_CardinalityType
<1> HIDE DEF u
<1>6. PICK a \in Nat, b \in Nat, c \in Nat :
        a = Cardinality(DOMAIN s.buffer) /\ b = Cardinality(DOMAIN s.pendWrites) /\ c = Cardinality(u)
  BY <1>2, <1>5
<1>7. a <= c /\ c <= b + 1
  BY <1>3, <1>4, <1>6
<1>8. a - b <= 1 /\ BufSize \in Nat \ {0}
  BY <1>7, SshAssumption
<1>. QED
  BY <1>6, <1>8 DEF Used

\* All turns of _handle_overflow; the block used last stays in the buffer.
LEMMA OverflowKeeps ==
  ASSUME NEW s, NEW l, NEW X, SInv(s, l, X), NEW m, m = HandleOverflow(s)
  PROVE  /\ SInv(m, l, X) /\ Rest(s, m) /\ (NoDie(s) => NoDie(m))
         /\ Len(s.order) > 0 => s.order[Len(s.order)] \in DOMAIN m.buffer
<1>1. s.order \in Seq(Blocks) /\ Ordered(s)
  BY DEF SInv, Stores
<1>2. PICK L \in Nat : L = Len(s.order) /\ DOMAIN s.order = 1 .. L
  BY <1>1
<1>3. PICK q : q = s.order
  OBVIOUS
<1>4. DOMAIN s.buffer = {q[n] : n \in 1 .. L} /\ \A a, b \in 1 .. L : q[a] = q[b] => a = b
  BY <1>1, <1>2, <1>3 DEF Ordered, ToSet, IsInjective
<1> DEFINE Left(n) == {q[a] : a \in n + 1 .. L}
           P(n, x) ==
             /\ SInv(x, l, X) /\ Rest(s, x) /\ (NoDie(s) => NoDie(x))
             /\ Left(n) \subseteq DOMAIN x.buffer /\ (L > 0 => q[L] \in DOMAIN x.buffer)
             /\ Used(x) <= BufSize \/ DOMAIN x.buffer \subseteq DOMAIN x.pendWrites \cup Left(n)
           Ok == [n \in 0 .. L |-> {x \in Stores : P(n, x)}]
<1>5. s \in Ok[0]
  <2>1. Left(0) = DOMAIN s.buffer
    BY <1>4
  <2>2. L > 0 => L \in 1 .. L
    OBVIOUS
  <2>3. L > 0 => q[L] \in DOMAIN s.buffer
    BY <1>4, <2>2
  <2> HIDE DEF Left
  <2>4. P(0, s)
    BY <2>1, <2>3 DEF Rest
  <2>5. s \in Stores /\ 0 \in 0 .. L
    BY DEF SInv
  <2> HIDE DEF P
  <2>. QED
    BY <2>4, <2>5
<1>6. ASSUME NEW n \in 1 .. L, NEW x \in Ok[n - 1] PROVE PopOldest(x, q[n]) \in Ok[n]
  <2>1. n - 1 \in 0 .. L /\ n \in 0 .. L
    OBVIOUS
  <2>2. P(n - 1, x) /\ x \in Stores
    BY <2>1, <1>6
  <2>3. PICK i : i = q[n]
    OBVIOUS
  <2>4. Left(n - 1) = Left(n) \cup {i}
    <3>1. (n - 1) + 1 .. L = (n + 1 .. L) \cup {n}
      OBVIOUS
    <3>. QED
      BY <2>3, <3>1
  <2>5. i \notin Left(n)
    <3>1. ASSUME NEW a \in n + 1 .. L PROVE q[a] # q[n]
      <4>1. a \in 1 .. L /\ a # n
        OBVIOUS
      <4>. QED
        BY <1>4, <4>1
    <3>. QED
      BY <2>3, <3>1
  <2>6. n # L => q[L] \in Left(n)
    OBVIOUS
  <2>7. n = L => Left(n) = {}
    OBVIOUS
  <2> DEFINE y == PopOldest(x, i)
  <2> HIDE DEF Left
  <2>8. i \in DOMAIN x.buffer
    BY <2>2, <2>4
  <2>9. /\ SInv(y, l, X) /\ Rest(x, y) /\ (NoDie(x) => NoDie(y))
        /\ DOMAIN y.buffer \subseteq DOMAIN x.buffer
        /\ DOMAIN x.buffer \ {i} \subseteq DOMAIN y.buffer
        /\ DOMAIN x.pendWrites \subseteq DOMAIN y.pendWrites
        /\ Used(x) <= BufSize => y = x
        /\ i \in DOMAIN y.buffer /\ ~(Used(x) <= BufSize) => i \in DOMAIN y.pendWrites
    <3>1. SInv(x, l, X)
      BY <2>2
    <3>. QED
      BY <2>8, <3>1, PopKeeps
  <2> HIDE DEF y
  <2>10. Left(n) \subseteq DOMAIN y.buffer
    BY <2>2, <2>4, <2>5, <2>9
  <2>11. L > 0 => q[L] \in DOMAIN y.buffer
    <3>1. CASE n # L
      BY <2>6, <2>10, <3>1
    <3>2. CASE n = L
      <4>1. DOMAIN x.buffer \subseteq DOMAIN x.pendWrites \cup {i} => Used(x) <= BufSize
        BY <2>2, OneUnwritten
      <4>2. Used(x) <= BufSize
        BY <2>2, <2>4, <2>7, <3>2, <4>1
      <4>. QED
        BY <2>3, <2>8, <2>9, <3>2, <4>2
    <3>. QED
      BY <3>1, <3>2
  <2>12. Used(y) <= BufSize \/ DOMAIN y.buffer \subseteq DOMAIN y.pendWrites \cup Left(n)
    <3>1. CASE Used(x) <= BufSize
      BY <2>9, <3>1
    <3>2. CASE ~(Used(x) <= BufSize)
      BY <2>2, <2>4, <2>9, <3>2
    <3>. QED
      BY <3>1, <3>2
  <2>13. SInv(y, l, X) /\ Rest(s, y) /\ (NoDie(s) => NoDie(y))
    BY <2>2, <2>9 DEF Rest
  <2>14. y \in Stores /\ P(n, y)
    BY <2>10, <2>11, <2>12, <2>13 DEF SInv
  <2> HIDE DEF P
  <2>15. y \in Ok[n]
    BY <2>1, <2>14
  <2>. QED
    BY <2>3, <2>15 DEF y
<1>7. s.order = q
  BY <1>3
<1> HIDE DEF Ok
<1>8. Pops!Fold(s, q) \in Ok[L]
  BY <1>2, <1>3, <1>5, <1>6, Pops!FoldStays
<1>9. m = Pops!Fold(s, q)
  BY <1>3 DEF HandleOverflow, Pops!Fold, FoldLeft, Pops!MapThenFoldSet, MapThenFoldSet, Max, Pops!Latest
<1>10. P(L, m)
  BY <1>8, <1>9 DEF Ok
<1>. QED
  BY <1>2, <1>3, <1>10

\* prefetch(), from its _sync to its _handle_overflow.
LEMMA PrefetchedKeeps ==
  ASSUME NEW s, NEW l, SInv(s, l, {}), NoDie(s), NEW L \in Nat \ {0}, NEW q, DOMAIN q = 1 .. L,
         \A n \in 1 .. L : q[n] \in DOMAIN l,
         NEW m, m = Prefetched(s, q)
  PROVE  SInv(m, l, {}) /\ Rest(s, m) /\ NoDie(m) /\ q[L] \in DOMAIN m.buffer
<1> DEFINE a == Sync(s)
           b == FoldLeft(PrefetchOne, a, q)
<1>1. SInv(a, l, {}) /\ Rest(s, a) /\ NoDie(a)
  BY SyncKeeps DEF Rest
<1> HIDE DEF a
<1>2. SInv(b, l, {}) /\ Rest(a, b) /\ NoDie(b) /\ Len(b.order) \in Nat \ {0} /\ b.order[Len(b.order)] = q[L]
  BY <1>1, FetchesKeep
<1> HIDE DEF b
<1>3. m = HandleOverflow(b)
  BY DEF Prefetched, a, b
<1>4. /\ SInv(m, l, {}) /\ Rest(b, m) /\ NoDie(m)
      /\ Len(b.order) > 0 => b.order[Len(b.order)] \in DOMAIN m.buffer
  BY <1>2, <1>3, OverflowKeeps
<1>. QED
  BY <1>1, <1>2, <1>4 DEF Rest

\* flush(): no read is left, and every entry is being written.
LEMMA SetToSeqLists ==
  ASSUME NEW S, IsFiniteSet(S)
  PROVE  /\ Cardinality(S) \in Nat /\ DOMAIN SetToSeq(S) = 1 .. Cardinality(S)
         /\ {SetToSeq(S)[n] : n \in 1 .. Cardinality(S)} = S /\ IsInjective(SetToSeq(S))
<1> DEFINE q == SetToSeq(S)
           D == 1 .. Cardinality(S)
<1>1. Cardinality(S) \in Nat /\ ExistsBijection(D, S)
  BY FS_CardinalityType
<1>2. \E f \in [D -> S] : IsInjective(f)
  BY <1>1 DEF ExistsBijection, Bijection, Injection
<1>3. q \in [D -> S] /\ IsInjective(q)
  BY <1>2 DEF SetToSeq
<1> HIDE DEF q
<1>4. q \in Injection(D, S)
  BY <1>3 DEF Injection
<1>5. Cardinality(D) = Cardinality(S) /\ IsFiniteSet(D)
  BY <1>1, FS_Interval
<1>6. q \in Surjection(D, S)
  BY <1>4, <1>5, FS_Injection
<1>. QED
  BY <1>1, <1>3, <1>6 DEF Surjection, q

\* All turns of the first loop of flush.
LEMMA DropsKeep ==
  ASSUME NEW s, NEW l, NEW X, SInv(s, l, X), NEW m, m = ReadsDropped(s)
  PROVE  /\ SInv(m, l, X) /\ Rest(s, m) /\ (NoDie(s) => NoDie(m)) /\ DOMAIN m.pendReads = {}
<1> DEFINE S == DOMAIN s.pendReads
<1>1. IsFiniteSet(S)
  BY MapFacts, BlocksFinite DEF SInv, Stores
<1>2. PICK L \in Nat : L = Cardinality(S)
  BY <1>1, SetToSeqLists
<1> DEFINE q == SetToSeq(S)
<1>3. DOMAIN q = 1 .. L /\ {q[n] : n \in 1 .. L} = S /\ \A a, b \in 1 .. L : q[a] = q[b] => a = b
  BY <1>1, <1>2, SetToSeqLists DEF IsInjective
<1>3a. ReadsDropped(s) = FoldLeft(DropRead, s, q)
  BY DEF ReadsDropped
<1> HIDE DEF q
<1> DEFINE Left(n) == {q[a] : a \in n + 1 .. L}
           P(n, x) ==
             SInv(x, l, X) /\ Rest(s, x) /\ (NoDie(s) => NoDie(x)) /\ DOMAIN x.pendReads = Left(n)
           Ok == [n \in 0 .. L |-> {x \in Stores : P(n, x)}]
<1>4. s \in Ok[0]
  BY <1>3 DEF SInv, Rest
<1>5. ASSUME NEW n \in 1 .. L, NEW x \in Ok[n - 1] PROVE DropRead(x, q[n]) \in Ok[n]
  <2>1. n - 1 \in 0 .. L /\ n \in 0 .. L
    OBVIOUS
  <2>2. P(n - 1, x) /\ x \in Stores
    BY <2>1, <1>5
  <2>3. PICK i : i = q[n]
    OBVIOUS
  <2>4. Left(n - 1) = Left(n) \cup {i}
    <3>1. (n - 1) + 1 .. L = (n + 1 .. L) \cup {n}
      OBVIOUS
    <3>. QED
      BY <2>3, <3>1
  <2>5. i \notin Left(n)
    <3>1. ASSUME NEW a \in n + 1 .. L PROVE q[a] # q[n]
      <4>1. a \in 1 .. L /\ a # n
        OBVIOUS
      <4>. QED
        BY <1>3, <4>1
    <3>. QED
      BY <2>3, <3>1
  <2> DEFINE y == DropRead(x, i)
  <2> HIDE DEF Left
  <2>6. i \in DOMAIN x.pendReads
    BY <2>2, <2>4
  <2>7. /\ SInv(y, l, X) /\ Rest(x, y) /\ (NoDie(x) => NoDie(y))
        /\ DOMAIN y.pendReads = DOMAIN x.pendReads \ {i}
    <3>1. SInv(x, l, X)
      BY <2>2
    <3>. QED
      BY <2>6, <3>1, DropReadKeeps
  <2> HIDE DEF y
  <2>8. y \in Stores /\ P(n, y)
    BY <2>2, <2>4, <2>5, <2>7 DEF SInv, Rest
  <2> HIDE DEF P
  <2>9. y \in Ok[n]
    BY <2>1, <2>8
  <2>. QED
    BY <2>3, <2>9 DEF y
<1> HIDE DEF Ok
<1>6. Drops!Fold(s, q) \in Ok[L]
  BY <1>3, <1>4, <1>5, Drops!FoldStays
<1>7. m = Drops!Fold(s, q)
  BY <1>3a DEF Drops!Fold, FoldLeft, Drops!MapThenFoldSet, MapThenFoldSet, Max, Drops!Latest
<1>8. P(L, m)
  BY <1>6, <1>7 DEF Ok
<1>9. Left(L) = {}
  OBVIOUS
<1>. QED
  BY <1>8, <1>9

\* All turns of the second loop of flush.
LEMMA WritesKeep ==
  ASSUME NEW s, NEW l, NEW X, SInv(s, l, X), DOMAIN s.pendReads = {},
         NEW m, m = FoldLeft(WriteUnwritten, s, s.order)
  PROVE  SInv(m, l, X) /\ Rest(s, m) /\ (NoDie(s) => NoDie(m)) /\ AllPending(m)
<1>1. s.order \in Seq(Blocks) /\ Ordered(s)
  BY DEF SInv, Stores
<1>2. PICK L \in Nat : L = Len(s.order) /\ DOMAIN s.order = 1 .. L
  BY <1>1
<1>3. PICK q : q = s.order
  OBVIOUS
<1>4. DOMAIN s.buffer = {q[n] : n \in 1 .. L}
  BY <1>1, <1>2, <1>3 DEF Ordered, ToSet
<1> DEFINE P(n, x) ==
             /\ SInv(x, l, X) /\ Rest(s, x) /\ (NoDie(s) => NoDie(x))
             /\ x.buffer = s.buffer /\ DOMAIN x.pendReads = {}
             /\ \A a \in 1 .. n : q[a] \in DOMAIN x.pendWrites
           Ok == [n \in 0 .. L |-> {x \in Stores : P(n, x)}]
<1>5. s \in Ok[0]
  BY DEF SInv, Rest
<1>6. ASSUME NEW n \in 1 .. L, NEW x \in Ok[n - 1] PROVE WriteUnwritten(x, q[n]) \in Ok[n]
  <2>1. n - 1 \in 0 .. L /\ n \in 0 .. L
    OBVIOUS
  <2>2. P(n - 1, x) /\ x \in Stores
    BY <2>1, <1>6
  <2>3. PICK i : i = q[n]
    OBVIOUS
  <2>4. i \in DOMAIN x.buffer /\ i \notin DOMAIN x.pendReads
    BY <1>4, <2>2, <2>3
  <2> DEFINE y == WriteUnwritten(x, i)
  <2>5. /\ SInv(y, l, X) /\ Rest(x, y) /\ (NoDie(x) => NoDie(y))
        /\ y.buffer = x.buffer /\ y.pendReads = x.pendReads
        /\ DOMAIN y.pendWrites = DOMAIN x.pendWrites \cup {i}
    <3>1. SInv(x, l, X)
      BY <2>2
    <3>2. CASE i \in DOMAIN x.pendWrites
      <4>1. y = x
        BY ONLY <3>2 DEF WriteUnwritten
      <4> HIDE DEF y
      <4>. QED
        BY <3>1, <3>2, <4>1 DEF Rest
    <3>3. CASE i \notin DOMAIN x.pendWrites
      <4>1. y = Writeback(x, i)
        BY ONLY <3>3 DEF WriteUnwritten
      <4> HIDE DEF y
      <4>. QED
        BY <2>4, <3>1, <3>3, <4>1, WritebackKeeps
    <3>. QED
      BY <3>2, <3>3
  <2> HIDE DEF y
  <2>6. \A a \in 1 .. n : q[a] \in DOMAIN y.pendWrites
    <3>1. 1 .. n = 1 .. (n - 1) \cup {n}
      OBVIOUS
    <3>. QED
      BY <2>2, <2>3, <2>5, <3>1
  <2>7. y \in Stores /\ P(n, y)
    BY <2>2, <2>5, <2>6 DEF SInv, Rest
  <2> HIDE DEF P
  <2>8. y \in Ok[n]
    BY <2>1, <2>7
  <2>. QED
    BY <2>3, <2>8 DEF y
<1> HIDE DEF Ok
<1>7. Writes!Fold(s, q) \in Ok[L]
  BY <1>2, <1>3, <1>5, <1>6, Writes!FoldStays
<1>8. m = Writes!Fold(s, q)
  BY <1>3 DEF Writes!Fold, FoldLeft, Writes!MapThenFoldSet, MapThenFoldSet, Max, Writes!Latest
<1>9. P(L, m)
  BY <1>7, <1>8 DEF Ok
<1>. QED
  BY <1>4, <1>9 DEF AllPending

\* Both loops.
LEMMA FlushedKeeps ==
  ASSUME NEW s, NEW l, NEW X, SInv(s, l, X), NEW m, m = Flushed(s)
  PROVE  SInv(m, l, X) /\ Rest(s, m) /\ (NoDie(s) => NoDie(m)) /\ AllPending(m)
<1> DEFINE kept == ReadsDropped(s)
<1>1. /\ SInv(kept, l, X) /\ Rest(s, kept) /\ (NoDie(s) => NoDie(kept))
      /\ DOMAIN kept.pendReads = {}
  BY DropsKeep
<1>2. m = FoldLeft(WriteUnwritten, kept, kept.order)
  BY DEF Flushed
<1> HIDE DEF kept
<1>3. SInv(m, l, X) /\ Rest(kept, m) /\ (NoDie(kept) => NoDie(m)) /\ AllPending(m)
  BY <1>1, <1>2, WritesKeep
<1>. QED
  BY <1>1, <1>3 DEF Rest

\* close() tells as many copiers to stop as there are.
LEMMA DiesKeep ==
  ASSUME NEW s, NEW l, NEW X, SInv(s, l, X), AllPending(s), NEW k \in Nat,
         NEW m, m = FoldLeft(Die, s, [n \in 1 .. k |-> n])
  PROVE  SInv(m, l, X) /\ Rest(s, m) /\ AllPending(m)
<1> DEFINE q == [n \in 1 .. k |-> n]
           P(x) == SInv(x, l, X) /\ Rest(s, x) /\ AllPending(x)
           Ok == [n \in 0 .. k |-> {x \in Stores : P(x)}]
<1>1. s \in Ok[0]
  BY DEF SInv, Rest
<1>2. ASSUME NEW n \in 1 .. k, NEW x \in Ok[n - 1] PROVE Die(x, q[n]) \in Ok[n]
  <2>1. n - 1 \in 0 .. k /\ n \in 0 .. k
    OBVIOUS
  <2>2. P(x)
    BY <2>1, <1>2
  <2>3. PICK i : i = q[n]
    OBVIOUS
  <2> DEFINE y == Die(x, i)
  <2>4. /\ SInv(y, l, X) /\ Rest(x, y) /\ y.buffer = x.buffer
        /\ y.pendReads = x.pendReads /\ y.pendWrites = x.pendWrites
    BY <2>2, DieKeeps
  <2> HIDE DEF y
  <2>5. y \in Stores /\ P(y)
    BY <2>2, <2>4 DEF SInv, Rest, AllPending
  <2> HIDE DEF P
  <2>6. y \in Ok[n]
    BY <2>1, <2>5
  <2>. QED
    BY <2>3, <2>6 DEF y
<1> HIDE DEF Ok
<1>3. DOMAIN q = 1 .. k
  OBVIOUS
<1>4. m = Dies!Fold(s, q)
  BY DEF Dies!Fold, FoldLeft, Dies!MapThenFoldSet, MapThenFoldSet, Max, Dies!Latest
<1> HIDE DEF q
<1>5. Dies!Fold(s, q) \in Ok[k]
  BY <1>1, <1>2, <1>3, Dies!FoldStays
<1>. QED
  BY <1>4, <1>5 DEF Ok

-----------------------------------------------------------------------------
\* The steps of a copier.
LEMMA CopierFacts ==
  ASSUME Threads
  PROVE  /\ \A t \in Taken : /\ copier[t].pc \in {"took", "writing", "worked", "dead"}
                             /\ copier[t].task \in Tasks
         /\ \A t \in Copiers \ Taken : copier[t] \in {Off, Free}
         /\ \A t \in Copiers : copier[t].pc \in {"off", "idle", "took", "writing", "worked", "dead"}
         /\ \A t \in Taken : copier[t] \in [pc : {"took", "writing", "worked", "dead"}, task : Tasks]
BY DEF Threads, CopierStates, Taken, Off, Free

\* No two writes or deletes on their way are of one block.
LEMMA OneWriter ==
  ASSUME NEW s, NEW l, NEW X, SInv(s, l, X), NEW k \in Outstanding(s), NEW h \in Outstanding(s),
         k.cmd \in {"PUT", "DEL"}, h.cmd \in {"PUT", "DEL"}, k.ind = h.ind
  PROVE  k = h
<1>1. Current(s.pendWrites, k) /\ Current(s.pendWrites, h)
  BY DEF SInv, Writers
<1>2. k.id = h.id
  BY <1>1 DEF Current
<1>. QED
  BY <1>2, OneTaskPerId DEF SInv

\* What a thread that keeps its task in hand changes.
LEMMA StillInHand ==
  ASSUME Threads, OneIdEach(store), NEW t \in Taken, NEW c,
         c.pc \in {"took", "writing", "worked", "dead"}, c.task.id = copier[t].task.id,
         copier'[t] = c, \A u \in Copiers \ {t} : copier'[u] = copier[u], store' = store
  PROVE  /\ Taken' = Taken /\ OneIdEach(store)'
         /\ \A k \in Outstanding(store)' : k = c.task \/ k \in Outstanding(store) \ {copier[t].task}
         /\ \A k \in Done(store)' :
               (k = c.task /\ c.pc = "worked") \/ k \in Done(store) \ {copier[t].task}
         /\ DieIds(store)' = DieIds(store) /\ Working("off")' = Working("off")
<1> DEFINE h == copier[t].task
<1>1. /\ t \in Copiers /\ copier'[t] = c /\ \A u \in Copiers \ {t} : copier'[u] = copier[u]
      /\ copier[t].pc \notin {"off", "idle"} /\ h \in InHand
  BY DEF Threads, Taken, InHand
<1>2. Taken' = Taken
  BY <1>1 DEF Taken
<1>3. Working("off")' = Working("off")
  BY <1>1 DEF Working
<1>4. Queued(store)' = Queued(store) /\ Answered(store)' = Answered(store) /\ DieIds(store)' = DieIds(store)
  BY DEF Queued, Answered, DieIds
<1>5. ASSUME NEW u \in Taken
      PROVE  /\ u = t \/ (copier'[u].task = copier[u].task /\ copier[u].task.id # h.id)
             /\ copier'[u].task.id = copier[u].task.id
  BY <1>1 DEF OneIdEach, Taken
<1>6. ASSUME NEW k \in InHand' PROVE k = c.task \/ k \in InHand \ {h}
  <2>1. PICK u \in Taken : k = copier'[u].task
    BY <1>2 DEF InHand
  <2>. QED
    BY <1>1, <1>5, <2>1 DEF InHand
<1>7. \A k \in Queued(store) \cup Answered(store) : k.id # h.id
  BY <1>1 DEF OneIdEach
<1>8. \A k \in Outstanding(store)' : k = c.task \/ k \in Outstanding(store) \ {h}
  BY <1>4, <1>6, <1>7 DEF Outstanding
<1>9. ASSUME NEW k \in Done(store)'
      PROVE  (k = c.task /\ c.pc = "worked") \/ k \in Done(store) \ {h}
  <2>1. CASE k \in Answered(store)
    BY <1>7, <2>1 DEF Done
  <2>2. CASE k \notin Answered(store)
    <3>1. PICK u \in Copiers : copier'[u].pc = "worked" /\ k = copier'[u].task
      BY <1>4, <2>2 DEF Done, Working
    <3>2. CASE u = t
      BY <1>1, <3>1, <3>2
    <3>3. CASE u # t
      <4>1. copier[u].pc = "worked" /\ k = copier[u].task
        BY <1>1, <3>1, <3>3
      <4>2. u \in Taken
        BY <4>1 DEF Taken
      <4>. QED
        BY <1>5, <3>3, <4>1, <4>2 DEF Done, Working
    <3>. QED
      BY <3>2, <3>3
  <2>. QED
    BY <2>1, <2>2
<1>10. OneIdEach(store)'
  <2>1. \A u, v \in Taken' : copier'[u].task.id = copier'[v].task.id => u = v
    BY <1>2, <1>5 DEF OneIdEach
  <2>2. ASSUME NEW k \in InHand' PROVE \E b \in InHand : b.id = k.id
    BY <1>1, <1>6
  <2>3. \A k \in Queued(store)', b \in InHand' : k.id # b.id
    BY <1>4, <2>2 DEF OneIdEach
  <2>4. \A b \in InHand', a \in Answered(store)' : b.id # a.id
    BY <1>4, <2>2 DEF OneIdEach
  <2>. QED
    BY <1>4, <2>1, <2>3, <2>4 DEF OneIdEach
<1>. QED
  BY <1>2, <1>3, <1>4, <1>8, <1>9, <1>10

\* What has to be shown of a step of a thread that leaves the caller alone.
Copying ==
    /\ SInv(store, list, Exempt)' /\ UNCHANGED <<call, list>> /\ Rest(store, store')
    /\ store'.buffer = store.buffer /\ store'.pendReads = store.pendReads
    /\ store'.pendWrites = store.pendWrites
    /\ NoDie(store) => NoDie(store)'

\* A thread reads a file, or dies because there is none.
LEMMA ReadCopies ==
  ASSUME SInv(store, list, Exempt), NEW t \in Copiers, Read(t)
  PROVE  Copying
<1> DEFINE k == copier[t].task
           i == k.ind
           X == Exempt
<1>1. /\ store \in Stores /\ Threads /\ OneIdEach(store) /\ Ordered(store)
      /\ copier[t].pc = "took" /\ k.cmd = "GET" /\ t \in Taken
      /\ UNCHANGED <<store, file, call, list>>
  BY DEF SInv, Read, Has, Taken
<1>2. copier[t] \in [pc : {"took", "writing", "worked", "dead"}, task : Tasks] /\ k \in Tasks
  BY <1>1, CopierFacts
<1>3. PICK c : /\ copier' = [copier EXCEPT ![t] = c]
               /\ c \in [pc : {"worked", "dead"}, task : Tasks]
               /\ c.task.id = k.id /\ c.task.cmd = "GET" /\ c.task.ind = i
               /\ c.pc = "worked" => i \in DOMAIN file /\ c.task.data = file[i]
               /\ c.pc = "dead" => i \notin DOMAIN file
  <2>1. CASE i \notin DOMAIN file
    <3> DEFINE c == [copier[t] EXCEPT !.pc = "dead"]
    <3>1. copier' = [copier EXCEPT ![t] = c]
      BY <2>1 DEF Read, Ind, Doing
    <3>2. c \in [pc : {"worked", "dead"}, task : Tasks] /\ c.pc = "dead" /\ c.task = k
      BY <1>2
    <3> HIDE DEF c
    <3>. QED
      BY <1>1, <2>1, <3>1, <3>2
  <2>2. CASE i \in DOMAIN file
    <3> DEFINE d == [k EXCEPT !.data = file[i]]
               c == [copier[t] EXCEPT !.pc = "worked", !.task = d]
    <3>1. copier' = [copier EXCEPT ![t] = c]
      <4> DEFINE b == [copier[t] EXCEPT !.pc = "worked"]
                 g == [copier EXCEPT ![t] = b]
      <4>1. t \in DOMAIN copier
        BY <1>1 DEF Threads
      <4>2. g[t] = b /\ b.task = k
        BY <1>2, <4>1
      <4>3. copier' = [g EXCEPT ![t] = [g[t] EXCEPT !.task = [g[t].task EXCEPT !.data = file[i]]]]
        BY <2>2 DEF Read, Ind
      <4>4. copier' = [g EXCEPT ![t] = c]
        BY <4>2, <4>3
      <4> HIDE DEF b, c
      <4>. QED
        BY <4>4
    <3>2. file[i] \in Contents
      BY <2>2, MapFacts DEF SInv
    <3>3. d \in Tasks /\ d.id = k.id /\ d.cmd = k.cmd /\ d.ind = i /\ d.data = file[i]
      BY <1>2, <3>2 DEF Tasks
    <3> HIDE DEF d
    <3>4. c \in [pc : {"worked", "dead"}, task : Tasks] /\ c.pc = "worked" /\ c.task = d
      BY <1>2, <3>3
    <3> HIDE DEF c
    <3>. QED
      BY <1>1, <2>2, <3>1, <3>3, <3>4
  <2>. QED
    BY <2>1, <2>2
<1>4. c.pc \in {"took", "writing", "worked", "dead"} /\ copier'[t] = c
      /\ \A u \in Copiers \ {t} : copier'[u] = copier[u]
  BY <1>1, <1>3 DEF Threads
<1>5. /\ Taken' = Taken /\ OneIdEach(store)'
      /\ \A h \in Outstanding(store)' : h = c.task \/ h \in Outstanding(store) \ {k}
      /\ \A h \in Done(store)' : (h = c.task /\ c.pc = "worked") \/ h \in Done(store) \ {k}
      /\ DieIds(store)' = DieIds(store) /\ Working("off")' = Working("off")
  <2>1. /\ Threads /\ OneIdEach(store) /\ t \in Taken
        /\ c.pc \in {"took", "writing", "worked", "dead"}
        /\ store' = store /\ c.task.id = copier[t].task.id /\ copier'[t] = c
        /\ \A u \in Copiers \ {t} : copier'[u] = copier[u]
    BY <1>1, <1>3, <1>4
  <2>. QED
    BY <2>1, StillInHand
<1>6. Threads'
  <2>1. copier' \in [Copiers -> CopierStates]
    BY <1>1, <1>3 DEF Threads, CopierStates
  <2>2. Fitting'
    BY <1>1, <1>3, <1>4 DEF Threads, Fitting, Working, Dead
  <2>. QED
    BY <2>1, <2>2 DEF Threads
<1>7. Writers(store, list)'
  BY <1>1, <1>3, <1>5 DEF SInv, Writers
<1>8. Current(store.pendReads, c.task) => i \in DOMAIN file /\ file[i] = list[i]
  BY <1>3 DEF SInv, Current, Kept
<1>9. Readers(store, list)'
  <2>1. \A h \in Done(store)' : h.cmd = "GET" /\ Current(store.pendReads, h) => h.data = list[h.ind]
    BY <1>3, <1>5, <1>8 DEF SInv, Readers
  <2>2. ASSUME NEW u \in Dead', copier'[u].task.cmd = "GET"
        PROVE  ~Current(store.pendReads, copier'[u].task)
    <3>1. CASE u = t
      BY <1>3, <1>4, <1>8, <2>2, <3>1 DEF Dead
    <3>2. CASE u # t
      BY <1>4, <2>2, <3>2 DEF Dead, SInv, Readers
    <3>. QED
      BY <3>1, <3>2
  <2>. QED
    BY <1>1, <2>1, <2>2 DEF Readers
<1>10. (Kept(store, list, Exempt) /\ Ordered(store) /\ Counted(store))'
  BY <1>1, <1>5 DEF SInv, Kept, Ordered, Counted, Exempt
<1>11. SInv(store, list, Exempt)'
  BY <1>1, <1>5, <1>6, <1>7, <1>9, <1>10 DEF SInv
<1>12. NoDie(store) => NoDie(store)'
  BY <1>3, <1>5 DEF NoDie
<1>. QED
  BY <1>1, <1>11, <1>12 DEF Copying, Rest

\* A step of a write or a delete changes the file of its block only, which is no
\* other's and not the place where the contents are.
FileStep(t, c) ==
    LET k == copier[t].task
        i == k.ind
    IN  /\ k.cmd \in {"PUT", "DEL"} /\ copier[t].pc \in {"took", "writing"}
        /\ copier' = [copier EXCEPT ![t] = c] /\ UNCHANGED <<store, call, list>>
        /\ c \in CopierStates /\ c.task = k
        /\ \/ c.pc = "writing" /\ k.cmd = "PUT"
           \/ c.pc = "dead" /\ k.cmd = "DEL"
           \/ c.pc = "worked" /\ k.cmd = "PUT" /\ i \in DOMAIN file' /\ file'[i] = k.data
           \/ c.pc = "worked" /\ k.cmd = "DEL" /\ i \notin DOMAIN file'
        /\ file' \in Maps(Contents) /\ DOMAIN file' \ {i} = DOMAIN file \ {i}
        /\ \A j \in DOMAIN file \ {i} : file'[j] = file[j]

\* A step on the file of a pending write or delete keeps the invariant.
LEMMA WriterStep ==
  ASSUME SInv(store, list, Exempt), NEW t \in Taken, NEW c, FileStep(t, c)
  PROVE  Copying
<1>0. PICK k, i :
          /\ k = copier[t].task /\ i = k.ind
          /\ k.cmd \in {"PUT", "DEL"} /\ copier[t].pc \in {"took", "writing"}
          /\ copier' = [copier EXCEPT ![t] = c] /\ UNCHANGED <<store, call, list>>
          /\ c \in CopierStates /\ c.task = k /\ c.pc \in {"writing", "worked", "dead"}
          /\ c.pc = "writing" => k.cmd = "PUT"
          /\ c.pc = "dead" => k.cmd = "DEL"
          /\ c.pc = "worked" /\ k.cmd = "PUT" => i \in DOMAIN file' /\ file'[i] = k.data
          /\ c.pc = "worked" /\ k.cmd = "DEL" => i \notin DOMAIN file'
          /\ file' \in Maps(Contents) /\ DOMAIN file' \ {i} = DOMAIN file \ {i}
          /\ \A j \in DOMAIN file \ {i} : file'[j] = file[j]
  BY DEF FileStep
<1> USE <1>0
<1>1. store \in Stores /\ Threads /\ OneIdEach(store) /\ Ordered(store) /\ t \in Copiers
  BY DEF SInv, Taken
<1>2. k \in Outstanding(store)
  BY DEF Outstanding, InHand
<1>3. copier'[t] = c /\ \A u \in Copiers \ {t} : copier'[u] = copier[u]
  BY <1>1 DEF Threads
<1>4. /\ Taken' = Taken /\ OneIdEach(store)'
      /\ \A h \in Outstanding(store)' : h = k \/ h \in Outstanding(store) \ {k}
      /\ \A h \in Done(store)' : (h = k /\ c.pc = "worked") \/ h \in Done(store) \ {k}
      /\ DieIds(store)' = DieIds(store) /\ Working("off")' = Working("off")
  <2>1. /\ c.pc \in {"took", "writing", "worked", "dead"} /\ c.task.id = copier[t].task.id
        /\ store' = store
    OBVIOUS
  <2>. QED
    BY <1>1, <1>3, <2>1, StillInHand
<1>5. Threads'
  <2>1. copier' \in [Copiers -> CopierStates]
    BY <1>1 DEF Threads
  <2>2. Fitting'
    <3>1. \A u \in Working("writing")' : copier'[u].task.cmd = "PUT"
      BY <1>1, <1>3 DEF Threads, Fitting, Working
    <3>2. \A u \in Working("worked")' : copier'[u].task.cmd # "DIE"
      BY <1>1, <1>3 DEF Threads, Fitting, Working
    <3>3. \A u \in Dead' : copier'[u].task.cmd \in {"GET", "DEL"}
      BY <1>1, <1>3 DEF Threads, Fitting, Dead
    <3>. QED
      BY <3>1, <3>2, <3>3 DEF Fitting
  <2>. QED
    BY <2>1, <2>2 DEF Threads
<1>6. i \in DOMAIN store.pendWrites /\ i \in DOMAIN store.buffer /\ i \notin DOMAIN store.pendReads
  BY <1>1, <1>2 DEF SInv, Writers, Current, Ordered
<1>7. \A h \in Outstanding(store) \ {k} : h.cmd \in {"PUT", "DEL"} => h.ind # i
  BY <1>2, OneWriter
<1>8. Done(store) \subseteq Outstanding(store)
  BY DEF Done, Outstanding, InHand, Working, Taken
<1>9. Writers(store, list)'
  <2>1. /\ \A h \in Outstanding(store)' : h.cmd \in {"PUT", "DEL"} => Current(store.pendWrites, h)
        /\ \A h \in Outstanding(store)' :
              h.cmd = "PUT" => h.ind \in DOMAIN list /\ store.buffer[h.ind] = h.data
        /\ \A h \in Outstanding(store)' : h.cmd = "DEL" => h.ind \notin DOMAIN list
    BY <1>2, <1>4 DEF SInv, Writers
  <2>2. ASSUME NEW h \in Done(store)', h.cmd = "PUT"
        PROVE  h.ind \in DOMAIN file' /\ file'[h.ind] = h.data
    <3>1. CASE h = k
      BY <1>4, <2>2, <3>1
    <3>2. CASE h # k
      <4>1. h \in Done(store) /\ h.ind # i
        BY <1>4, <1>7, <1>8, <2>2, <3>2
      <4>2. h.ind \in DOMAIN file /\ file[h.ind] = h.data
        BY <2>2, <4>1 DEF SInv, Writers
      <4>. QED
        BY <4>1, <4>2
    <3>. QED
      BY <3>1, <3>2
  <2>3. ASSUME NEW h \in Done(store)', h.cmd = "DEL"
        PROVE  h.ind \notin DOMAIN file'
    <3>1. CASE h = k
      BY <1>4, <2>3, <3>1
    <3>2. CASE h # k
      <4>1. h \in Done(store) /\ h.ind # i
        BY <1>4, <1>7, <1>8, <2>3, <3>2
      <4>2. h.ind \notin DOMAIN file
        BY <2>3, <4>1 DEF SInv, Writers
      <4>. QED
        BY <4>1, <4>2
    <3>. QED
      BY <3>1, <3>2
  <2>. QED
    BY <2>1, <2>2, <2>3 DEF Writers
<1>10. Readers(store, list)'
  <2>1. \A h \in Done(store)' : h.cmd = "GET" /\ Current(store.pendReads, h) => h.data = list[h.ind]
    BY <1>4 DEF SInv, Readers
  <2>2. ASSUME NEW u \in Dead', copier'[u].task.cmd = "GET"
        PROVE  ~Current(store.pendReads, copier'[u].task)
    BY <1>3, <2>2 DEF Dead, SInv, Readers
  <2>. QED
    BY <2>1, <2>2 DEF Readers
<1>11. Kept(store, list, Exempt)'
  <2>1. Exempt' = Exempt
    BY DEF Exempt
  <2>2. DOMAIN store.buffer \cup DOMAIN file' \subseteq DOMAIN list \cup DOMAIN store.pendWrites
    BY <1>6 DEF SInv, Kept
  <2>3. ASSUME NEW j \in DOMAIN list \ Exempt
        PROVE  IF j \in DOMAIN store.buffer \ DOMAIN store.pendReads THEN store.buffer[j] = list[j]
               ELSE j \in DOMAIN file' /\ file'[j] = list[j]
    BY <1>6 DEF SInv, Kept
  <2>4. DOMAIN store.pendReads \subseteq DOMAIN list \ Exempt
    BY DEF SInv, Kept
  <2>. QED
    BY <2>1, <2>2, <2>3, <2>4 DEF Kept
<1>12. (Ordered(store) /\ Counted(store))' /\ store' \in Stores /\ list' \in Maps(Values)
  BY <1>1, <1>4 DEF SInv, Ordered, Counted
<1>13. SInv(store, list, Exempt)'
  BY <1>4, <1>5, <1>9, <1>10, <1>11, <1>12 DEF SInv
<1>14. NoDie(store) => NoDie(store)'
  BY <1>2, <1>4 DEF NoDie
<1>. QED
  BY <1>13, <1>14 DEF Copying, Rest

\* A thread opens a file for writing.
LEMMA TruncateCopies ==
  ASSUME SInv(store, list, Exempt), NEW t \in Copiers, Truncate(t)
  PROVE  Copying
<1> DEFINE k == copier[t].task
           i == k.ind
           c == [copier[t] EXCEPT !.pc = "writing"]
<1>1. Threads /\ t \in Taken /\ copier[t].pc = "took" /\ k.cmd = "PUT" /\ file \in Maps(Contents)
  BY DEF SInv, Truncate, Has, Taken
<1>2. copier[t] \in [pc : {"took", "writing", "worked", "dead"}, task : Tasks] /\ k \in Tasks
  BY <1>1, CopierFacts
<1>3. c \in CopierStates /\ c.pc = "writing" /\ c.task = k
  BY <1>2 DEF CopierStates
<1>4. i \in Blocks
  <2>1. k \in Outstanding(store)
    BY <1>1 DEF Outstanding, InHand
  <2>2. k.ind \in DOMAIN store.pendWrites
    BY <1>1, <2>1 DEF SInv, Writers, Current
  <2>. QED
    BY <2>2, MapFacts DEF SInv, Stores
<1>5. copier' = [copier EXCEPT ![t] = c] /\ file' = With(file, i, Nothing)
  BY DEF Truncate, Doing, Ind
<1>6. Nothing \in Contents
  BY DEF Contents
<1>7. file' \in Maps(Contents)
  BY <1>1, <1>4, <1>5, <1>6, WithIsMap
<1>8. DOMAIN file' \ {i} = DOMAIN file \ {i} /\ \A j \in DOMAIN file \ {i} : file'[j] = file[j]
  BY <1>5 DEF With
<1>9. UNCHANGED <<store, call, list>>
  BY DEF Truncate
<1>10. FileStep(t, c)
  <2> HIDE DEF c
  <2>. QED
    BY <1>1, <1>3, <1>5, <1>7, <1>8, <1>9 DEF FileStep
<1>. QED
  BY <1>1, <1>10, WriterStep

\* A thread writes a file.
LEMMA WriteCopies ==
  ASSUME SInv(store, list, Exempt), NEW t \in Copiers, Write(t)
  PROVE  Copying
<1> DEFINE k == copier[t].task
           i == k.ind
           c == [copier[t] EXCEPT !.pc = "worked"]
<1>1. Threads /\ t \in Taken /\ copier[t].pc = "writing" /\ k.cmd = "PUT" /\ file \in Maps(Contents)
  BY DEF SInv, Threads, Fitting, Working, Write, Taken
<1>2. copier[t] \in [pc : {"took", "writing", "worked", "dead"}, task : Tasks] /\ k \in Tasks
  BY <1>1, CopierFacts
<1>3. c \in CopierStates /\ c.pc = "worked" /\ c.task = k
  BY <1>2 DEF CopierStates
<1>4. i \in Blocks
  <2>1. k \in Outstanding(store)
    BY <1>1 DEF Outstanding, InHand
  <2>2. k.ind \in DOMAIN store.pendWrites
    BY <1>1, <2>1 DEF SInv, Writers, Current
  <2>. QED
    BY <2>2, MapFacts DEF SInv, Stores
<1>5. copier' = [copier EXCEPT ![t] = c] /\ file' = With(file, i, k.data)
  BY DEF Write, Doing, Ind
<1>6. k.data \in Contents
  BY <1>2 DEF Tasks
<1>7. file' \in Maps(Contents)
  BY <1>1, <1>4, <1>5, <1>6, WithIsMap
<1>8. /\ DOMAIN file' \ {i} = DOMAIN file \ {i} /\ \A j \in DOMAIN file \ {i} : file'[j] = file[j]
      /\ i \in DOMAIN file' /\ file'[i] = k.data
  BY <1>5 DEF With
<1>9. UNCHANGED <<store, call, list>>
  BY DEF Write
<1>10. FileStep(t, c)
  <2> HIDE DEF c
  <2>. QED
    BY <1>1, <1>3, <1>5, <1>7, <1>8, <1>9 DEF FileStep
<1>. QED
  BY <1>1, <1>10, WriterStep

\* A thread deletes a file, or dies because there is none.
LEMMA UnlinkCopies ==
  ASSUME SInv(store, list, Exempt), NEW t \in Copiers, Unlink(t)
  PROVE  Copying
<1> DEFINE k == copier[t].task
           i == k.ind
<1>1. Threads /\ t \in Taken /\ copier[t].pc = "took" /\ k.cmd = "DEL" /\ file \in Maps(Contents)
  BY DEF SInv, Unlink, Has, Taken
<1>2. copier[t] \in [pc : {"took", "writing", "worked", "dead"}, task : Tasks]
  BY <1>1, CopierFacts
<1>3. PICK c : /\ copier' = [copier EXCEPT ![t] = c]
               /\ c \in CopierStates /\ c.pc \in {"worked", "dead"} /\ c.task = k
  <2> DEFINE c == [copier[t] EXCEPT !.pc = IF i \in DOMAIN file THEN "worked" ELSE "dead"]
  <2>1. copier' = [copier EXCEPT ![t] = c]
    BY DEF Unlink, Doing, Ind
  <2>2. c \in CopierStates /\ c.pc \in {"worked", "dead"} /\ c.task = k
    BY <1>2 DEF CopierStates
  <2> HIDE DEF c
  <2>. QED
    BY <2>1, <2>2
<1>4. file' = Without(file, {i})
  BY DEF Unlink, Ind
<1>5. file' \in Maps(Contents)
  <2>1. PICK f \in Maps(Contents) : f = file
    BY <1>1
  <2>2. Without(f, {i}) \in Maps(Contents)
    BY WithoutOne
  <2>. QED
    BY <1>4, <2>1, <2>2
<1>6. /\ DOMAIN file' \ {i} = DOMAIN file \ {i} /\ \A j \in DOMAIN file \ {i} : file'[j] = file[j]
      /\ i \notin DOMAIN file'
  BY <1>4 DEF Without
<1>7. UNCHANGED <<store, call, list>>
  BY DEF Unlink
<1>8. FileStep(t, c)
  BY <1>1, <1>3, <1>5, <1>6, <1>7 DEF FileStep
<1>. QED
  BY <1>1, <1>8, WriterStep

\* A thread takes a task from the queue.
LEMMA TakeCopies ==
  ASSUME SInv(store, list, Exempt), NEW t \in Copiers, Take(t)
  PROVE  Copying
<1> DEFINE k == Head(store.taskq)
           c == [pc |-> "took", task |-> k]
<1>1. /\ store \in Stores /\ Threads /\ OneIdEach(store) /\ Ordered(store)
      /\ copier[t].pc = "idle" /\ t \notin Taken /\ store.taskq # << >>
      /\ copier' = [copier EXCEPT ![t] = c] /\ UNCHANGED <<file, call, list>>
  BY DEF SInv, Take, Taken
<1>2. /\ store' = [store EXCEPT !.taskq = Tail(store.taskq)]
      /\ store'.taskq = Tail(store.taskq) /\ store'.resq = store.resq /\ Rest(store, store')
      /\ store'.buffer = store.buffer /\ store'.order = store.order
      /\ store'.pendReads = store.pendReads /\ store'.pendWrites = store.pendWrites
  BY <1>1 DEF Take, Stores, Rest
<1>3. PICK q \in Seq(Tasks) : q = store.taskq
  BY <1>1 DEF Stores
<1>4. /\ q # << >> /\ Tail(q) \in Seq(Tasks) /\ k \in ToSet(q) /\ ToSet(q) = ToSet(Tail(q)) \cup {k}
      /\ ToSet(q) \subseteq Tasks
      /\ \A a \in DOMAIN Tail(q) : a + 1 \in DOMAIN q /\ Tail(q)[a] = q[a + 1]
  BY <1>1, <1>3, TailFacts
<1>5. \A a, b \in DOMAIN q : q[a].id = q[b].id => a = b
  BY <1>1, <1>3 DEF OneIdEach
<1>6. DOMAIN q \subseteq Nat /\ DOMAIN Tail(q) \subseteq Nat \ {0} /\ 1 \in DOMAIN q /\ q[1] = k
  <2>1. PICK n \in Nat \ {0} : n = Len(q)
    BY <1>4, EmptySeq
  <2>2. DOMAIN q = 1 .. n
    BY <2>1
  <2>3. DOMAIN Tail(q) = 1 .. Len(Tail(q)) /\ Len(Tail(q)) \in Nat
    BY <1>4, LenProperties
  <2>4. k = q[1]
    BY <1>3
  <2>. QED
    BY <2>2, <2>3, <2>4
<1>7. \A h \in ToSet(Tail(q)) : h.id # k.id
  BY <1>4, <1>5, <1>6 DEF ToSet
<1>8. \A a, b \in DOMAIN Tail(q) : Tail(q)[a].id = Tail(q)[b].id => a = b
  <2> SUFFICES ASSUME NEW a \in DOMAIN Tail(q), NEW b \in DOMAIN Tail(q),
                      Tail(q)[a].id = Tail(q)[b].id
               PROVE a = b
    OBVIOUS
  <2>1. a + 1 = b + 1
    BY <1>4, <1>5
  <2>. QED
    BY <1>6, <2>1
<1>9. copier'[t] = c /\ \A u \in Copiers \ {t} : copier'[u] = copier[u]
  BY <1>1 DEF Threads
<1>10. c.pc = "took" /\ c.task = k
  OBVIOUS
<1>11. k \in Tasks /\ c \in CopierStates
  BY <1>4 DEF CopierStates
<1> HIDE DEF c, k
<1>12. Taken' = Taken \cup {t} /\ Working("off")' = Working("off") /\ Working("worked")' = Working("worked")
       /\ Dead' = Dead
  BY <1>1, <1>9, <1>10 DEF Taken, Working, Dead
<1>13. \A u \in Taken : copier'[u] = copier[u]
  BY <1>1, <1>9 DEF Taken
<1>14. InHand' = InHand \cup {k}
  BY <1>9, <1>10, <1>12, <1>13 DEF InHand
<1>15. /\ Queued(store) = Queued(store)' \cup {k} /\ Answered(store)' = Answered(store)
       /\ \A h \in Queued(store)' : h.id # k.id
  BY <1>2, <1>3, <1>4, <1>7 DEF Queued, Answered
<1>16. /\ Outstanding(store)' = Outstanding(store) /\ DieIds(store)' = DieIds(store)
       /\ Done(store)' = Done(store)
  <2>1. {copier'[u].task : u \in Working("worked")} = {copier[u].task : u \in Working("worked")}
    BY <1>13 DEF Working, Taken
  <2>. QED
    BY <1>12, <1>14, <1>15, <2>1 DEF Outstanding, DieIds, Done
<1>17. OneIdEach(store)'
  <2>1. /\ \A a, b \in DOMAIN store'.taskq : store'.taskq[a].id = store'.taskq[b].id => a = b
        /\ \A a, b \in DOMAIN store'.resq : store'.resq[a].id = store'.resq[b].id => a = b
    BY <1>1, <1>2, <1>3, <1>8 DEF OneIdEach
  <2>2. \A h \in InHand : h.id # k.id
    BY <1>1, <1>15 DEF OneIdEach
  <2>3. \A u, v \in Taken' : copier'[u].task.id = copier'[v].task.id => u = v
    BY <1>1, <1>9, <1>10, <1>12, <1>13, <2>2 DEF OneIdEach, InHand
  <2>4. \A h \in Queued(store)', b \in InHand' : h.id # b.id
    BY <1>1, <1>14, <1>15 DEF OneIdEach
  <2>5. /\ \A h \in Queued(store)', a \in Answered(store)' : h.id # a.id
        /\ \A h \in InHand', a \in Answered(store)' : h.id # a.id
    BY <1>1, <1>14, <1>15 DEF OneIdEach
  <2>. QED
    BY <2>1, <2>3, <2>4, <2>5 DEF OneIdEach
<1>18. Threads'
  <2>1. copier' \in [Copiers -> CopierStates]
    BY <1>1, <1>11 DEF Threads
  <2>2. Fitting'
    <3>1. \A u \in Working("writing")' : copier'[u].task.cmd = "PUT"
      BY <1>1, <1>9, <1>10 DEF Threads, Fitting, Working
    <3>2. \A u \in Working("worked")' : copier'[u].task.cmd # "DIE"
      BY <1>1, <1>9, <1>10 DEF Threads, Fitting, Working
    <3>3. \A u \in Dead' : copier'[u].task.cmd \in {"GET", "DEL"}
      BY <1>1, <1>9, <1>10 DEF Threads, Fitting, Dead
    <3>. QED
      BY <3>1, <3>2, <3>3 DEF Fitting
  <2>. QED
    BY <2>1, <2>2 DEF Threads
<1>19. store' \in Stores
  BY <1>1, <1>2, <1>3, <1>4 DEF Stores
<1>20. Writers(store, list)' /\ Kept(store, list, Exempt)' /\ Counted(store)' /\ Ordered(store)'
  <2>1. Exempt' = Exempt
    BY <1>1 DEF Exempt
  <2>2. Writers(store, list)'
    BY <1>1, <1>2, <1>16 DEF SInv, Writers
  <2>3. Kept(store, list, Exempt)'
    BY <1>1, <1>2, <2>1 DEF SInv, Kept
  <2>4. Counted(store)'
    BY <1>2, <1>12, <1>16 DEF SInv, Counted, Rest
  <2>5. Ordered(store)'
    BY <1>1, <1>2 DEF Ordered
  <2>. QED
    BY <2>2, <2>3, <2>4, <2>5
<1>21. Readers(store, list)'
  <2>1. \A u \in Dead' : copier'[u].task = copier[u].task
    BY <1>12, <1>13 DEF Dead, Taken
  <2>. QED
    BY <1>1, <1>2, <1>12, <1>16, <2>1 DEF SInv, Readers
<1>22. SInv(store, list, Exempt)'
  BY <1>1, <1>17, <1>18, <1>19, <1>20, <1>21 DEF SInv
<1>23. NoDie(store) => NoDie(store)'
  BY <1>16 DEF NoDie
<1>. QED
  BY <1>1, <1>2, <1>22, <1>23 DEF Copying

\* A thread answers, or says that it stops.
LEMMA RespondCopies ==
  ASSUME SInv(store, list, Exempt), NEW t \in Copiers, Respond(t)
  PROVE  Copying
<1> DEFINE k == copier[t].task
           c == IF k.cmd = "DIE" THEN Off ELSE Free
<1>1. /\ store \in Stores /\ Threads /\ OneIdEach(store) /\ Ordered(store)
      /\ t \in Taken /\ copier' = [copier EXCEPT ![t] = c] /\ UNCHANGED <<file, call, list>>
      /\ copier[t].pc \in {"took", "worked"} /\ (copier[t].pc = "worked" \/ k.cmd = "DIE")
  BY DEF SInv, Respond, Has, Taken
<1>2. k \in Tasks /\ k \in InHand /\ k \in Outstanding(store)
  BY <1>1, CopierFacts DEF InHand, Outstanding
<1>3. /\ store'.taskq = store.taskq /\ store'.resq = Append(store.resq, k) /\ Rest(store, store')
      /\ store'.buffer = store.buffer /\ store'.order = store.order
      /\ store'.pendReads = store.pendReads /\ store'.pendWrites = store.pendWrites
  BY <1>1 DEF Respond, Stores, Rest
<1>4. PICK q \in Seq(Tasks) : q = store.resq
  BY <1>1 DEF Stores
<1>5. Append(q, k) \in Seq(Tasks) /\ ToSet(Append(q, k)) = ToSet(q) \cup {k}
  BY <1>2, AppendFacts
<1>6. store' \in Stores
  BY <1>1, <1>4, <1>5 DEF Respond, Stores
<1>7. copier'[t] = c /\ (\A u \in Copiers \ {t} : copier'[u] = copier[u]) /\ c \in {Off, Free}
      /\ (k.cmd = "DIE" => c = Off) /\ (k.cmd # "DIE" => c = Free)
  BY <1>1 DEF Threads
<1>8. k.cmd # "DIE" => k \in Done(store)
  BY <1>1 DEF Done, Working
<1>9. \A u \in Taken \ {t} : copier[u].task.id # k.id
  BY <1>1 DEF OneIdEach
<1>10. \A h \in Queued(store) \cup Answered(store) : h.id # k.id
  BY <1>1, <1>2 DEF OneIdEach
<1> HIDE DEF c, k
<1>11. Taken' = Taken \ {t} /\ \A u \in Taken \ {t} : copier'[u] = copier[u]
  BY <1>1, <1>7 DEF Taken, Off, Free
<1>12. \A h \in InHand' : h \in InHand /\ h.id # k.id
  BY <1>9, <1>11 DEF InHand
<1>13. Queued(store)' = Queued(store) /\ Answered(store)' = Answered(store) \cup {k}
  BY <1>3, <1>4, <1>5 DEF Queued, Answered
<1>14. Outstanding(store)' \subseteq Outstanding(store)
  BY <1>2, <1>12, <1>13 DEF Outstanding
<1>15. \A h \in Done(store)' : h \in Done(store) \/ (h = k /\ k.cmd = "DIE")
  <2>1. \A u \in Working("worked")' : u \in Working("worked") /\ copier'[u] = copier[u]
    BY <1>7 DEF Working, Off, Free
  <2>. QED
    BY <1>8, <1>13, <2>1 DEF Done
<1>16. OneIdEach(store)'
  <2>1. PICK n \in Nat : n = Len(q)
    BY <1>4
  <2>2. /\ DOMAIN q = 1 .. n /\ DOMAIN Append(q, k) = 1 .. n + 1 /\ 1 .. n + 1 = 1 .. n \cup {n + 1}
        /\ Append(q, k)[n + 1] = k /\ \A a \in 1 .. n : Append(q, k)[a] = q[a]
    BY <2>1
  <2>3. \A a, b \in 1 .. n : q[a].id = q[b].id => a = b
    BY <1>1, <1>4, <2>2 DEF OneIdEach
  <2>4. \A a \in 1 .. n : q[a].id # k.id
    BY <1>4, <1>10, <2>2 DEF Answered, ToSet
  <2>5. \A a, b \in DOMAIN Append(q, k) : Append(q, k)[a].id = Append(q, k)[b].id => a = b
    BY <2>2, <2>3, <2>4
  <2>6. /\ \A a, b \in DOMAIN store'.taskq : store'.taskq[a].id = store'.taskq[b].id => a = b
        /\ \A a, b \in DOMAIN store'.resq : store'.resq[a].id = store'.resq[b].id => a = b
    BY <1>1, <1>3, <1>4, <2>5 DEF OneIdEach
  <2>7. \A u, v \in Taken' : copier'[u].task.id = copier'[v].task.id => u = v
    BY <1>1, <1>11 DEF OneIdEach
  <2>8. /\ \A h \in Queued(store)', b \in InHand' : h.id # b.id
        /\ \A h \in InHand', a \in Answered(store)' : h.id # a.id
    BY <1>1, <1>12, <1>13 DEF OneIdEach
  <2>9. \A h \in Queued(store)', a \in Answered(store)' : h.id # a.id
    BY <1>1, <1>10, <1>13 DEF OneIdEach
  <2>. QED
    BY <2>6, <2>7, <2>8, <2>9 DEF OneIdEach
<1>17. Threads'
  <2>1. copier' \in [Copiers -> CopierStates]
    BY <1>1, <1>7 DEF Threads, CopierStates
  <2>2. Fitting'
    <3>1. \A u \in Working("writing")' : copier'[u].task.cmd = "PUT"
      BY <1>1, <1>7 DEF Threads, Fitting, Working, Off, Free
    <3>2. \A u \in Working("worked")' : copier'[u].task.cmd # "DIE"
      BY <1>1, <1>7 DEF Threads, Fitting, Working, Off, Free
    <3>3. \A u \in Dead' : copier'[u].task.cmd \in {"GET", "DEL"}
      BY <1>1, <1>7 DEF Threads, Fitting, Dead, Off, Free
    <3>. QED
      BY <3>1, <3>2, <3>3 DEF Fitting
  <2>. QED
    BY <2>1, <2>2 DEF Threads
<1>18. Exempt' = Exempt
  BY <1>1 DEF Exempt
<1>19. Writers(store, list)'
  BY <1>1, <1>3, <1>14, <1>15 DEF SInv, Writers
<1>20. Readers(store, list)'
  <2>1. Dead' \subseteq Dead /\ \A u \in Dead' : copier'[u] = copier[u]
    BY <1>7 DEF Dead, Off, Free
  <2>2. \A h \in Done(store)' : h.cmd = "GET" => h \in Done(store)
    BY <1>15
  <2>. QED
    BY <1>1, <1>3, <2>1, <2>2 DEF SInv, Readers
<1>21. Kept(store, list, Exempt)'
  BY <1>1, <1>3, <1>18 DEF SInv, Kept
<1>22. Ordered(store)'
  BY <1>1, <1>3 DEF Ordered
<1>23. Counted(store)'
  <2>1. CASE k.cmd # "DIE"
    <3>1. DieIds(store)' = DieIds(store)
      BY <1>13, <2>1 DEF DieIds
    <3>2. Working("off")' = Working("off")
      BY <1>1, <1>7, <2>1 DEF Working, Off, Free
    <3>. QED
      BY <1>3, <3>1, <3>2 DEF SInv, Counted, Rest
  <2>2. CASE k.cmd = "DIE"
    <3>1. DieIds(store)' = DieIds(store) \cup {k.id} /\ k.id \notin DieIds(store)
      BY <1>10, <1>13, <2>2 DEF DieIds
    <3>2. Working("off")' = Working("off") \cup {t} /\ t \notin Working("off")
      BY <1>1, <1>7, <2>2 DEF Working, Off
    <3>3. IsFiniteSet(DieIds(store)) /\ IsFiniteSet(Working("off"))
      BY <1>1, DieIdsFinite, SshAssumption, FS_Subset DEF Working
    <3>4. PICK a \in Nat, b \in Nat, n \in Nat, m \in Int :
              /\ a = Cardinality(DieIds(store)) /\ b = Cardinality(Working("off"))
              /\ n = Cardinality(Copiers) /\ m = store.nthreads
      BY <1>1, <3>3, SshAssumption, FS_CardinalityType DEF Stores
    <3>5. Cardinality(DieIds(store)') = a + 1 /\ Cardinality(Working("off")') = b + 1
      BY <3>1, <3>2, <3>3, <3>4, FS_AddElement
    <3>6. m <= n /\ b = n - m + a
      BY <3>4 DEF SInv, Counted
    <3>7. b + 1 = n - m + (a + 1)
      BY <3>6
    <3>. QED
      BY <1>3, <3>4, <3>5, <3>6, <3>7 DEF Counted, Rest
  <2>. QED
    BY <2>1, <2>2
<1>24. SInv(store, list, Exempt)'
  BY <1>1, <1>6, <1>16, <1>17, <1>19, <1>20, <1>21, <1>22, <1>23 DEF SInv
<1>25. NoDie(store) => NoDie(store)'
  BY <1>14 DEF NoDie
<1>. QED
  BY <1>1, <1>3, <1>24, <1>25 DEF Copying

\* What a copier does, the calls do not notice.
LEMMA CopyKeeps ==
  ASSUME IInv, NEW t \in Copiers, Copy(t)
  PROVE  IInv' /\ Copying
<1>1. Copying
  BY ReadCopies, TakeCopies, TruncateCopies, WriteCopies, UnlinkCopies, RespondCopies DEF IInv, Copy
<1>2. CallInv'
  BY <1>1 DEF IInv, CallInv, Copying, Rest, AllPending, Indices
<1>. QED
  BY <1>1, <1>2 DEF IInv, Copying

-----------------------------------------------------------------------------
\* The steps of the caller: they leave the files and the threads alone.
LEMMA CallerStep ==
  ASSUME NEW m, NEW l, NEW X, SInv(m, l, X), store' = m, list' = l, Exempt' = X,
         UNCHANGED <<file, copier>>
  PROVE  SInv(store, list, Exempt)' /\ (NoDie(m) => NoDie(store)')
<1>1. Taken' = Taken /\ Dead' = Dead
  BY DEF Taken, Dead
<1>2. InHand' = InHand
  BY <1>1 DEF InHand
<1>3. Queued(store)' = Queued(m) /\ Answered(store)' = Answered(m)
  BY DEF Queued, Answered
<1>4. Outstanding(store)' = Outstanding(m) /\ DieIds(store)' = DieIds(m)
  BY <1>2, <1>3 DEF Outstanding, DieIds
<1>5. /\ Working("worked")' = Working("worked") /\ Working("off")' = Working("off")
      /\ Working("writing")' = Working("writing")
  BY DEF Working
<1>6. Done(store)' = Done(m)
  BY <1>3, <1>5 DEF Done
<1>7. Threads'
  BY <1>1, <1>5 DEF SInv, Threads, Fitting
<1>8. Ordered(store)' /\ OneIdEach(store)'
  <2>1. Ordered(store)'
    BY DEF SInv, Ordered
  <2>2. OneIdEach(store)'
    BY <1>1, <1>2, <1>3 DEF SInv, OneIdEach
  <2>. QED
    BY <2>1, <2>2
<1>9. Writers(store, list)' /\ Readers(store, list)'
  <2>1. Writers(store, list)'
    BY <1>4, <1>6 DEF SInv, Writers
  <2>2. Readers(store, list)'
    BY <1>1, <1>6 DEF SInv, Readers
  <2>. QED
    BY <2>1, <2>2
<1>10. Kept(store, list, Exempt)' /\ Counted(store)'
  <2>1. Kept(store, list, Exempt)'
    BY DEF SInv, Kept
  <2>2. Counted(store)'
    BY <1>4, <1>5 DEF SInv, Counted
  <2>. QED
    BY <2>1, <2>2
<1>11. store' \in Stores /\ list' \in Maps(Values) /\ file' \in Maps(Contents)
  BY DEF SInv
<1>12. SInv(store, list, Exempt)'
  BY <1>7, <1>8, <1>9, <1>10, <1>11 DEF SInv
<1>13. NoDie(m) => NoDie(store)'
  BY <1>4 DEF NoDie
<1>. QED
  BY <1>12, <1>13

\* What the invariant says of the call in progress.
LEMMA CallFacts ==
  ASSUME call \in Calls
  PROVE  /\ call.op \in {"none", "failed", "get", "set", "del", "pickle", "close"}
         /\ call.op = "none" => call = NoCall
         /\ call.op \in {"get", "set", "del"} => call.ind \in Blocks
         /\ call.op = "set" => call.val \in Values
         /\ call.op \in {"pickle", "close"} =>
               call \in [op : {"pickle", "close"}, step : {"check", "join", "assert"}]
<1>1. CASE call \in {NoCall, [op |-> "failed"]}
  BY <1>1 DEF NoCall
<1>2. CASE call \in [op : {"get", "del"}, ind : Blocks]
  BY <1>2
<1>3. CASE call \in [op : {"set"}, ind : Blocks, val : Values]
  BY <1>3
<1>4. CASE call \in [op : {"pickle", "close"}, step : {"check", "join", "assert"}]
  BY <1>4
<1>. QED
  BY <1>1, <1>2, <1>3, <1>4 DEF Calls

\* A store without threads has none at work.
LEMMA AllOff ==
  ASSUME NEW l, NEW X, SInv(store, l, X), NoDie(store), store.nthreads = 0
  PROVE  Taken = {} /\ DieIds(store) = {} /\ \A t \in Copiers : copier[t] = Off
<1>1. DieIds(store) = {}
  BY DEF NoDie, DieIds, Outstanding
<1>2. PICK n \in Nat : n = Cardinality(Copiers)
  BY SshAssumption, FS_CardinalityType
<1>3. Cardinality(DieIds(store)) = 0
  BY <1>1, FS_EmptySet
<1>4. Cardinality(Working("off")) = n
  BY <1>2, <1>3 DEF SInv, Counted
<1>5. Working("off") \subseteq Copiers
  BY DEF Working
<1>6. Working("off") = Copiers
  BY <1>2, <1>4, <1>5, SshAssumption, FS_Subset
<1>7. Taken = {}
  BY <1>6 DEF Working, Taken
<1>8. \A t \in Copiers : copier[t] \in {Off, Free} /\ copier[t].pc = "off"
  BY <1>6, <1>7, CopierFacts DEF SInv, Working
<1>9. \A t \in Copiers : copier[t] = Off
  BY <1>8 DEF Off, Free
<1>. QED
  BY <1>1, <1>7, <1>9

\* A new store satisfies the invariant.
LEMMA InitKeeps ==
  ASSUME Init
  PROVE  IInv
<1>1. /\ store = Closed /\ file = << >> /\ list = << >> /\ call = NoCall
      /\ copier = [t \in Copiers |-> Off]
  BY DEF Init
<1>2. /\ store \in Stores /\ DOMAIN store.buffer = {} /\ DOMAIN store.pendReads = {}
      /\ DOMAIN store.pendWrites = {} /\ store.len = 0 /\ store.nthreads = 0
      /\ store.taskq = << >> /\ store.resq = << >> /\ store.order = << >>
  BY <1>1, EmptyMap, SshAssumption DEF Closed, Stores
<1>3. /\ list \in Maps(Values) /\ DOMAIN list = {} /\ file \in Maps(Contents) /\ DOMAIN file = {}
  BY <1>1, EmptyMap
<1>4. \A t \in Copiers : copier[t].pc = "off"
  BY <1>1 DEF Off
<1>5. Taken = {} /\ Dead = {} /\ Working("writing") = {} /\ Working("worked") = {}
      /\ Working("off") = Copiers
  BY <1>4 DEF Taken, Dead, Working
<1>6. Queued(store) = {} /\ Answered(store) = {} /\ InHand = {}
  BY <1>2, <1>5, EmptyMap DEF Queued, Answered, InHand, ToSet
<1>7. Outstanding(store) = {} /\ Done(store) = {} /\ DieIds(store) = {}
  BY <1>5, <1>6 DEF Outstanding, Done, DieIds
<1>8. Threads
  BY <1>1, <1>5 DEF Threads, Fitting, CopierStates
<1>9. Ordered(store)
  BY <1>2, EmptyMap DEF Ordered, ToSet, IsInjective
<1>10. OneIdEach(store)
  BY <1>2, <1>5, <1>6, EmptyMap DEF OneIdEach
<1>11. Writers(store, list) /\ Readers(store, list)
  BY <1>5, <1>7 DEF Writers, Readers
<1>12. Exempt = {} /\ Kept(store, list, Exempt)
  BY <1>1, <1>2, <1>3 DEF Kept, Exempt, NoCall
<1>13. Counted(store)
  <2>1. PICK n \in Nat : n = Cardinality(Copiers)
    BY SshAssumption, FS_CardinalityType
  <2>2. Cardinality(DieIds(store)) = 0
    BY <1>7, FS_EmptySet
  <2>. QED
    BY <1>2, <1>5, <2>1, <2>2 DEF Counted
<1>14. SInv(store, list, Exempt)
  BY <1>2, <1>3, <1>8, <1>9, <1>10, <1>11, <1>12, <1>13 DEF SInv
<1>15. CallInv
  BY <1>1, <1>2, <1>3, <1>7 DEF CallInv, Calls, NoCall, NoDie, Indices
<1>. QED
  BY <1>14, <1>15 DEF IInv

\* open() starts the threads.
LEMMA OpenKeeps ==
  ASSUME IInv, Open
  PROVE  IInv' /\ Exempt = {}
<1>1. /\ call = NoCall /\ store.nthreads = 0 /\ UNCHANGED <<file, call, list>>
      /\ SInv(store, list, Exempt) /\ NoDie(store) /\ store \in Stores
      /\ DOMAIN list = Indices /\ DOMAIN store.buffer = {}
  BY CallFacts DEF IInv, SInv, CallInv, Open, NoCall
<1>2. Exempt = {} /\ Exempt' = {}
  BY <1>1 DEF Exempt, NoCall
<1>3. Taken = {} /\ DieIds(store) = {} /\ \A t \in Copiers : copier[t] = Off
  BY <1>1, AllOff
<1>4. PICK n \in Nat : n = Cardinality(Copiers)
  BY SshAssumption, FS_CardinalityType
<1>5. /\ store' = [store EXCEPT !.nthreads = n]
      /\ store' \in Stores /\ store'.taskq = store.taskq /\ store'.resq = store.resq
      /\ store'.buffer = store.buffer /\ store'.order = store.order /\ store'.len = store.len
      /\ store'.pendReads = store.pendReads /\ store'.pendWrites = store.pendWrites
      /\ store'.nthreads = n
  <2>1. store' = [store EXCEPT !.nthreads = n]
    BY <1>4 DEF Open
  <2>2. PICK s \in Stores : s = store
    BY <1>1
  <2>3. PICK m : m = [s EXCEPT !.nthreads = n]
    OBVIOUS
  <2>4. n \in Int
    OBVIOUS
  <2>5. /\ m \in Stores /\ m.taskq = s.taskq /\ m.resq = s.resq
        /\ m.buffer = s.buffer /\ m.order = s.order /\ m.len = s.len
        /\ m.pendReads = s.pendReads /\ m.pendWrites = s.pendWrites
        /\ m.nthreads = n
    BY <2>3, <2>4 DEF Stores
  <2>. QED
    BY <2>1, <2>2, <2>3, <2>5
<1>6. \A t \in Copiers : copier'[t] = Free
  BY DEF Open
<1>7. Dead = {} /\ Working("worked") = {}
  BY <1>3 DEF Dead, Working, Off
<1>8. Taken' = {} /\ Dead' = {} /\ Working("writing")' = {} /\ Working("worked")' = {}
      /\ Working("off")' = {}
  BY <1>6 DEF Taken, Dead, Working, Free
<1>9. InHand' = {} /\ InHand = {}
  BY <1>3, <1>8 DEF InHand
<1>10. Queued(store)' = Queued(store) /\ Answered(store)' = Answered(store)
  BY <1>5 DEF Queued, Answered
<1>11. /\ Outstanding(store)' = Outstanding(store) /\ Done(store)' = Done(store)
       /\ DieIds(store)' = DieIds(store)
  BY <1>7, <1>8, <1>9, <1>10 DEF Outstanding, Done, DieIds
<1>12. Threads'
  <2>1. copier' \in [Copiers -> CopierStates]
    BY DEF Open, CopierStates
  <2>. QED
    BY <1>8, <2>1 DEF Threads, Fitting
<1>13. Ordered(store)' /\ OneIdEach(store)'
  <2>1. Ordered(store) /\ OneIdEach(store)
    BY <1>1 DEF SInv
  <2>2. Ordered(store)'
    BY <1>5, <2>1 DEF Ordered
  <2>3. OneIdEach(store)'
    BY <1>5, <1>8, <1>9, <1>10, <2>1 DEF OneIdEach
  <2>. QED
    BY <2>2, <2>3
<1>14. Writers(store, list)'
  BY <1>1, <1>5, <1>11 DEF SInv, Writers
<1>15. Readers(store, list)'
  BY <1>1, <1>5, <1>8, <1>11 DEF SInv, Readers
<1>16. Kept(store, list, Exempt)'
  BY <1>1, <1>2, <1>5 DEF SInv, Kept
<1>17. Counted(store)'
  <2>1. Cardinality(Working("off")') = 0 /\ Cardinality(DieIds(store)') = 0
    BY <1>3, <1>8, <1>11, FS_EmptySet
  <2>. QED
    BY <1>4, <1>5, <2>1 DEF Counted
<1>18. SInv(store, list, Exempt)'
  BY <1>1, <1>5, <1>12, <1>13, <1>14, <1>15, <1>16, <1>17 DEF SInv
<1>19. CallInv'
  BY <1>1, <1>5, <1>11 DEF IInv, CallInv, NoDie, NoCall, Indices
<1>. QED
  BY <1>2, <1>18, <1>19 DEF IInv

\* What a call that begins finds.
LEMMA Beginning ==
  ASSUME IInv, call.op = "none"
  PROVE  /\ call = NoCall /\ Exempt = {} /\ SInv(store, list, {}) /\ NoDie(store)
         /\ DOMAIN list = Indices /\ store.len \in 0 .. MaxLen /\ Indices \subseteq Blocks
<1>1. call = NoCall
  BY CallFacts DEF IInv, CallInv
<1>2. Exempt = {}
  BY <1>1 DEF Exempt, NoCall
<1>3. SInv(store, list, {}) /\ NoDie(store) /\ DOMAIN list = Indices
  BY <1>1, <1>2 DEF IInv, CallInv, NoCall
<1>4. store.len \in 0 .. MaxLen
  BY <1>3 DEF SInv, Stores
<1>5. MaxLen \in Nat
  BY SshAssumption
<1>6. Indices \subseteq Blocks
  BY <1>4, <1>5 DEF Indices, Blocks
<1>. QED
  BY <1>1, <1>2, <1>3, <1>4, <1>6

\* prefetch().
LEMMA PrefetchKeeps ==
  ASSUME IInv, NEW q \in Batches, Prefetch(q)
  PROVE  IInv' /\ Rest(store, store')
<1>1. /\ call = NoCall /\ Exempt = {} /\ SInv(store, list, {}) /\ NoDie(store)
      /\ DOMAIN list = Indices /\ store.nthreads > 0
  BY Beginning DEF Prefetch, Running
<1>2. PICK m : m = Prefetched(store, q)
  OBVIOUS
<1>3. store' = m /\ UNCHANGED <<file, copier, list, call>>
  BY <1>2 DEF Prefetch, Start
<1>4. PICK L \in 0 .. BufSize : q \in [1 .. L -> Indices] /\ q # << >>
  BY DEF Batches, SeqOf
<1>5. L # 0
  <2>1. L = 0 => q = << >>
    BY <1>4
  <2>. QED
    BY <1>4, <2>1
<1>6. L \in Nat \ {0} /\ DOMAIN q = 1 .. L /\ \A n \in 1 .. L : q[n] \in DOMAIN list
  BY <1>1, <1>4, <1>5, SshAssumption
<1>7. SInv(m, list, {}) /\ Rest(store, m) /\ NoDie(m)
  BY <1>1, <1>2, <1>6, PrefetchedKeeps
<1>8. Exempt' = {} /\ list' = list
  BY <1>1, <1>3 DEF Exempt, NoCall
<1>9. SInv(store, list, Exempt)' /\ NoDie(store)'
  BY <1>3, <1>7, <1>8, CallerStep
<1>10. CallInv'
  BY <1>1, <1>3, <1>7, <1>9 DEF CallInv, Calls, NoCall, Indices, Rest
<1>. QED
  BY <1>3, <1>7, <1>9, <1>10 DEF IInv

\* __getitem__, up to where it waits.
LEMMA GetKeeps ==
  ASSUME IInv, NEW i \in Indices, Get(i)
  PROVE  IInv' /\ Rest(store, store')
<1>1. /\ call = NoCall /\ Exempt = {} /\ SInv(store, list, {}) /\ NoDie(store)
      /\ DOMAIN list = Indices /\ store.nthreads > 0 /\ i \in Blocks
  BY Beginning DEF Get, Running
<1>2. PICK q, m : q = <<i>> /\ m = Prefetched(store, q)
  OBVIOUS
<1>3. store' = m /\ call' = [op |-> "get", ind |-> i] /\ UNCHANGED <<file, copier, list>>
  BY <1>2 DEF Get, Start
<1>4. PICK L \in Nat \ {0} :
          DOMAIN q = 1 .. L /\ q[L] = i /\ \A n \in 1 .. L : q[n] \in DOMAIN list
  <2>1. DOMAIN q = 1 .. 1 /\ q[1] = i
    BY <1>2
  <2>2. \A n \in 1 .. 1 : n = 1
    OBVIOUS
  <2>. QED
    BY <1>1, <2>1, <2>2
<1>5. SInv(m, list, {}) /\ Rest(store, m) /\ NoDie(m) /\ i \in DOMAIN m.buffer
  <2>1. SInv(m, list, {}) /\ Rest(store, m) /\ NoDie(m) /\ q[L] \in DOMAIN m.buffer
    BY <1>1, <1>2, <1>4, PrefetchedKeeps
  <2>. QED
    BY <1>4, <2>1
<1>6. Exempt' = {} /\ list' = list
  BY <1>3 DEF Exempt
<1>7. SInv(store, list, Exempt)' /\ NoDie(store)'
  BY <1>3, <1>5, <1>6, CallerStep
<1>8. call' \in Calls /\ call'.op = "get" /\ call'.ind = i
  BY <1>1, <1>3 DEF Calls
<1>9. CallInv'
  <2>1. call' # NoCall
    BY <1>8 DEF NoCall
  <2>. QED
    BY <1>1, <1>3, <1>5, <1>7, <1>8, <2>1 DEF CallInv, Indices, Rest
<1>. QED
  BY <1>3, <1>5, <1>7, <1>9 DEF IInv

\* _clear_pending, up to where it waits.
LEMMA ClearKeeps ==
  ASSUME NEW s, NEW l, SInv(s, l, {}), NoDie(s), NEW i, NEW m, m = Unread(s, i)
  PROVE  SInv(m, l, {i}) /\ Rest(s, m) /\ NoDie(m)
<1>1. PICK y : y = Sync(s)
  OBVIOUS
<1>2. SInv(y, l, {}) /\ Rest(s, y) /\ NoDie(y)
  BY <1>1, SyncKeeps DEF Rest
<1>3. m = [y EXCEPT !.pendReads = Without(@, {i})]
  BY <1>1 DEF Unread
<1>4. SInv(m, l, {i}) /\ Rest(y, m) /\ NoDie(m)
  BY <1>2, <1>3, UnreadKeeps
<1>. QED
  BY <1>2, <1>4 DEF Rest

\* __setitem__, up to where it waits.
LEMMA SetStartKeeps ==
  ASSUME IInv, NEW i \in Indices, NEW v \in Values, Set(i, v)
  PROVE  IInv' /\ Rest(store, store')
<1>1. /\ call = NoCall /\ SInv(store, list, {}) /\ NoDie(store)
      /\ DOMAIN list = Indices /\ store.nthreads > 0 /\ i \in Blocks
  BY Beginning DEF Set, Running
<1>2. PICK m : m = Unread(store, i)
  OBVIOUS
<1>3. /\ store' = m /\ call' = [op |-> "set", ind |-> i, val |-> v]
      /\ UNCHANGED <<file, copier, list>>
  BY <1>2 DEF Set, Start
<1>4. SInv(m, list, {i}) /\ Rest(store, m) /\ NoDie(m)
  BY <1>1, <1>2, ClearKeeps
<1>5. call' \in Calls /\ call'.op = "set" /\ call'.ind = i /\ Exempt' = {i} /\ list' = list
  BY <1>1, <1>3 DEF Calls, Exempt
<1>6. SInv(store, list, Exempt)' /\ NoDie(store)'
  BY <1>3, <1>4, <1>5, CallerStep
<1>7. CallInv'
  <2>1. call' # NoCall
    BY <1>5 DEF NoCall
  <2>. QED
    BY <1>1, <1>3, <1>4, <1>5, <1>6, <2>1 DEF CallInv, Indices, Rest
<1>. QED
  BY <1>3, <1>4, <1>6, <1>7 DEF IInv

\* insert(), up to where it waits.
LEMMA InsertKeeps ==
  ASSUME IInv, NEW v \in Values, Insert(v)
  PROVE  IInv'
<1>1. /\ call = NoCall /\ SInv(store, list, {}) /\ NoDie(store)
      /\ DOMAIN list = Indices /\ store.nthreads > 0 /\ store.len < MaxLen
      /\ store.len \in 0 .. MaxLen
  BY Beginning DEF Insert, Running
<1>2. PICK n \in Nat : n = store.len
  BY <1>1
<1>3. n \in Blocks /\ n + 1 \in 0 .. MaxLen
  BY <1>1, <1>2, SshAssumption DEF Blocks
<1>4. PICK s : s = [store EXCEPT !.len = @ + 1]
  OBVIOUS
<1>5. /\ s \in Stores /\ s.len = n + 1 /\ s.nthreads = store.nthreads
      /\ s.taskq = store.taskq /\ s.resq = store.resq
      /\ s.buffer = store.buffer /\ s.order = store.order
      /\ s.pendReads = store.pendReads /\ s.pendWrites = store.pendWrites
  BY <1>1, <1>2, <1>3, <1>4 DEF SInv, Stores
<1>6. /\ Outstanding(s) = Outstanding(store) /\ Done(s) = Done(store) /\ DieIds(s) = DieIds(store)
      /\ OneIdEach(s)
  BY <1>1, <1>5, SameTasks DEF SInv
<1>7. SInv(s, list, {})
  <2>1. Ordered(s)
    BY <1>1, <1>5 DEF SInv, Ordered
  <2>2. Writers(s, list)
    BY <1>1, <1>5, <1>6 DEF SInv, Writers
  <2>3. Readers(s, list)
    BY <1>1, <1>5, <1>6 DEF SInv, Readers
  <2>4. Kept(s, list, {})
    BY <1>1, <1>5 DEF SInv, Kept
  <2>5. Counted(s)
    BY <1>1, <1>5, <1>6 DEF SInv, Counted
  <2>. QED
    BY <1>1, <1>5, <1>6, <2>1, <2>2, <2>3, <2>4, <2>5 DEF SInv
<1>8. NoDie(s)
  BY <1>1, <1>6 DEF NoDie
<1>9. PICK m : m = Unread(s, n)
  OBVIOUS
<1>10. /\ store' = m /\ call' = [op |-> "set", ind |-> n, val |-> v]
       /\ UNCHANGED <<file, copier, list>>
  BY <1>2, <1>4, <1>9 DEF Insert, Start
<1>11. SInv(m, list, {n}) /\ Rest(s, m) /\ NoDie(m)
  BY <1>7, <1>8, <1>9, ClearKeeps
<1>12. call' \in Calls /\ call'.op = "set" /\ call'.ind = n /\ Exempt' = {n} /\ list' = list
  BY <1>3, <1>10 DEF Calls, Exempt
<1>13. SInv(store, list, Exempt)' /\ NoDie(store)'
  BY <1>10, <1>11, <1>12, CallerStep
<1>14. call'.ind = store'.len - 1 /\ DOMAIN list' = 0 .. store'.len - 2 /\ store'.nthreads > 0
  <2>1. store'.len = n + 1 /\ store'.nthreads > 0
    BY <1>1, <1>5, <1>10, <1>11 DEF Rest
  <2>2. DOMAIN list' = 0 .. n - 1
    BY <1>1, <1>2, <1>12 DEF Indices
  <2>. QED
    BY <1>12, <2>1, <2>2
<1>15. CallInv'
  <2>1. call' # NoCall
    BY <1>12 DEF NoCall
  <2>. QED
    BY <1>12, <1>13, <1>14, <2>1 DEF CallInv
<1>. QED
  BY <1>13, <1>15 DEF IInv

\* __delitem__, up to where it waits.
LEMMA DeleteStartKeeps ==
  ASSUME IInv, Delete
  PROVE  IInv' /\ Rest(store, store')
<1>1. /\ call = NoCall /\ SInv(store, list, {}) /\ NoDie(store)
      /\ DOMAIN list = Indices /\ store.nthreads > 0 /\ store.len > 0
      /\ store.len \in 0 .. MaxLen
  BY Beginning DEF Delete, Running
<1>2. PICK i : i = store.len - 1
  OBVIOUS
<1>3. i \in Blocks
  BY <1>1, <1>2, SshAssumption DEF Blocks
<1>4. PICK m : m = Unread(store, i)
  OBVIOUS
<1>5. store' = m /\ call' = [op |-> "del", ind |-> i] /\ UNCHANGED <<file, copier, list>>
  BY <1>2, <1>4 DEF Delete, Start
<1>6. SInv(m, list, {i}) /\ Rest(store, m) /\ NoDie(m)
  BY <1>1, <1>4, ClearKeeps
<1>7. call' \in Calls /\ call'.op = "del" /\ call'.ind = i /\ Exempt' = {i} /\ list' = list
  BY <1>3, <1>5 DEF Calls, Exempt
<1>8. SInv(store, list, Exempt)' /\ NoDie(store)'
  BY <1>5, <1>6, <1>7, CallerStep
<1>9. CallInv'
  <2>1. call' # NoCall
    BY <1>7 DEF NoCall
  <2>. QED
    BY <1>1, <1>2, <1>5, <1>6, <1>7, <1>8, <2>1 DEF CallInv, Indices, Rest
<1>. QED
  BY <1>5, <1>6, <1>8, <1>9 DEF IInv

\* flush().
LEMMA FlushKeeps ==
  ASSUME IInv, Flush
  PROVE  IInv' /\ Rest(store, store')
<1>1. /\ call = NoCall /\ SInv(store, list, {}) /\ NoDie(store)
      /\ DOMAIN list = Indices /\ store.nthreads > 0
  BY Beginning DEF Flush, Running
<1>2. PICK m : m = Flushed(store)
  OBVIOUS
<1>3. store' = m /\ UNCHANGED <<file, copier, list, call>>
  BY <1>2 DEF Flush, Start
<1>4. SInv(m, list, {}) /\ Rest(store, m) /\ NoDie(m)
  BY <1>1, <1>2, FlushedKeeps
<1>5. Exempt' = {} /\ list' = list
  BY <1>1, <1>3 DEF Exempt, NoCall
<1>6. SInv(store, list, Exempt)' /\ NoDie(store)'
  BY <1>3, <1>4, <1>5, CallerStep
<1>7. CallInv'
  BY <1>1, <1>3, <1>4, <1>6 DEF CallInv, Calls, NoCall, Indices, Rest
<1>. QED
  BY <1>3, <1>4, <1>6, <1>7 DEF IInv

\* __getstate__, up to _complete_tasks.
LEMMA PickleKeeps ==
  ASSUME IInv, Pickle
  PROVE  IInv' /\ Rest(store, store')
<1>1. /\ call = NoCall /\ SInv(store, list, {}) /\ NoDie(store) /\ DOMAIN list = Indices
  BY Beginning DEF Pickle, Running
<1>2. PICK m : m = Flushed(store)
  OBVIOUS
<1>3. store' = m /\ call' = [op |-> "pickle", step |-> "check"] /\ UNCHANGED <<file, copier, list>>
  BY <1>2 DEF Pickle, Start
<1>4. SInv(m, list, {}) /\ Rest(store, m) /\ NoDie(m) /\ AllPending(m)
  BY <1>1, <1>2, FlushedKeeps
<1>5. call' \in Calls /\ call'.op = "pickle" /\ Exempt' = {} /\ list' = list
  BY <1>3 DEF Calls, Exempt
<1>6. SInv(store, list, Exempt)' /\ NoDie(store)'
  BY <1>3, <1>4, <1>5, CallerStep
<1>7. CallInv'
  <2>1. call' # NoCall
    BY <1>5 DEF NoCall
  <2>. QED
    BY <1>1, <1>3, <1>4, <1>5, <1>6, <2>1 DEF CallInv, Indices, Rest, AllPending
<1>. QED
  BY <1>3, <1>4, <1>6, <1>7 DEF IInv

\* close(), up to _complete_tasks.
LEMMA CloseKeeps ==
  ASSUME IInv, Close
  PROVE  IInv' /\ Rest(store, store')
<1>1. /\ call = NoCall /\ SInv(store, list, {}) /\ NoDie(store) /\ DOMAIN list = Indices
      /\ store.nthreads > 0
  BY Beginning DEF Close, Running
<1>2. PICK k \in Nat : k = store.nthreads
  BY <1>1 DEF SInv, Stores
<1>3. PICK s, m : s = Flushed(store) /\ m = FoldLeft(Die, s, [n \in 1 .. k |-> n])
  OBVIOUS
<1>4. store' = m /\ call' = [op |-> "close", step |-> "check"] /\ UNCHANGED <<file, copier, list>>
  BY <1>2, <1>3 DEF Close, Start
<1>5. SInv(s, list, {}) /\ Rest(store, s) /\ AllPending(s)
  BY <1>1, <1>3, FlushedKeeps
<1>6. SInv(m, list, {}) /\ Rest(s, m) /\ AllPending(m)
  BY <1>3, <1>5, DiesKeep
<1>7. call' \in Calls /\ call'.op = "close" /\ Exempt' = {} /\ list' = list
  BY <1>4 DEF Calls, Exempt
<1>8. SInv(store, list, Exempt)'
  BY <1>4, <1>6, <1>7, CallerStep
<1>9. CallInv'
  <2>1. call' # NoCall
    BY <1>7 DEF NoCall
  <2>. QED
    BY <1>1, <1>4, <1>5, <1>6, <1>7, <2>1 DEF CallInv, Indices, Rest, AllPending
<1>. QED
  BY <1>4, <1>5, <1>6, <1>8, <1>9 DEF IInv, Rest

-----------------------------------------------------------------------------
\* A call that waits takes an answer.
LEMMA AwaitKeeps ==
  ASSUME IInv, Await
  PROVE  IInv' /\ store'.len = store.len
<1>1. /\ SInv(store, list, Exempt) /\ store.resq # << >> /\ UNCHANGED <<file, copier, call, list>>
      /\ call.op \in {"get", "set", "del"} /\ store \in Stores /\ Ordered(store)
  BY DEF IInv, SInv, Await, Waiting
<1>2. PICK m : m = ProcessFirst(store)
  OBVIOUS
<1>3. store' = m
  BY <1>2 DEF Await
<1>4. SInv(m, list, Exempt) /\ Answering(store, m)
  BY <1>1, <1>2, AnswerKeeps
<1>5. Exempt' = Exempt /\ list' = list
  BY <1>1 DEF Exempt
<1>6. SInv(store, list, Exempt)' /\ (NoDie(m) => NoDie(store)')
  BY <1>1, <1>3, <1>4, <1>5, CallerStep
<1>7. NoDie(store) => NoDie(store)'
  BY <1>4, <1>6 DEF Answering
<1>8. call.op = "get" => call.ind \in DOMAIN m.buffer
  <2>1. CASE call.op = "get"
    <3>1. call.ind \in DOMAIN store.pendReads
      BY <2>1 DEF Await, Waiting
    <3>2. call.ind \in DOMAIN store.buffer \ DOMAIN store.pendWrites
      BY <1>1, <3>1 DEF Ordered
    <3>. QED
      BY <1>4, <3>2 DEF Answering
  <2>. QED
    BY <2>1
<1>9. CallInv'
  BY <1>1, <1>3, <1>4, <1>7, <1>8 DEF IInv, CallInv, Answering, Indices, NoCall
<1>. QED
  BY <1>3, <1>4, <1>6, <1>9 DEF IInv, Answering

\* __getitem__ returns.
LEMMA GetDoneKeeps ==
  ASSUME IInv, GetDone
  PROVE  IInv' /\ store' = store
<1>1. /\ call.op = "get" /\ call' = NoCall /\ store' = store /\ UNCHANGED <<file, copier, list>>
      /\ SInv(store, list, Exempt) /\ NoDie(store)
  BY DEF IInv, CallInv, GetDone, Start
<1>2. Exempt = {} /\ Exempt' = {}
  BY <1>1 DEF Exempt, NoCall
<1>3. SInv(store, list, Exempt)' /\ NoDie(store)'
  BY <1>1, <1>2, CallerStep
<1>4. CallInv'
  BY <1>1, <1>3 DEF IInv, CallInv, Calls, NoCall, Indices
<1>. QED
  BY <1>1, <1>3, <1>4 DEF IInv

\* __setitem__ ends.
LEMMA SetDoneKeeps ==
  ASSUME IInv, SetDone
  PROVE  IInv' /\ Rest(store, store')
<1>1. /\ call.op = "set" /\ call.ind \in Blocks /\ call.val \in Values
      /\ call.ind \notin DOMAIN store.pendWrites /\ NoDie(store)
      /\ SInv(store, list, {call.ind}) /\ list \in Maps(Values)
  BY CallFacts DEF IInv, SInv, CallInv, SetDone, Waiting, Exempt
<1>2. PICK i \in Blocks, v \in Values : i = call.ind /\ v = call.val
  BY <1>1
<1>3. PICK s, m, l : /\ s = Buffered(store, i, v)
                     /\ m = HandleOverflow(s) /\ l = With(list, i, v)
  OBVIOUS
<1>4. store' = m /\ list' = l /\ call' = NoCall /\ UNCHANGED <<file, copier>>
  BY <1>2, <1>3 DEF SetDone, Buffered
<1>5. SInv(s, l, {}) /\ Rest(store, s) /\ NoDie(s)
  <2>1. SInv(store, list, {i}) /\ i \notin DOMAIN store.pendWrites
    BY <1>1, <1>2
  <2>2. SInv(s, With(list, i, v), {}) /\ Rest(store, s) /\ (NoDie(store) => NoDie(s))
    <3>1. s = Buffered(store, i, v)
      BY <1>3
    <3>. QED
      BY <2>1, <3>1, SetKeeps
  <2>. QED
    BY <1>1, <1>3, <2>2
<1>6. SInv(m, l, {}) /\ Rest(s, m) /\ NoDie(m)
  BY <1>3, <1>5, OverflowKeeps
<1>7. Exempt' = {}
  BY <1>4 DEF Exempt, NoCall
<1>8. SInv(store, list, Exempt)' /\ NoDie(store)'
  BY <1>4, <1>6, <1>7, CallerStep
<1>9. DOMAIN list' = Indices' /\ store'.nthreads > 0
  <2>1. DOMAIN list' = DOMAIN list \cup {i}
    BY <1>3, <1>4 DEF With
  <2>2. store'.len = store.len /\ store'.nthreads = store.nthreads
    BY <1>4, <1>5, <1>6 DEF Rest
  <2>3. PICK n \in Nat : n = store.len
    <3>1. store.len \in Nat
      BY <1>1 DEF SInv, Stores
    <3>. QED
      BY <3>1
  <2>4. (i \in 0 .. n - 1 /\ DOMAIN list = 0 .. n - 1) \/ (i = n - 1 /\ DOMAIN list = 0 .. n - 2)
    BY <1>1, <1>2, <2>3 DEF IInv, CallInv, Indices
  <2>5. i \in Nat
    BY DEF Blocks
  <2>6. DOMAIN list \cup {i} = 0 .. n - 1
    BY <2>4, <2>5
  <2>7. store.nthreads > 0
    BY <1>1 DEF IInv, CallInv
  <2>. QED
    BY <2>1, <2>2, <2>3, <2>6, <2>7 DEF Indices
<1>10. CallInv'
  BY <1>4, <1>8, <1>9 DEF CallInv, Calls, NoCall
<1>. QED
  BY <1>4, <1>5, <1>6, <1>8, <1>10 DEF IInv, Rest

\* __delitem__ ends.
LEMMA DeleteDoneKeeps ==
  ASSUME IInv, DeleteDone
  PROVE  IInv' /\ store'.len = store.len - 1 /\ store.len > 0
<1>1. /\ call.op = "del" /\ call.ind \in Blocks /\ call.ind = store.len - 1
      /\ call.ind \notin DOMAIN store.pendWrites /\ NoDie(store)
      /\ SInv(store, list, {call.ind}) /\ list \in Maps(Values) /\ store.nthreads > 0
      /\ DOMAIN list = Indices
  BY CallFacts DEF IInv, SInv, CallInv, DeleteDone, Waiting, Exempt
<1>2. PICK i \in Blocks : i = call.ind
  BY <1>1
<1>3. PICK n \in Nat : n = store.len
  BY <1>1 DEF SInv, Stores
<1>4. i = n - 1 /\ n = i + 1 /\ n > 0 /\ i \in Nat
  BY <1>1, <1>2, <1>3 DEF Blocks
<1>5. PICK m, l : m = Deleted(store, i) /\ l = Without(list, {i})
  OBVIOUS
<1>6. store' = m /\ list' = l /\ call' = NoCall /\ UNCHANGED <<file, copier>>
  BY <1>2, <1>5 DEF DeleteDone, Deleted
<1>7. SInv(m, l, {}) /\ m.len = i /\ m.nthreads = store.nthreads /\ NoDie(m)
  <2>1. SInv(store, list, {i}) /\ i \notin DOMAIN store.pendWrites /\ store.len = i + 1
    BY <1>1, <1>2, <1>3, <1>4
  <2>. QED
    BY <1>1, <1>5, <2>1, DeleteKeeps
<1>8. Exempt' = {}
  BY <1>6 DEF Exempt, NoCall
<1>9. SInv(store, list, Exempt)' /\ NoDie(store)'
  BY <1>6, <1>7, <1>8, CallerStep
<1>10. DOMAIN list' = Indices'
  <2>1. DOMAIN list' = DOMAIN list \ {i}
    BY <1>5, <1>6 DEF Without
  <2>2. (0 .. n - 1) \ {i} = 0 .. i - 1
    BY <1>4
  <2>. QED
    BY <1>1, <1>3, <1>6, <1>7, <2>1, <2>2 DEF Indices
<1>11. CallInv'
  BY <1>1, <1>6, <1>7, <1>9, <1>10 DEF CallInv, Calls, NoCall
<1>. QED
  BY <1>3, <1>4, <1>6, <1>7, <1>9, <1>11 DEF IInv

\* _complete_tasks.
LEMMA GoToFacts ==
  ASSUME call \in Calls, call.op \in {"pickle", "close"}, NEW step \in {"check", "join", "assert"}
  PROVE  GoTo(step) \in Calls /\ GoTo(step).op = call.op /\ GoTo(step).step = step
<1>1. call \in [op : {"pickle", "close"}, step : {"check", "join", "assert"}]
  BY CallFacts
<1>2. /\ GoTo(step) \in [op : {"pickle", "close"}, step : {"check", "join", "assert"}]
      /\ GoTo(step).op = call.op /\ GoTo(step).step = step
  BY <1>1 DEF GoTo
<1>. QED
  BY <1>2 DEF Calls

\* It looks at the queues,
LEMMA CheckQueuesKeeps ==
  ASSUME IInv, CheckQueues
  PROVE  IInv' /\ store' = store
<1>1. /\ call \in Calls /\ call.op \in {"pickle", "close"} /\ SInv(store, list, Exempt)
      /\ store' = store /\ UNCHANGED <<file, copier, list>>
  BY DEF IInv, CallInv, CheckQueues, Completing, Start
<1>2. PICK step \in {"check", "join", "assert"} : call' = GoTo(step)
  BY DEF CheckQueues, Start
<1>3. call' \in Calls /\ call'.op = call.op
  BY <1>1, <1>2, GoToFacts
<1>4. Exempt' = Exempt
  BY <1>1, <1>3 DEF Exempt
<1>5. SInv(store, list, Exempt)' /\ (NoDie(store) => NoDie(store)')
  BY <1>1, <1>4, CallerStep
<1>6. CallInv'
  <2>1. call' # NoCall
    BY <1>1, <1>3 DEF NoCall
  <2>. QED
    BY <1>1, <1>3, <1>5, <2>1 DEF IInv, CallInv, AllPending, Indices
<1>. QED
  BY <1>1, <1>5, <1>6 DEF IInv

\* waits for the task queue,
LEMMA JoinKeeps ==
  ASSUME IInv, Join
  PROVE  IInv' /\ store'.len = store.len
<1>1. /\ call \in Calls /\ call.op \in {"pickle", "close"} /\ SInv(store, list, Exempt)
      /\ UNCHANGED <<file, copier, list>> /\ call' = GoTo("assert") /\ AllPending(store)
  BY DEF IInv, CallInv, Join, Completing, Start
<1>2. PICK m : m = Sync(store)
  OBVIOUS
<1>3. store' = m
  BY <1>2 DEF Join, Start
<1>4. /\ SInv(m, list, Exempt) /\ (NoDie(store) => NoDie(m)) /\ AllPending(m)
      /\ m.len = store.len
  BY <1>1, <1>2, SyncKeeps
<1>5. call' \in Calls /\ call'.op = call.op
  BY <1>1, GoToFacts
<1>6. Exempt' = Exempt
  BY <1>1, <1>5 DEF Exempt
<1>7. SInv(store, list, Exempt)' /\ (NoDie(m) => NoDie(store)')
  BY <1>1, <1>3, <1>4, <1>6, CallerStep
<1>8. CallInv'
  <2>1. call' # NoCall
    BY <1>1, <1>5 DEF NoCall
  <2>. QED
    BY <1>1, <1>3, <1>4, <1>5, <1>7, <2>1 DEF IInv, CallInv, AllPending, Indices
<1>. QED
  BY <1>3, <1>4, <1>7, <1>8 DEF IInv

\* and asserts that nothing is pending.
LEMMA AssertCompleteKeeps ==
  ASSUME IInv, AssertComplete
  PROVE  IInv' /\ store' = store
<1>1. /\ call \in Calls /\ call.op \in {"pickle", "close"} /\ SInv(store, list, Exempt)
      /\ store' = store /\ UNCHANGED <<file, copier, list>> /\ AllPending(store)
      /\ DOMAIN list = Indices
  BY DEF IInv, CallInv, AssertComplete, Completing, Start
<1>2. Exempt = {} /\ Exempt' = {}
  BY <1>1 DEF AssertComplete, Start, Exempt, NoCall
<1>3. SInv(store, list, Exempt)' /\ (NoDie(store) => NoDie(store)')
  BY <1>1, <1>2, CallerStep
<1>4. CASE ~AllComplete
  <2>1. call' = [op |-> "failed"]
    BY <1>4 DEF AssertComplete, Start
  <2>2. CallInv'
    BY <1>1, <2>1 DEF CallInv, Calls, NoCall, Indices
  <2>. QED
    BY <1>1, <1>3, <2>2 DEF IInv
<1>5. CASE AllComplete
  <2>1. call' = NoCall
    BY <1>5 DEF AssertComplete, Start
  <2>2. DOMAIN store.buffer = {}
    BY <1>1, <1>5, EmptyMap DEF AllComplete, AllPending
  <2>3. call.op = "close" => NoDie(store)
    <3>1. CASE call.op = "close"
      <4>1. store.nthreads = 0 /\ Queued(store) = {} /\ Answered(store) = {}
        BY <1>5, <3>1, EmptyMap DEF AllComplete, Queued, Answered, ToSet
      <4>2. PICK n \in Nat : n = Cardinality(Copiers)
        BY SshAssumption, FS_CardinalityType
      <4>3. DieIds(store) = {} /\ Cardinality(DieIds(store)) = 0
        BY <4>1, FS_EmptySet DEF DieIds
      <4>4. Cardinality(Working("off")) = n /\ Working("off") \subseteq Copiers
        BY <1>1, <4>1, <4>2, <4>3 DEF SInv, Counted, Working
      <4>5. Working("off") = Copiers
        BY <4>2, <4>4, SshAssumption, FS_Subset
      <4>6. Outstanding(store) = {}
        BY <4>1, <4>5 DEF Outstanding, InHand, Taken, Working
      <4>. QED
        BY <4>6 DEF NoDie
    <3>. QED
      BY <3>1
  <2>4. NoDie(store)'
    BY <1>1, <1>3, <2>3 DEF IInv, CallInv
  <2>5. CallInv'
    BY <1>1, <2>1, <2>2, <2>4 DEF CallInv, Calls, NoCall, Indices
  <2>. QED
    BY <1>1, <1>3, <2>5 DEF IInv
<1>. QED
  BY <1>4, <1>5

-----------------------------------------------------------------------------
\* A step that changes nothing keeps the invariant.
LEMMA StutterKeeps ==
  ASSUME IInv, UNCHANGED vars
  PROVE  IInv'
<1>1. store' = store /\ list' = list /\ call' = call /\ UNCHANGED <<file, copier>>
  BY DEF vars
<1>2. Exempt' = Exempt /\ SInv(store, list, Exempt)
  BY <1>1 DEF Exempt, IInv
<1>3. SInv(store, list, Exempt)' /\ (NoDie(store) => NoDie(store)')
  BY <1>1, <1>2, CallerStep
<1>4. CallInv'
  BY <1>1, <1>3 DEF IInv, CallInv, AllPending, Indices
<1>. QED
  BY <1>3, <1>4 DEF IInv

\* So does every step of the store.
LEMMA StepKeeps ==
  ASSUME IInv, [Next]_vars
  PROVE  IInv'
<1>1. CASE UNCHANGED vars
  BY <1>1, StutterKeeps
<1>2. CASE Open
  BY <1>2, OpenKeeps
<1>3. CASE Delete
  BY <1>3, DeleteStartKeeps
<1>4. CASE Flush
  BY <1>4, FlushKeeps
<1>5. CASE Pickle
  BY <1>5, PickleKeeps
<1>6. CASE Close
  BY <1>6, CloseKeeps
<1>7. CASE Continue
  BY <1>7, AwaitKeeps, GetDoneKeeps, SetDoneKeeps, DeleteDoneKeeps, CheckQueuesKeeps, JoinKeeps,
     AssertCompleteKeeps DEF Continue
<1>8. CASE \E i \in Indices : Get(i)
  BY <1>8, GetKeeps
<1>9. CASE \E v \in Values : Insert(v) \/ \E i \in Indices : Set(i, v)
  <2>1. PICK v \in Values : Insert(v) \/ \E i \in Indices : Set(i, v)
    BY <1>9
  <2>. QED
    BY <2>1, InsertKeeps, SetStartKeeps
<1>10. CASE \E q \in Batches : Prefetch(q)
  BY <1>10, PrefetchKeeps
<1>11. CASE \E t \in Copiers : Copy(t)
  BY <1>11, CopyKeeps
<1>. QED
  BY <1>1, <1>2, <1>3, <1>4, <1>5, <1>6, <1>7, <1>8, <1>9, <1>10, <1>11 DEF Next

\* Whatever the caller calls and however the threads' steps fall in between,
\* the queues, the threads, the buffer and the files agree as IInv says.
THEOREM Invariant == Spec => []IInv
<1>1. Init => IInv
  BY InitKeeps
<1>2. IInv /\ [Next]_vars => IInv'
  BY StepKeeps
<1>. QED
  BY <1>1, <1>2, PTL DEF Spec

\* The types, the pending operations' entries and that none is a read and a
\* write.
THEOREM TypesAreRight == Spec => []TypeOK
<1>1. ASSUME IInv PROVE TypeOK
  <2>1. store \in Stores /\ file \in Maps(Contents) /\ Ordered(store) /\ Counted(store)
    BY <1>1 DEF IInv, SInv
  <2>2. store.nthreads \in 0 .. Cardinality(Copiers)
    <3>1. Working("off") \subseteq Copiers
      BY DEF Working
    <3>2. IsFiniteSet(Working("off")) /\ Cardinality(Working("off")) <= Cardinality(Copiers)
      BY <3>1, SshAssumption, FS_Subset, SMTT(30)
    <3>3. PICK a \in Nat, b \in Nat, n \in Nat, m \in Int :
              /\ a = Cardinality(DieIds(store)) /\ b = Cardinality(Working("off"))
              /\ n = Cardinality(Copiers) /\ m = store.nthreads
      BY <2>1, <3>2, SshAssumption, DieIdsFinite, FS_CardinalityType DEF Stores
    <3>4. m <= n /\ b = n - m + a /\ b <= n
      BY <2>1, <3>2, <3>3 DEF Counted
    <3>5. m \in 0 .. n
      BY <3>4
    <3>. QED
      BY <3>3, <3>5
  <2>3. DOMAIN file \subseteq 0 .. MaxLen - 1
    BY <2>1, MapFacts DEF Blocks
  <2>4. call = NoCall => DOMAIN list = Indices
    BY <1>1 DEF IInv, CallInv, NoCall
  <2>5. store.len \in 0 .. MaxLen
    BY <2>1 DEF Stores
  <2>. QED
    BY <2>1, <2>2, <2>3, <2>4, <2>5 DEF TypeOK, Ordered
<1>. QED
  BY <1>1, Invariant, PTL

\* No block is lost: its contents are in the buffer or complete in its file,
\* whatever is under way.
THEOREM NoBlockIsLost == Spec => []BlockIsSomewhere
<1>1. ASSUME IInv PROVE BlockIsSomewhere
  <2> SUFFICES ASSUME NEW i \in DOMAIN list, ~(call.op \in {"set", "del"} /\ call.ind = i)
               PROVE  IF i \in DOMAIN store.buffer \ DOMAIN store.pendReads
                      THEN store.buffer[i] = list[i]
                      ELSE i \in DOMAIN file /\ file[i] = list[i]
    BY DEF BlockIsSomewhere
  <2>1. i \in DOMAIN list \ Exempt
    BY DEF Exempt
  <2>. QED
    BY <1>1, <2>1 DEF IInv, SInv, Kept
<1>. QED
  BY <1>1, Invariant, PTL

\* No two threads have writes or deletes of one file in hand: only the write
\* that is pending is ever under way.
THEOREM WritersAreAlone == Spec => []OneWriterPerFile
<1>1. ASSUME IInv PROVE OneWriterPerFile
  <2> SUFFICES ASSUME NEW t \in Taken, NEW u \in Taken,
                      copier[t].task.cmd \in {"PUT", "DEL"}, copier[u].task.cmd \in {"PUT", "DEL"},
                      Ind(t) = Ind(u)
               PROVE  t = u
    BY DEF OneWriterPerFile
  <2>1. copier[t].task \in Outstanding(store) /\ copier[u].task \in Outstanding(store)
    BY DEF Outstanding, InHand
  <2>2. copier[t].task = copier[u].task
    BY <1>1, <2>1, OneWriter DEF IInv, Ind
  <2>. QED
    BY <1>1, <2>2 DEF IInv, SInv, OneIdEach
<1>. QED
  BY <1>1, Invariant, PTL

\* A thread that dies of a read has not got one that a call waits for.
THEOREM ReadsFindTheirFiles == Spec => []AwaitedReadsSucceed
<1>1. IInv => AwaitedReadsSucceed
  BY DEF IInv, SInv, Readers, AwaitedReadsSucceed
<1>. QED
  BY <1>1, Invariant, PTL

\* close() leaves the list in the files and the threads at an end.
THEOREM CloseStores == Spec => []ClosedIsStored
<1>1. ASSUME IInv PROVE ClosedIsStored
  <2> SUFFICES ASSUME call = NoCall, store.nthreads = 0
               PROVE  file = list /\ \A t \in Copiers : copier[t] = Off
    BY DEF ClosedIsStored
  <2>1. SInv(store, list, {}) /\ NoDie(store) /\ DOMAIN store.buffer = {}
    BY <1>1 DEF IInv, CallInv, NoCall, Exempt
  <2>2. \A t \in Copiers : copier[t] = Off
    BY <2>1, AllOff
  <2>3. DOMAIN store.pendWrites = {}
    BY <2>1 DEF SInv, Ordered
  <2>4. /\ file \in Maps(Contents) /\ list \in Maps(Values)
        /\ DOMAIN file \subseteq DOMAIN list
        /\ \A i \in DOMAIN list : i \in DOMAIN file /\ file[i] = list[i]
    BY <2>1, <2>3 DEF SInv, Kept
  <2>5. DOMAIN file = DOMAIN list /\ \A i \in DOMAIN file : file[i] = list[i]
    BY <2>4
  <2>6. file = list
    BY <2>4, <2>5, MapsEqual
  <2>. QED
    BY <2>2, <2>6
<1>. QED
  BY <1>1, Invariant, PTL

-----------------------------------------------------------------------------
\* The length and the answer that the calls of the list have.
Length == IF call.op = "set" THEN Cardinality(DOMAIN list) ELSE store.len
Reply  == IF call.op = "get" /\ ~Waiting THEN <<call.ind, store.buffer[call.ind]>> ELSE << >>

Described ==
    /\ Length \in Nat /\ Length = Cardinality(DOMAIN list) /\ DOMAIN list = 0 .. Length - 1
    /\ call.op = "get" /\ ~Waiting => call.ind \in 0 .. Length - 1 /\ Reply = <<call.ind, list[call.ind]>>

\* Length and answer are those of a list, and have their types.
LEMMA IsDescribed == IInv => Described
<1> SUFFICES ASSUME IInv PROVE Described
  OBVIOUS
<1>1. PICK n \in Nat : n = store.len
  BY DEF IInv, SInv, Stores
<1>2. Cardinality(0 .. n - 1) = n
  BY FS_Interval
<1>3. CASE call.op # "set"
  <2>1. DOMAIN list = 0 .. n - 1 /\ Length = n
    BY <1>1, <1>3 DEF IInv, CallInv, Indices, Length
  <2>2. ASSUME call.op = "get", ~Waiting
        PROVE  call.ind \in 0 .. Length - 1 /\ Reply = <<call.ind, list[call.ind]>>
    <3>1. call.ind \in DOMAIN store.buffer \cap DOMAIN list /\ Exempt = {}
      BY <2>2 DEF IInv, CallInv, Exempt
    <3>2. call.ind \notin DOMAIN store.pendReads
      BY <2>2 DEF Waiting
    <3>3. store.buffer[call.ind] = list[call.ind]
      BY <3>1, <3>2 DEF IInv, SInv, Kept
    <3>. QED
      BY <2>1, <2>2, <3>1, <3>3 DEF Reply
  <2>. QED
    BY <1>2, <2>1, <2>2 DEF Described
<1>4. CASE call.op = "set"
  <2>1. \/ DOMAIN list = 0 .. n - 1
        \/ call.ind = n - 1 /\ DOMAIN list = 0 .. n - 2
    BY <1>1, <1>4 DEF IInv, CallInv, Indices
  <2>2. call.ind \in Nat
    BY <1>4, CallFacts DEF IInv, CallInv, Blocks
  <2>3. PICK m \in Nat : DOMAIN list = 0 .. m - 1
    <3>1. CASE DOMAIN list = 0 .. n - 1
      BY <3>1
    <3>2. CASE call.ind = n - 1 /\ DOMAIN list = 0 .. n - 2
      <4>1. n - 1 \in Nat /\ (n - 1) - 1 = n - 2
        BY <2>2, <3>2
      <4>. QED
        BY <3>2, <4>1
    <3>. QED
      BY <2>1, <3>1, <3>2
  <2>4. Cardinality(0 .. m - 1) = m
    BY FS_Interval
  <2>. QED
    BY <1>4, <2>3, <2>4 DEF Described, Length
<1>. QED
  BY <1>3, <1>4

\* What changes neither the list nor what a get has read is no call of the list.
LEMMA StepIsSilent ==
  ASSUME Described, Described', list' = list, Reply' = Reply
  PROVE  UNCHANGED AsList!fvars
<1>1. Length' = Length
  BY DEF Described
<1>. QED
  BY <1>1 DEF AsList!fvars, Length, Reply

\* A get that has what it waited for reads the list.
LEMMA GetIsAnswered ==
  ASSUME Described, Described', list' = list, Reply = << >>, call'.op = "get"
  PROVE  [AsList!Next]_(AsList!fvars)
<1>1. CASE Waiting'
  <2>1. Reply' = Reply
    BY <1>1 DEF Reply
  <2>. QED
    BY <2>1, StepIsSilent
<1>2. CASE ~Waiting'
  <2>1. Length' = Length
    BY DEF Described
  <2>2. call'.ind \in 0 .. Length - 1 /\ Reply' = <<call'.ind, list[call'.ind]>>
    BY <1>2, <2>1 DEF Described
  <2>3. AsList!Get(call'.ind)
    BY <2>1, <2>2 DEF AsList!Get, Length, Reply
  <2>4. \E i \in 0 .. Length - 1 : AsList!Get(i)
    BY <2>2, <2>3
  <2>. QED
    BY <2>4 DEF AsList!Next, Length
<1>. QED
  BY <1>1, <1>2

\* Every step is a call of the list taking effect, or none.
LEMMA StepIsOfList ==
  ASSUME IInv, Described, IInv', Described', [Next]_vars
  PROVE  [AsList!Next]_(AsList!fvars)
<1>1. ASSUME call.op # "get", call'.op # "get", list' = list
      PROVE  [AsList!Next]_(AsList!fvars)
  <2>1. Reply' = Reply
    BY <1>1 DEF Reply
  <2>. QED
    BY <1>1, <2>1, StepIsSilent
<1>2. CASE UNCHANGED vars
  <2>1. Reply' = Reply /\ list' = list
    BY <1>2 DEF vars, Reply, Waiting
  <2>. QED
    BY <2>1, StepIsSilent
<1>3. CASE Open \/ Flush \/ (\E q \in Batches : Prefetch(q))
  <2>1. call.op = "none" /\ call' = call /\ list' = list
    BY <1>3 DEF Open, Flush, Prefetch, Running, Start
  <2>. QED
    BY <1>1, <2>1
<1>4. CASE Delete \/ Pickle \/ Close
  <2>1. call.op = "none" /\ call'.op # "get" /\ list' = list
    BY <1>4 DEF Delete, Pickle, Close, Running, Start
  <2>. QED
    BY <1>1, <2>1
<1>5. CASE \E v \in Values : Insert(v) \/ \E i \in Indices : Set(i, v)
  <2>1. PICK v \in Values : Insert(v) \/ \E i \in Indices : Set(i, v)
    BY <1>5
  <2>2. CASE Insert(v)
    <3>1. call.op = "none" /\ call' = [op |-> "set", ind |-> store.len, val |-> v] /\ list' = list
      BY <2>2 DEF Insert, Running, Start
    <3>. QED
      BY <1>1, <3>1
  <2>3. CASE \E i \in Indices : Set(i, v)
    <3>1. PICK i \in Indices : Set(i, v)
      BY <2>3
    <3>2. call.op = "none" /\ call' = [op |-> "set", ind |-> i, val |-> v] /\ list' = list
      BY <3>1 DEF Set, Running, Start
    <3>. QED
      BY <1>1, <3>2
  <2>. QED
    BY <2>1, <2>2, <2>3
<1>6. CASE \E i \in Indices : Get(i)
  <2>1. call.op = "none" /\ call'.op = "get" /\ list' = list
    BY <1>6 DEF Get, Running, Start
  <2>2. Reply = << >>
    BY <2>1 DEF Reply
  <2>. QED
    BY <2>1, <2>2, GetIsAnswered
<1>7. CASE CheckQueues \/ Join \/ AssertComplete
  <2>1. call.op \in {"close", "pickle"} /\ list' = list
    BY <1>7 DEF CheckQueues, Join, AssertComplete, Completing, Start
  <2>2. call'.op # "get"
    <3>1. CASE CheckQueues \/ Join
      <4>1. PICK step \in {"check", "join", "assert"} : call' = GoTo(step)
        BY <3>1 DEF CheckQueues, Join, Start
      <4>2. call'.op = call.op
        BY <2>1, <4>1, GoToFacts DEF IInv, CallInv
      <4>. QED
        BY <2>1, <4>2
    <3>2. CASE AssertComplete
      BY <3>2 DEF AssertComplete, Start, NoCall
    <3>. QED
      BY <1>7, <3>1, <3>2
  <2>. QED
    BY <1>1, <2>1, <2>2
<1>8. CASE Await
  <2>1. call' = call /\ list' = list /\ call.op \in {"get", "set", "del"}
    BY <1>8 DEF Await, Waiting
  <2>2. CASE call.op = "get"
    <3>1. Reply = << >>
      BY <1>8 DEF Await, Reply
    <3>. QED
      BY <2>1, <2>2, <3>1, GetIsAnswered
  <2>3. CASE call.op # "get"
    BY <1>1, <2>1, <2>3
  <2>. QED
    BY <2>2, <2>3
<1>9. CASE GetDone
  <2>1. call.op = "get" /\ call'.op = "none" /\ list' = list
    BY <1>9 DEF GetDone, Start, NoCall
  <2>2. Reply' = << >> /\ Length' = Length
    BY <2>1 DEF Reply, Described
  <2>3. AsList!Got
    BY <2>1, <2>2 DEF AsList!Got, AsList!NoAnswer, Reply, Length
  <2>. QED
    BY <2>3 DEF AsList!Next
<1>10. CASE SetDone
  <2>1. /\ call.op = "set" /\ call'.op = "none" /\ call.val \in Values
        /\ list' = With(list, call.ind, call.val)
    BY <1>10, CallFacts DEF SetDone, NoCall, IInv, CallInv
  <2>2. PICK i, v : i = call.ind /\ v = call.val /\ v \in Values
    BY <2>1
  <2>3. Reply' = Reply /\ list' = AsList!With(list, i, v) /\ DOMAIN list' = DOMAIN list \cup {i}
    BY <2>1, <2>2 DEF Reply, With, AsList!With
  <2>4. Length' = store'.len /\ store'.len = store.len
    BY <1>10, <2>1, SetDoneKeeps DEF Length, Rest
  <2>5. PICK n \in Nat : n = store.len /\ n = Length'
    BY <2>4 DEF Described
  <2>6. CASE i \in Indices /\ DOMAIN list = Indices
    <3>1. Length' = Length
      <4>1. DOMAIN list' = DOMAIN list
        BY <2>3, <2>6
      <4>. QED
        BY <4>1 DEF Described
    <3>2. i \in 0 .. Length - 1
      BY <2>6 DEF Described
    <3>3. AsList!Set(i, v)
      BY <2>3, <3>1, <3>2 DEF AsList!Set, Length, Reply
    <3>4. \E w \in Values : \E j \in 0 .. Length - 1 : AsList!Set(j, w)
      BY <2>2, <3>2, <3>3
    <3>. QED
      BY <3>4 DEF AsList!Next, Length
  <2>7. CASE i = n - 1 /\ DOMAIN list = 0 .. n - 2
    <3>1. i \in Nat
      BY <2>1, <2>2, CallFacts DEF IInv, CallInv, Blocks
    <3>2. Length = i
      <4>1. Cardinality(0 .. i - 1) = i /\ i - 1 = n - 2
        BY <2>7, <3>1, FS_Interval
      <4>. QED
        BY <2>7, <4>1 DEF Described
    <3>3. Length' = Length + 1
      <4>1. n = i + 1
        BY <2>7, <3>1
      <4>. QED
        BY <2>5, <3>2, <4>1
    <3>4. AsList!Insert(v)
      BY <2>3, <3>2, <3>3 DEF AsList!Insert, Length, Reply
    <3>5. \E w \in Values : AsList!Insert(w)
      BY <2>2, <3>4
    <3>. QED
      BY <3>5 DEF AsList!Next
  <2>8. (i \in Indices /\ DOMAIN list = Indices) \/ (i = n - 1 /\ DOMAIN list = 0 .. n - 2)
    BY <2>1, <2>2, <2>5 DEF IInv, CallInv
  <2>. QED
    BY <2>6, <2>7, <2>8
<1>11. CASE DeleteDone
  <2>1. /\ call.op = "del" /\ call'.op = "none" /\ list' = Without(list, {call.ind})
        /\ call.ind = store.len - 1
    BY <1>11 DEF DeleteDone, NoCall, IInv, CallInv
  <2>2. Length = store.len /\ Length' = store'.len /\ Reply' = Reply
    BY <2>1 DEF Length, Reply
  <2>3. store'.len = store.len - 1 /\ store.len > 0
    BY <1>11, DeleteDoneKeeps
  <2>4. list' = [i \in DOMAIN list \ {Length - 1} |-> list[i]]
    BY <2>1, <2>2 DEF Without
  <2>5. Length > 0 /\ Length' = Length - 1
    BY <2>2, <2>3
  <2>6. AsList!Delete
    BY <2>2, <2>4, <2>5 DEF AsList!Delete, Length, Reply
  <2>. QED
    BY <2>6 DEF AsList!Next
<1>12. CASE \E t \in Copiers : Copy(t)
  <2>1. Copying
    BY <1>12, CopyKeeps
  <2>2. Reply' = Reply /\ list' = list
    BY <2>1 DEF Copying, Reply, Waiting
  <2>. QED
    BY <2>2, StepIsSilent
<1>. QED
  BY <1>2, <1>3, <1>4, <1>5, <1>6, <1>7, <1>8, <1>9, <1>10, <1>11, <1>12 DEF Next, Continue

\* Every call is one of the plain list: the threads, the buffer and the order in
\* which answers come are not seen, and a get of index i that has what it waited
\* for has the contents of block i in the list, whichever reads were abandoned,
\* writes queued and files half written meanwhile.
THEOREM Refinement == Spec => ImplementsFileStore
<1>1. Init => AsList!Init
  BY DEF Init, Closed, NoCall, AsList!Init, AsList!NoAnswer
<1>2. IInv /\ Described /\ IInv' /\ Described' /\ [Next]_vars => [AsList!Next]_(AsList!fvars)
  BY StepIsOfList
<1>. QED
  BY Invariant, IsDescribed, <1>1, <1>2, PTL DEF Spec, ImplementsFileStore, AsList!Spec
=============================================================================
