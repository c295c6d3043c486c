------------------------------ MODULE MinHeap -------------------------------
(***************************************************************************)
(* MinHeap of mains/proxy.go: entries <<timestamp, key>> in an array, the  *)
(* children of position i at 2*i and 2*i + 1 (the code counts from 0).     *)
(* Every method holds the heap's mutex.                                    *)
(***************************************************************************)
EXTENDS Naturals, Sequences, SequencesExt

Stamp(h, i) == h[i][1]
Swap(h, i, j) == [h EXCEPT ![i] = h[j], ![j] = h[i]]

(***************************************************************************)
(* Both loops follow one entry from position to position and break when it *)
(* stays where it is.  A turn after that changes nothing, and there are    *)
(* never more turns than entries: so each loop has a turn for every entry. *)
(***************************************************************************)
Placed(h, i) == [heap |-> h, at |-> i]

RiseOne(s, n) ==
    LET parent == s.at \div 2
    IN  IF s.at > 1 /\ Stamp(s.heap, s.at) < Stamp(s.heap, parent)
        THEN Placed(Swap(s.heap, s.at, parent), parent)
        ELSE s

HeapifyUp(h, i) == FoldLeft(RiseOne, Placed(h, i), h).heap

\* The left child, unless the right one is smaller still.
Smallest(h, i) ==
    LET OfTwo(j, k) == IF k <= Len(h) /\ Stamp(h, k) < Stamp(h, j) THEN k ELSE j
    IN  OfTwo(OfTwo(i, 2 * i), 2 * i + 1)

SinkOne(s, n) ==
    LET child == Smallest(s.heap, s.at)
    IN  IF child = s.at THEN s ELSE Placed(Swap(s.heap, s.at, child), child)

HeapifyDown(h, i) == FoldLeft(SinkOne, Placed(h, i), h).heap

\* Mutant: the new entry stays where it was appended.
AppendOnly(h, ts, k) == Append(h, <<ts, k>>)
Insert(h, ts, k) == HeapifyUp(Append(h, <<ts, k>>), Len(h) + 1)

\* Mutant: a heap of two loses both.
AfterPopShort(h) ==
    IF Len(h) <= 2 THEN << >>
    ELSE HeapifyDown(SubSeq([h EXCEPT ![1] = h[Len(h)]], 1, Len(h) - 1), 1)

\* The entry at the root leaves, the last one takes its place.
AfterPop(h) ==
    IF Len(h) = 1 THEN << >>
    ELSE HeapifyDown(SubSeq([h EXCEPT ![1] = h[Len(h)]], 1, Len(h) - 1), 1)

IsHeap(h) == \A i \in 2 .. Len(h) : Stamp(h, i \div 2) <= Stamp(h, i)
=============================================================================
