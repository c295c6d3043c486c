-------------------------------- MODULE Hirb --------------------------------
(***************************************************************************)
(* The HIRB tree of deps/obliv/obliv/hirb.py over the blob store it calls: *)
(* a map from labels to values, kept as a search tree whose nodes are      *)
(* blobs.  Labels are their own hashes, so they are numbers in hash order. *)
(*                                                                         *)
(* One step is one iteration of a loop of lookup, __setitem__ or           *)
(* __delitem__; the variables of those methods are call .. sibRef.  The    *)
(* HIRB server is single threaded, so one call runs at a time.             *)
(***************************************************************************)
EXTENDS BlobStore, SequencesExt, FiniteSetsExt

CONSTANTS
    Labels,          \* hashes of the labels in use, positive numbers
    Values,
    B, LeafB,        \* typical sizes of internal nodes and of leaves
    MaxHeight,       \* bound: the tree grows no higher
    InitialHeights,  \* choices for __init__'s initial_height
    InitialLabels,   \* labels of __init__'s initial_data
    FailedDeletesAt, \* heights at which callers delete absent labels
    Null             \* no node, no call

ASSUME HirbAssumption ==
    /\ Labels \subseteq Nat \ {0}
    /\ B \in Nat \ {0} /\ LeafB \in Nat \ {0} /\ MaxHeight \in Nat
    /\ InitialLabels \subseteq Labels
    /\ InitialHeights \subseteq 0 .. MaxHeight
    /\ FailedDeletesAt \subseteq 0 .. MaxHeight
    /\ IsFiniteSet(InitialLabels)
    /\ Null \notin Values \cup [op : {"get", "set", "del"}, label : Labels, value : Values \cup {Null}]

VARIABLES
    \* the Hirb object
    oram, root, height, size, growAt,
    rise,           \* how high the hash of each label lets it rise
    \* the call in progress
    call,           \* method, label, value
    pc,             \* the loop it is in
    node, ref,      \* curnode, and the ident of cur_ref (NoId: the root)
    level, ind,     \* level of curnode, child_ind
    sib, sibRef,    \* sibling, and the ident of sibling_ref
    answer,
    dict            \* history: the map the calls so far describe

tree == <<oram, root, height, size, growAt, rise>>
vars == <<oram, root, height, size, growAt, rise, call, pc, node, ref, level,
          ind, sib, sibRef, answer, dict>>

(***************************************************************************)
(* Idents are random strings that never collide.  Here they are named for  *)
(* the place of their node: its level, the label to the left of it (0 if   *)
(* none), and a turn that changes whenever the blob is renamed.            *)
(***************************************************************************)
NoId             == [level |-> 0, left |-> 0, turn |-> 2]
Place(l, left)   == [level |-> l, left |-> left, turn |-> 0]
Renamed(id)      == [id EXCEPT !.turn = 1 - @]

(***************************************************************************)
(* Nodes: lhashes, values and (in internal nodes) children.                *)
(***************************************************************************)
Node(keys, vals, kids) == [keys |-> keys, vals |-> vals, kids |-> kids]
Leaf == Node(<< >>, << >>, << >>)

Part(s, from, to) == IF s = << >> THEN << >> ELSE SubSeq(s, from, to)

\* bisect_left and bisect on the sorted lhashes of a node.
BisectLeft(n, l)  == Cardinality({i \in DOMAIN n.keys : n.keys[i] < l})
BisectRight(n, l) == Cardinality({i \in DOMAIN n.keys : n.keys[i] <= l})

Has(n, l)      == BisectLeft(n, l) < BisectRight(n, l)
ValueIn(n, l)  == n.vals[BisectRight(n, l)]
Update(n, l, v) == [n EXCEPT !.vals[BisectRight(n, l)] = v]

Insert(n, l, v) ==
    LET i == BisectLeft(n, l) + 1
    IN  [n EXCEPT !.keys = InsertAt(@, i, l), !.vals = InsertAt(@, i, v)]

\* Mutant: the value of a deleted label stays behind.
DeleteLabel(n, l) == [n EXCEPT !.keys = RemoveAt(@, BisectRight(n, l))]
Delete(n, l) ==
    LET i == BisectRight(n, l)
    IN  [n EXCEPT !.keys = RemoveAt(@, i), !.vals = RemoveAt(@, i)]

\* Both halves of a split that does not find the wedge keep the child it
\* falls into; the caller replaces the right one.
SplitLeft(n, wedge) ==
    LET i == BisectLeft(n, wedge)
    IN  Node(SubSeq(n.keys, 1, i), SubSeq(n.vals, 1, i), Part(n.kids, 1, i + 1))

\* Mutant: the wedge stays in the sibling too.
SplitRightKeeps(n, wedge) ==
    LET i == BisectLeft(n, wedge)
    IN  Node(SubSeq(n.keys, i + 1, Len(n.keys)), SubSeq(n.vals, i + 1, Len(n.vals)),
             Part(n.kids, i + 1, Len(n.kids)))
SplitRight(n, wedge) ==
    LET i == BisectRight(n, wedge)
    IN  Node(SubSeq(n.keys, i + 1, Len(n.keys)), SubSeq(n.vals, i + 1, Len(n.vals)),
             Part(n.kids, i + 1, Len(n.kids)))

\* Mutant: the sibling's first child, merged into the last child, stays.
MergeAllKids(n, s) ==
    Node(n.keys \o s.keys, n.vals \o s.vals, n.kids \o s.kids)
Merge(n, s) ==
    Node(n.keys \o s.keys, n.vals \o s.vals, n.kids \o Part(s.kids, 2, Len(s.kids)))

\* get_height: the hash of a label decides how high it would rise.
HeightOf(l, h) == Min({rise[l], h})

\* With LeafB = 1 the first draw, with B = 1 every further one, cannot fail.
Rises == {r \in [Labels -> 0 .. MaxHeight] : \A l \in Labels :
             /\ LeafB = 1 => r[l] > 0
             /\ B = 1 => r[l] \in {0, MaxHeight}}

(***************************************************************************)
(* The tree of a map d at height h, as __init__ builds it from sorted      *)
(* initial data: a label of height l closes all nodes below l to its left. *)
(***************************************************************************)
Lefts(d, h, l) == {0} \cup {k \in DOMAIN d : HeightOf(k, h) > l}

Members(d, h, l, left) ==
    {k \in DOMAIN d : /\ k > left /\ HeightOf(k, h) = l
                      /\ \A j \in Lefts(d, h, l) : j > left => k < j}

Ascending(S) ==
    [i \in 1 .. Cardinality(S) |-> CHOOSE k \in S : Cardinality({j \in S : j < k}) = i - 1]

NodeAt(d, h, l, left) ==
    LET keys == Ascending(Members(d, h, l, left))
        kids == [i \in 0 .. Len(keys) |-> Place(l - 1, IF i = 0 THEN left ELSE keys[i])]
    IN  Node(keys, [i \in DOMAIN keys |-> d[keys[i]]],
             IF l = 0 THEN << >> ELSE [i \in 1 .. Len(keys) + 1 |-> kids[i - 1]])

Places(d, h) == UNION {{Place(l, left) : left \in Lefts(d, h, l)} : l \in 0 .. h - 1}

\* _size stays 0, whatever the initial data.
Construct(d, h) ==
    /\ root = NodeAt(d, h, h, 0)
    /\ oram = NewStore([id \in Places(d, h) |-> NodeAt(d, h, id.level, id.left)])
    /\ height = h
    /\ size = 0
    /\ growAt = ((LeafB + 3) \div 4) * B ^ h
    /\ dict = d

Idle == /\ call = Null /\ pc = "idle" /\ node = Leaf /\ ref = NoId /\ level = 0
        /\ ind = 0 /\ sib = Leaf /\ sibRef = NoId

Init ==
    /\ rise \in Rises
    /\ \E d \in [InitialLabels -> Values], h \in InitialHeights : Construct(d, h)
    /\ Idle
    /\ answer = "none"

(***************************************************************************)
(* What the methods share.                                                 *)
(***************************************************************************)
\* The history of write backs starts anew with every call.
Forget(o) == [o EXCEPT !.rounds = << >>]

Enter(op, l, v, loop) ==
    /\ pc = "idle" /\ pc' = loop
    /\ call' = [op |-> op, label |-> l, value |-> v]
    /\ node' = root' /\ level' = height'
    /\ answer' = "none"
    /\ UNCHANGED <<rise, ref, ind, sib, sibRef, dict>>

Return(a) ==
    /\ answer' = a
    /\ pc' = "idle" /\ call' = Null /\ node' = Leaf /\ ref' = NoId /\ level' = 0
    /\ ind' = 0 /\ sib' = Leaf /\ sibRef' = NoId

\* pregen() renames the child before it is fetched.
Rename(n, i) == [n EXCEPT !.kids[i] = Renamed(@)]

\* Without a cur_ref curnode is the root object, which the step changes in
\* place; any other node is written back with its renamed child.
RootWith(n) == IF ref = NoId THEN n ELSE root
\* Mutant: the parent goes back without the new name of its child.
SavedUnset(o, n) == IF ref = NoId THEN o ELSE Finalize(o)
Saved(o, n)      == IF ref = NoId THEN o ELSE Finalize(SetBlob(o, ref, n))

\* Dummy rounds for the levels that the search did not reach.
DummyRound(o, i) == Finalize(Access(Access(o)))
Dummies(o, n) == FoldLeft(DummyRound, o, [i \in 1 .. n |-> i])

\* The body of all three descents: fetch child i, and a dummy access.
Descend(i) ==
    LET child == node.kids[i]
        o     == Saved(oram, Rename(node, i))
    IN  /\ root' = RootWith(Rename(node, i))
        /\ IF Found(o, child)
           THEN /\ node'  = BlobOf(o, child)
                /\ ref'   = FetchedAs(o, child, Renamed(child))
                /\ oram'  = Access(Fetch(o, child, Renamed(child)))
                /\ level' = level - 1
                /\ UNCHANGED <<call, pc, ind, sib, sibRef, answer>>
           ELSE oram' = FetchFails(o) /\ Return("KeyError")
        /\ UNCHANGED <<height, size, growAt, rise, dict>>

(***************************************************************************)
(* lookup, and so [] and get().                                            *)
(***************************************************************************)
Get(l) ==
    /\ oram' = Forget(oram)
    /\ UNCHANGED <<root, height, size, growAt>>
    /\ Enter("get", l, Null, "lookup")

\* Mutant: a label found above the leaves ends the accesses.
LookupHitEarly ==
    /\ pc = "lookup" /\ Has(node, call.label)
    /\ oram' = Finalize(oram)
    /\ Return(ValueIn(node, call.label))
    /\ UNCHANGED <<root, height, size, growAt, rise, dict>>
LookupHit ==
    /\ pc = "lookup" /\ Has(node, call.label)
    /\ oram' = Dummies(Finalize(oram), level)
    /\ Return(ValueIn(node, call.label))
    /\ UNCHANGED <<root, height, size, growAt, rise, dict>>

LookupMiss ==
    /\ pc = "lookup" /\ ~Has(node, call.label) /\ level = 0
    /\ oram' = Finalize(oram)
    /\ Return("KeyError")
    /\ UNCHANGED <<root, height, size, growAt, rise, dict>>

LookupDown ==
    /\ pc = "lookup" /\ ~Has(node, call.label) /\ level > 0
    /\ Descend(BisectLeft(node, call.label) + 1)

(***************************************************************************)
(* __setitem__.                                                            *)
(***************************************************************************)
\* A label of the old root that rises to the new one cuts off what is left of it.
Promote(g, k) ==
    IF ~k.rises THEN g
    ELSE [root |-> Node(Append(g.root.keys, k.label),
                        Append(g.root.vals, ValueIn(g.old, k.label)),
                        Append(g.root.kids, k.id)),
          old  |-> SplitRight(g.old, k.label),
          id   |-> k.id,
          oram |-> SetBlob(g.oram, g.id, SplitLeft(g.old, k.label))]

Grown ==
    LET first == [root |-> Node(<< >>, << >>, <<Place(height, 0)>>), old |-> root,
                  id |-> Place(height, 0), oram |-> oram]
        turn(l) == [label |-> l, rises |-> HeightOf(l, height + 1) > height, id |-> Place(height, l)]
        last == FoldLeft(Promote, first, [i \in DOMAIN root.keys |-> turn(root.keys[i])])
    IN  [root |-> last.root, oram |-> SetBlob(last.oram, last.id, last.old)]

Set(l, v) ==
    /\ IF size = growAt
       THEN /\ height < MaxHeight
            /\ root' = Grown.root
            /\ oram' = Forget(Finalize(Grown.oram))
            /\ height' = height + 1
            /\ growAt' = growAt * B
       ELSE /\ oram' = Forget(Finalize(oram))
            /\ UNCHANGED <<root, height, growAt>>
    /\ UNCHANGED size
    /\ Enter("set", l, v, "place")

SetDown ==
    /\ pc = "place" /\ level > HeightOf(call.label, height)
    /\ Descend(BisectRight(node, call.label) + 1)

Assigned == With(dict, call.label, call.value)

\* Mutant: an update counts as an insertion.
SetUpdateCounts ==
    /\ pc = "place" /\ level = HeightOf(call.label, height) /\ Has(node, call.label)
    /\ LET n == Update(node, call.label, call.value)
       IN  root' = RootWith(n) /\ oram' = Dummies(Saved(oram, n), level)
    /\ dict' = Assigned
    /\ size' = size + 1
    /\ Return("ok")
    /\ UNCHANGED <<height, growAt, rise>>
SetUpdate ==
    /\ pc = "place" /\ level = HeightOf(call.label, height) /\ Has(node, call.label)
    /\ LET n == Update(node, call.label, call.value)
       IN  root' = RootWith(n) /\ oram' = Dummies(Saved(oram, n), level)
    /\ dict' = Assigned
    /\ Return("ok")
    /\ UNCHANGED <<height, size, growAt, rise>>

SetInsert ==
    /\ pc = "place" /\ level = HeightOf(call.label, height) /\ ~Has(node, call.label)
    /\ node' = Insert(node, call.label, call.value)
    /\ root' = RootWith(node')
    /\ ind' = BisectLeft(node, call.label)
    /\ size' = size + 1
    /\ pc' = "split"
    /\ UNCHANGED <<oram, height, growAt, rise, call, ref, level, sib, sibRef, answer, dict>>

\* One level down, the child the new label falls into becomes two nodes.
SetSplit ==
    /\ pc = "split" /\ level > 0
    /\ LET stepchild == Place(level - 1, call.label)
           n == IF sibRef = NoId THEN [node EXCEPT !.kids = InsertAt(@, ind + 2, stepchild)]
                                 ELSE node
           child == n.kids[ind + 1]
           o == Saved(IF sibRef = NoId THEN oram
                      ELSE SetBlob(oram, sibRef, [sib EXCEPT !.kids[1] = stepchild]),
                      Rename(n, ind + 1))
       IN  /\ root' = RootWith(Rename(n, ind + 1))
           /\ IF Found(o, child)
              THEN /\ node'   = SplitLeft(BlobOf(o, child), call.label)
                   /\ sib'    = SplitRight(BlobOf(o, child), call.label)
                   /\ ind'    = Len(node'.keys)
                   /\ ref'    = FetchedAs(o, child, Renamed(child))
                   /\ sibRef' = stepchild
                   /\ oram'   = Create(Access(Fetch(o, child, Renamed(child))), stepchild)
                   /\ level'  = level - 1
                   /\ UNCHANGED <<call, pc, answer>>
              ELSE oram' = FetchFails(o) /\ Return("KeyError")
    /\ UNCHANGED <<height, size, growAt, rise, dict>>

SetDone ==
    /\ pc = "split" /\ level = 0
    /\ oram' = Saved(IF sibRef = NoId THEN oram ELSE SetBlob(oram, sibRef, sib), node)
    /\ dict' = Assigned
    /\ Return("ok")
    /\ UNCHANGED <<root, height, size, growAt, rise>>

(***************************************************************************)
(* __delitem__.                                                            *)
(***************************************************************************)
Del(l) ==
    /\ l \in DOMAIN dict \/ height \in FailedDeletesAt
    /\ oram' = Forget(Finalize(oram))
    /\ UNCHANGED <<root, height, size, growAt>>
    /\ Enter("del", l, Null, "seek")

DelHit ==
    /\ pc = "seek" /\ Has(node, call.label)
    /\ node' = Delete(node, call.label)
    /\ root' = RootWith(node')
    /\ ind' = BisectLeft(node, call.label)
    /\ size' = size - 1
    /\ pc' = "merge"
    /\ UNCHANGED <<oram, height, growAt, rise, call, ref, level, sib, sibRef, answer, dict>>

\* The exception leaves the loop without the finalize() that ends every other call.
DelMiss ==
    /\ pc = "seek" /\ ~Has(node, call.label) /\ level = 0
    /\ Return("KeyError")
    /\ UNCHANGED <<oram, root, height, size, growAt, rise, dict>>

DelDown ==
    /\ pc = "seek" /\ ~Has(node, call.label) /\ level > 0
    /\ Descend(BisectLeft(node, call.label) + 1)

\* One level down, the two nodes the label kept apart become one.
DelMerge ==
    /\ pc = "merge" /\ level > 0
    /\ LET first   == sibRef = NoId
           sibling == IF first THEN node.kids[ind + 2] ELSE sib.kids[1]
           n       == IF first THEN [node EXCEPT !.kids = RemoveAt(@, ind + 2)] ELSE node
           child   == n.kids[ind + 1]
           o       == Saved(IF first THEN oram ELSE Destroy(oram, sibRef), Rename(n, ind + 1))
           o1      == Fetch(o, child, Renamed(child))
       IN  /\ root' = RootWith(Rename(n, ind + 1))
           /\ IF Found(o, child) /\ Found(o, sibling)
              THEN /\ sib'    = BlobOf(o, sibling)
                   /\ node'   = Merge(BlobOf(o, child), sib')
                   /\ ind'    = Len(BlobOf(o, child).keys)
                   /\ ref'    = FetchedAs(o, child, Renamed(child))
                   /\ sibRef' = FetchedAs(o1, sibling, Renamed(sibling))
                   /\ oram'   = Fetch(o1, sibling, Renamed(sibling))
                   /\ level'  = level - 1
                   /\ UNCHANGED <<call, pc, answer>>
              ELSE /\ oram' = FetchFails(IF Found(o, child) THEN o1 ELSE o)
                   /\ Return("KeyError")
    /\ UNCHANGED <<height, size, growAt, rise, dict>>

DelDone ==
    /\ pc = "merge" /\ level = 0
    /\ oram' = IF ref = NoId THEN oram
               ELSE LET o == SetBlob(oram, ref, node)
                    IN  Finalize(IF sibRef = NoId THEN o ELSE Destroy(o, sibRef))
    /\ dict' = Without(dict, call.label)
    /\ Return("ok")
    /\ UNCHANGED <<root, height, size, growAt, rise>>

Next ==
    \/ \E l \in Labels : Get(l) \/ Del(l) \/ \E v \in Values : Set(l, v)
    \/ LookupHit \/ LookupMiss \/ LookupDown
    \/ SetDown \/ SetUpdate \/ SetInsert \/ SetSplit \/ SetDone
    \/ DelHit \/ DelMiss \/ DelDown \/ DelMerge \/ DelDone

Spec == Init /\ [][Next]_vars

-----------------------------------------------------------------------------
Idents == [level : 0 .. MaxHeight, left : {0} \cup Labels, turn : 0 .. 1] \cup {NoId}

IsNode(n) ==
    /\ DOMAIN n = {"keys", "vals", "kids"}
    /\ \A i \in DOMAIN n.keys : n.keys[i] \in Labels /\ n.vals[i] \in Values
    /\ Len(n.vals) = Len(n.keys)
    /\ \A i \in DOMAIN n.kids : n.kids[i] \in Idents
    /\ \A i, j \in DOMAIN n.keys : i < j => n.keys[i] < n.keys[j]

\* The types of all variables; every node's labels are sorted, which the
\* searches by bisection in lookup, __setitem__ and __delitem__ rely on.
TypeOK ==
    /\ IsNode(root) /\ IsNode(node) /\ IsNode(sib)
    /\ \A id \in DOMAIN oram.blobs : id \in Idents /\ IsNode(oram.blobs[id])
    /\ DOMAIN oram.cache \subseteq Idents
    /\ oram.reads \in Nat
    /\ height \in 0 .. MaxHeight /\ level \in 0 .. MaxHeight /\ size \in Int
    /\ ref \in Idents /\ sibRef \in Idents
    /\ pc \in {"idle", "lookup", "place", "split", "seek", "merge"}
    /\ (pc = "idle") = (call = Null)

PlaceOf(id)  == [id EXCEPT !.turn = 0]
Unnamed(n)   == [n EXCEPT !.kids = [i \in DOMAIN @ |-> PlaceOf(@[i])]]

\* History independence, and with it that no node is lost or left behind:
\* between calls root and blobs are exactly the tree that the present map
\* and height determine, whatever calls led to it, and every child a node
\* names is there under that name.
HistoryIndependent ==
    pc = "idle" =>
        LET held == Over(oram.cache, oram.blobs)
        IN  /\ Unnamed(root) = NodeAt(dict, height, height, 0)
            /\ {PlaceOf(id) : id \in DOMAIN held} = Places(dict, height)
            /\ \A id, other \in DOMAIN held : PlaceOf(id) = PlaceOf(other) => id = other
            /\ \A id \in DOMAIN held :
                  Unnamed(held[id]) = NodeAt(dict, height, id.level, id.left)
            /\ \A n \in {root} \cup Range(held) : ToSet(n.kids) \subseteq DOMAIN held

\* len() is the number of items between calls (_size, updated in
\* __setitem__ and __delitem__ and read by the growth test).
SizeIsItemCount == pc = "idle" => size = Cardinality(DOMAIN dict)

Returns == pc # "idle" /\ pc' = "idle"

Expected ==
    IF call.op = "set" THEN "ok"
    ELSE IF call.label \notin DOMAIN dict THEN "KeyError"
    ELSE IF call.op = "get" THEN dict[call.label] ELSE "ok"

\* A Hirb answers every call as a Python dictionary would (README.rst:193):
\* no value is old, no label in it is missed.  The store's own KeyError for a
\* blob it does not have reaches the caller as if the label were missing.
AnswersLikeADictionary == [][Returns => answer' = Expected]_vars

\* Every call accesses the store in the same pattern, two paths and a write
\* back per level (hirb.py:138), whether, where and what it finds.
SamePattern ==
    [][Returns => /\ oram'.reads = 0
                  /\ oram'.rounds = [i \in 1 .. height |-> 2]]_vars
=============================================================================
