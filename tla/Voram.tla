------------------------------- MODULE Voram --------------------------------
(***************************************************************************)
(* deps/obliv/obliv/voram.py: a binary tree of encrypted nodes that stores *)
(* blobs in pieces.  A blob lies on the path its ident spells, the end of  *)
(* its data deepest; what does not fit waits in the stash.  Every node is  *)
(* encrypted with a key of its own, kept in its parent, and gets a new key *)
(* whenever it is written.                                                 *)
(*                                                                         *)
(* The class is used by one thread; one action is one method call.  Nodes  *)
(* are numbered as in the code: 1 is the root, 2*p and 2*p+1 are below p.  *)
(***************************************************************************)
EXTENDS Integers, Sequences, FiniteSets, SequencesExt, FiniteSetsExt, TLC

CONSTANTS
    InitialLevels,  \* levels below the root at construction
    MaxLevels,      \* bound: grow() adds levels up to this
    Room,           \* bytes of a node that are not keys
    Header,         \* bytes of a chunk header
    Leaves,         \* bound: the leaves (of the largest tree) that new idents lead
                    \* to, by number of levels
    MaxBlobs,       \* bound: blobs held at once, by number of levels
    MaxReads,       \* bound: paths read between write backs
    Contents        \* the data of blobs, sequences of bytes

Bytes == UNION {Range(data) : data \in Contents}

ASSUME VoramAssumption ==
    /\ InitialLevels \in Nat \ {0} /\ MaxLevels \in Nat /\ InitialLevels <= MaxLevels
    /\ Header \in Nat \ {0} /\ Room \in Nat /\ Room > Header
    /\ Leaves \in [InitialLevels .. MaxLevels -> SUBSET (2 ^ MaxLevels .. 2 ^ (MaxLevels + 1) - 1)]
    /\ MaxBlobs \in [InitialLevels .. MaxLevels -> Nat \ {0}] /\ MaxReads \in Nat
    /\ Contents \subseteq Seq(Bytes)

VARIABLES
    mem,     \* the storage and what the object knows of it, see below
    cache,   \* _cache: blobs in use, whole
    reads    \* history: paths read since the last write back

vars == <<mem, cache, reads>>

(***************************************************************************)
(* mem.levels  _L: levels below the root                                   *)
(* mem.node    _store: per node its two child keys and its chunks          *)
(* mem.keys    _node_keys: the decryption keys in memory, by node          *)
(* mem.stash   _stash: data read, in whole or in part                      *)
(* mem.buffer  _write_buffer: nodes read and not written back              *)
(* mem.fault   an assertion or a ValueError of the code has struck         *)
(*                                                                         *)
(* All that matters of a key is whether it fits: TRUE is the key of the    *)
(* last write of its node, FALSE an older or a made up one.                *)
(***************************************************************************)
Nodes(l) == 1 .. 2 ^ (l + 1) - 1
IsLeaf(m, p) == p >= 2 ^ m.levels
Side(p)   == (p % 2) + 1

\* Leading bits and the rest of an ident; the rest only keeps idents apart.
Names  == 0 .. Max(Range(MaxBlobs))
Idents == [at : UNION Range(Leaves), name : Names]

Ancestor(id, depth) == id.at \div 2 ^ (MaxLevels - depth)

\* Ref.path, from the root down.
Path(m, id) == [i \in 1 .. m.levels + 1 |-> Ancestor(id, i - 1)]
OnPath(id, p) == \E depth \in 0 .. MaxLevels : Ancestor(id, depth) = p

Without(f, S) == [x \in DOMAIN f \ S |-> f[x]]
Over(g, f) == [x \in DOMAIN g \cup DOMAIN f |-> IF x \in DOMAIN g THEN g[x] ELSE f[x]]
Put(f, x, y) == Over([z \in {x} |-> y], f)
At(f, x) == IF x \in DOMAIN f THEN f[x] ELSE << >>

(***************************************************************************)
(* _readnode: decrypt, learn the child keys, append the chunks to the      *)
(* stash.                                                                  *)
(***************************************************************************)
Unpack(stash, c) == Put(stash, c.id, At(stash, c.id) \o c.data)

ReadNode(m, p) ==
    IF p \in m.buffer THEN m
    ELSE IF p \notin DOMAIN m.keys \/ ~m.keys[p] THEN [m EXCEPT !.fault = TRUE]
    ELSE [m EXCEPT !.keys   = Put(Put(@, 2 * p, m.node[p].kids[1]), 2 * p + 1, m.node[p].kids[2]),
                   !.stash  = FoldLeft(Unpack, @, m.node[p].chunks),
                   !.buffer = @ \cup {p}]

ReadPath(m, id) == FoldLeft(ReadNode, m, Path(m, id))

(***************************************************************************)
(* _writenode: take over the child keys, fill the node from the stash,     *)
(* encrypt it with a new key.                                              *)
(***************************************************************************)
\* Mutant: a node takes one chunk at most.
ClosedByOne(n) == n.chunks # << >>
Closed(n) == n.room <= Header

\* Mutant: the header is not counted.
TakenHeadless(n, data) == Min({n.room, Len(data)})
Taken(n, data) == Min({n.room - Header, Len(data)})

\* Mutant: the front of the data goes down, its end waits.
FirstBytes(data, k) == SubSeq(data, 1, k)
LastBytes(data, k)  == SubSeq(data, Len(data) - k + 1, Len(data))

Eligible(n, id) == id \in DOMAIN n.stash /\ OnPath(id, n.at)

\* As much of the end of the data as fits is moved to the node.
Pack(n, id) ==
    IF Closed(n) \/ ~Eligible(n, id) THEN n
    ELSE LET data == n.stash[id]
             k    == Taken(n, data)
         IN  [n EXCEPT !.room   = @ - Header - k,
                       !.chunks = Append(@, [id |-> id, data |-> LastBytes(data, k)]),
                       !.stash  = IF k = Len(data) THEN Without(@, {id})
                                  ELSE [@ EXCEPT ![id] = SubSeq(data, 1, Len(data) - k)]]

\* keys_range yields the eligible idents in whatever order the stash keeps.
Filled(m, p, order) ==
    FoldLeft(Pack, [at |-> p, room |-> Room, chunks |-> << >>, stash |-> m.stash], order)

\* The copy of p's key in its parent's last write is out of date from now on.
Outdated(node, p) ==
    IF p = 1 THEN node ELSE [node EXCEPT ![p \div 2].kids[Side(p)] = FALSE]

\* Mutant: the node keeps the child keys it was read with.
WriteNodeOldKeys(m, p, order, override) ==
    LET below == {2 * p, 2 * p + 1}
        full  == Filled(m, p, order)
    IN  IF (~override /\ p \notin m.buffer) \/ (~IsLeaf(m, p) /\ ~(below \subseteq DOMAIN m.keys))
        THEN [m EXCEPT !.fault = TRUE]
        ELSE [m EXCEPT
                !.node   = Put(Outdated(@, p), p,
                               [kids   |-> IF p \in DOMAIN m.node THEN m.node[p].kids ELSE <<FALSE, FALSE>>,
                                chunks |-> full.chunks]),
                !.keys   = Put(Without(@, below), p, TRUE),
                !.stash  = full.stash,
                !.buffer = @ \ {p}]

WriteNode(m, p, order, override) ==
    LET below == {2 * p, 2 * p + 1}
        full  == Filled(m, p, order)
        KeyOf(q) == q \in DOMAIN m.keys /\ m.keys[q]
    IN  IF (~override /\ p \notin m.buffer) \/ (~IsLeaf(m, p) /\ ~(below \subseteq DOMAIN m.keys))
        THEN [m EXCEPT !.fault = TRUE]
        ELSE [m EXCEPT
                !.node   = Put(Outdated(@, p), p, [kids   |-> <<KeyOf(2 * p), KeyOf(2 * p + 1)>>,
                                                   chunks |-> full.chunks]),
                !.keys   = Put(Without(@, below), p, TRUE),
                !.stash  = full.stash,
                !.buffer = @ \ {p}]

\* Children before parents, of the nodes that were read.
WriteRead(m, turn) ==
    IF turn.at \in m.buffer THEN WriteNode(m, turn.at, turn.order, FALSE) ELSE m

WriteBack(m, order) ==
    LET end == 2 ^ (m.levels + 1)
    IN  FoldLeft(WriteRead, m, [i \in 1 .. end - 1 |-> [at |-> end - i, order |-> order]])

(***************************************************************************)
(* The methods.                                                            *)
(***************************************************************************)
\* The constructor writes empty nodes from the leaves up.
Init ==
    /\ mem = [levels |-> InitialLevels,
              node   |-> [p \in Nodes(InitialLevels) |->
                            [kids   |-> IF p < 2 ^ InitialLevels THEN <<TRUE, TRUE>>
                                                                 ELSE <<FALSE, FALSE>>,
                             chunks |-> << >>]],
              keys   |-> [p \in {1} |-> TRUE], stash |-> << >>, buffer |-> {}, fault |-> FALSE]
    /\ cache = << >>
    /\ reads = 0

ChunkIds(n) == {c.id : c \in ToSet(n.chunks)}
StoredIn(m) == DOMAIN m.stash \cup UNION {ChunkIds(m.node[p]) : p \in DOMAIN m.node \ m.buffer}
Stored  == StoredIn(mem)
Held    == DOMAIN cache \cup Stored

\* Random idents do not collide; of those for one leaf any unused will do.
Fresh == {[at |-> a, name |-> Min({n \in Names : [at |-> a, name |-> n] \notin Held})]
             : a \in Leaves[mem.levels]}

\* The order in which the stash lists its idents.
Orders(S) == SetToSeqs(S)

Read(id) == reads < MaxReads /\ reads' = reads + 1 /\ mem' = ReadPath(mem, id)

\* create(): with read, a path of another random ident is read first.
Create(id) ==
    /\ Cardinality(Held) < MaxBlobs[mem.levels]
    /\ \/ \E other \in Fresh : Read(other)
       \/ UNCHANGED <<mem, reads>>
    /\ cache' = Put(cache, id, << >>)

DummyOp(id) == Read(id) /\ UNCHANGED cache

\* fetch(): the whole path is in the stash now, and so is all of the blob.
Fetch(id, next) ==
    /\ id \in Stored
    /\ reads < MaxReads /\ reads' = reads + 1
    /\ LET m == ReadPath(mem, id)
       IN  /\ mem' = [m EXCEPT !.stash = Without(@, {id})]
           /\ cache' = Put(cache, next, At(m.stash, id))

\* fetch() of an ident the store does not have: KeyError, the path is read.
FetchMissing(id) == id \notin Held /\ Read(id) /\ UNCHANGED cache

SetData(id, data) ==
    /\ cache' = [cache EXCEPT ![id] = data]
    /\ UNCHANGED <<mem, reads>>

RemoveBlob(id) ==
    /\ cache' = Without(cache, {id})
    /\ UNCHANGED <<mem, reads>>

Finalize(order) ==
    /\ mem' = WriteBack([mem EXCEPT !.stash = Over(cache, @)], order)
    /\ cache' = << >>
    /\ reads' = 0

(***************************************************************************)
(* grow(): a new level below the old leaves.  The new leaves are written   *)
(* from left to right; an old node is read before the first leaf below it  *)
(* and written after the last, unless it was in the buffer before.         *)
(***************************************************************************)
\* Mutant: nodes that were in the buffer before are written back too.
ClimbAll(g, turn) ==
    LET q == g.at \div 2
    IN  IF g.at > 2 /\ g.at % 2 = 0
        THEN [m    |-> WriteNode(g.m, q - 1, turn.order, FALSE),
              at   |-> q,
              todo |-> Append(g.todo, q)]
        ELSE g
\* One turn of the inner loop, at the right neighbour of a node with all its
\* leaves written: a parent whose last leaf that was is written, and the
\* parent's right neighbour is to be read.  A turn after the last changes
\* nothing.
Climb(g, turn) ==
    LET q == g.at \div 2
    IN  IF g.at > 2 /\ g.at % 2 = 0
        THEN [m    |-> IF q - 1 \in turn.kept THEN g.m ELSE WriteNode(g.m, q - 1, turn.order, FALSE),
              at   |-> q,
              todo |-> Append(g.todo, q)]
        ELSE g

\* One new leaf.
Visit(g, turn) ==
    LET ready == FoldLeft(ReadNode, g.m, Reverse(g.todo))
    IN  FoldLeft(Climb,
                 [m |-> WriteNode(ready, turn.at, turn.order, TRUE), at |-> turn.at + 1, todo |-> << >>],
                 [k \in 1 .. ready.levels |-> turn])

Enlarged(m, order) ==
    LET l == m.levels + 1
    IN  FoldLeft(Visit,
                 [m |-> [m EXCEPT !.levels = l], at |-> 2 ^ l, todo |-> [i \in 1 .. l |-> 2 ^ (l - i)]],
                 [i \in 1 .. 2 ^ l |-> [at |-> 2 ^ l + i - 1, order |-> order, kept |-> m.buffer]]).m

Grow(order) ==
    /\ mem.levels < MaxLevels /\ Cardinality(Held) <= MaxBlobs[mem.levels + 1]
    /\ LET m == Enlarged(mem, order)
       IN  mem' = [m EXCEPT !.fault = @ \/ m.buffer # mem.buffer]
    /\ UNCHANGED <<cache, reads>>

Next ==
    \/ \E id \in Fresh : Create(id) \/ DummyOp(id) \/ FetchMissing(id)
    \/ \E id \in Stored, next \in Fresh : Fetch(id, next)
    \/ \E id \in DOMAIN cache : RemoveBlob(id) \/ \E data \in Contents : SetData(id, data)
    \/ \E order \in Orders(Held) : Finalize(order) \/ Grow(order)

Spec == Init /\ [][Next]_vars

-----------------------------------------------------------------------------
Weigh(total, c) == total + Header + Len(c.data)
Used(n) == FoldLeft(Weigh, 0, n.chunks)

\* The types of all variables; in particular every node has the same size
\* (the assertions at voram.py:597 and :605): its chunks fit.
TypeOK ==
    /\ \A p \in DOMAIN mem.node : Used(mem.node[p]) <= Room
    /\ mem.levels \in InitialLevels .. MaxLevels
    /\ DOMAIN mem.node = Nodes(mem.levels) /\ mem.buffer \subseteq Nodes(mem.levels)
    /\ Held \subseteq Idents
    /\ reads \in 0 .. MaxReads

\* No assertion fails and no ValueError is raised in _readnode, _writenode,
\* grow and finalize: a node is read only with its key, written only after it
\* was read and with the keys of its children at hand; and after a write back
\* (voram.py:471) only the root's key is left in memory.
NoFault ==
    /\ ~mem.fault
    /\ mem.buffer = {} => DOMAIN mem.keys = {1}

\* Every node at rest can be decrypted by whoever holds the root's key and by
\* nobody else: the key of its last write is in its parent or, if the parent
\* is in the buffer, in memory.
KeyChain ==
    \A p \in DOMAIN mem.node \ mem.buffer :
        LET parent == p \div 2
        IN  IF p = 1 \/ parent \in mem.buffer
            THEN p \in DOMAIN mem.keys /\ mem.keys[p]
            ELSE mem.node[parent].kids[Side(p)]

\* A write back leaves data in the stash only for want of room: no node it
\* wrote has room for another chunk of a blob that still waits.
StashWaitsForRoom ==
    [][mem.buffer # {} /\ mem'.buffer = {} =>
         \A p \in mem.buffer : \A id \in DOMAIN mem'.stash :
             OnPath(id, p) => Used(mem'.node[p]) + Header >= Room]_vars

(***************************************************************************)
(* The blob of an ident: its part in the stash and its chunks down the     *)
(* path, of the nodes that are not in the stash already.                   *)
(***************************************************************************)
Concat(data, more) == data \o more

PiecesOf(chunks, id) ==
    FoldLeft(Concat, << >>, [i \in DOMAIN chunks |-> IF chunks[i].id = id THEN chunks[i].data ELSE << >>])

ChunkOf(m, p, id) ==
    IF p \in m.buffer \/ p \notin DOMAIN m.node THEN << >> ELSE PiecesOf(m.node[p].chunks, id)

WholeIn(m, id) ==
    FoldLeft(Concat, At(m.stash, id), [i \in 1 .. m.levels + 1 |-> ChunkOf(m, Path(m, id)[i], id)])

Blobs == INSTANCE BlobSpec WITH
    s <- [blobs |-> [id \in Stored |-> WholeIn(mem, id)], cache |-> cache,
          reads |-> reads, rounds |-> << >>]

\* Through all splitting, partial write backs and growth the tree is a store
\* of whole blobs under the names their Refs hold.
ImplementsBlobSpec == Blobs!Spec
=============================================================================
