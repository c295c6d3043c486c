----------------------------- MODULE BlobStore -----------------------------
(***************************************************************************)
(* What deps/obliv/obliv/voram.py promises its one caller, the HIRB tree:  *)
(* a store of named blobs that every fetch renames.                        *)
(*                                                                         *)
(* A store value s is a record:                                            *)
(*   s.blobs   blobs at rest, in the stash or in the nodes of the tree     *)
(*   s.cache   blobs fetched or created and not yet written back           *)
(*   s.reads   paths read since the last write back                        *)
(*   s.rounds  history: the number of paths in every write back            *)
(***************************************************************************)
EXTENDS Naturals, Sequences

NoBlobs == << >>

NewStore(blobs) == [blobs |-> blobs, cache |-> NoBlobs, reads |-> 0, rounds |-> << >>]

Without(f, x) == [y \in DOMAIN f \ {x} |-> f[y]]
Over(g, f) == [y \in DOMAIN g \cup DOMAIN f |-> IF y \in DOMAIN g THEN g[y] ELSE f[y]]
With(f, x, blob) == [y \in {x} \cup DOMAIN f |-> IF y = x THEN blob ELSE f[y]]

\* dummy_op(sync=False), and the path that a fetch or a creation reads.
Access(s) == [s EXCEPT !.reads = @ + 1]

\* fetch() finds ident, or raises KeyError.
Found(s, ident) == ident \in DOMAIN s.cache \cup DOMAIN s.blobs

\* fetch() does nothing, and keeps the name, when ident is cached already.
FetchedAs(s, ident, next) == IF ident \in DOMAIN s.cache THEN ident ELSE next

Fetch(s, ident, next) ==
    IF ident \in DOMAIN s.cache THEN s
    ELSE [Access(s) EXCEPT !.blobs = Without(@, ident),
                           !.cache = With(@, next, s.blobs[ident])]

BlobOf(s, ident) == Over(s.cache, s.blobs)[ident]

\* A fetch that raises KeyError has read its path all the same.
FetchFails(s) == Access(s)

SetBlob(s, ident, data) == [s EXCEPT !.cache = With(@, ident, data)]

Destroy(s, ident) == [s EXCEPT !.cache = Without(@, ident)]

\* The caller's set() of a new blob follows before it is written back.
Create(s, ident) == SetBlob(s, ident, NoBlobs)

Finalize(s) ==
    [s EXCEPT !.blobs  = Over(s.cache, @),
              !.cache  = NoBlobs,
              !.rounds = IF s.reads = 0 THEN @ ELSE Append(@, s.reads),
              !.reads  = 0]
=============================================================================
