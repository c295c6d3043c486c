------------------------------ MODULE BlobSpec ------------------------------
(***************************************************************************)
(* The store of named blobs as its callers see it: the abstract            *)
(* specification that the bucket tree of Voram implements, made of the     *)
(* operators Hirb calls.                                                   *)
(***************************************************************************)
EXTENDS BlobStore

CONSTANTS Idents, Contents, MaxReads

VARIABLE s   \* a store value of BlobStore; its history of rounds is dropped

Init == s = NewStore(NoBlobs)

Named(id) == Found(s, id)
MayRead   == s.reads < MaxReads

CreateBlob(id) ==
    /\ ~Named(id)
    /\ \/ s' = Create(s, id)
       \/ MayRead /\ s' = Access(Create(s, id))

DummyOp == MayRead /\ s' = Access(s)

FetchBlob(id, next) ==
    /\ Named(id) /\ ~Named(next) /\ MayRead
    /\ s' = Fetch(s, id, next)

FetchMissing(id) ==
    /\ ~Named(id) /\ MayRead
    /\ s' = FetchFails(s)

SetCached(id, data) == id \in DOMAIN s.cache /\ s' = SetBlob(s, id, data)

DestroyCached(id) == id \in DOMAIN s.cache /\ s' = Destroy(s, id)

WriteBack == s' = [Finalize(s) EXCEPT !.rounds = << >>]

Next ==
    \/ \E id \in Idents :
          \/ CreateBlob(id) \/ FetchMissing(id) \/ DestroyCached(id)
          \/ \E next \in Idents : FetchBlob(id, next)
          \/ \E data \in Contents : SetCached(id, data)
    \/ DummyOp \/ WriteBack

Spec == Init /\ [][Next]_s
=============================================================================
