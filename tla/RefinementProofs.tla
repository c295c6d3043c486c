---------------------------- MODULE RefinementProofs ----------------------------
(***************************************************************************)
(* What TLAPS proves of the EMM server for every set of requests, keys and *)
(* parts and every store size: first of Emm, for any number of failures    *)
(* and HIRB restarts; then of EmmRefinement, that under the conditions it  *)
(* names every step of the server is a step of the map of KVStore, or      *)
(* none.                                                                   *)
(***************************************************************************)
EXTENDS EmmRefinement, FiniteSetTheorems, TLAPS

\* The part of the typing that the copy relies on: a handler only copies to
\* or from a block the store has.
CopiesInStore == \A r \in Requests : pc[r] = "copy" => idx[r] \in Blocks

TInv == TypeOK /\ CopiesInStore

\* The handler's index and ciphertext are final.
Sealed(r) == pc[r] \in {"copy"} \cup Answered

\* An index is only ever seen by one key: in the HIRB, or in a handler, even
\* one that has long answered.
Ownership ==
    /\ \A k \in Keys : index[k] < idCounter
    /\ \A r \in Requests : idx[r] < idCounter
    /\ \A k1, k2 \in Keys : index[k1] # NoId /\ index[k1] = index[k2] => k1 = k2
    /\ \A r \in Requests, k \in Keys : idx[r] # NoId /\ idx[r] = index[k] => key[r] = k
    /\ \A r, s \in Requests : idx[r] # NoId /\ idx[r] = idx[s] => key[r] = key[s]

\* A handler that is past the allocation has an index.
HasIndex ==
    \A r \in Requests : pc[r] \in {"register", "access", "copy"} => idx[r] # NoId

\* Whatever lies in a block was put there by a set that was given that block.
BlocksOwned ==
    \A i \in Blocks, p \in Parts :
        block[i][p] # Blank =>
            /\ op[block[i][p]] = "set" /\ Sealed(block[i][p])
            /\ idx[block[i][p]] = i

\* So was whatever a get has copied out.
ViewsOwned ==
    \A r \in Requests, p \in Parts :
        view[r][p] # Blank =>
            /\ op[view[r][p]] = "set" /\ Sealed(view[r][p]) /\ Sealed(r)
            /\ idx[view[r][p]] = idx[r]

\* What a get answers was sealed under its own key.
AnswersOwned ==
    \A r \in Requests :
        /\ pc[r] = "value" => got[r] # Blank
        /\ got[r] # Blank =>
              /\ op[got[r]] = "set" /\ Sealed(got[r])
              /\ key[got[r]] = key[r] /\ intact[got[r]]

Data == BlocksOwned /\ ViewsOwned /\ AnswersOwned

\* The inductive invariant behind IndexIsolation and ReadsOwnKey, until the
\* counter starts over: a restarted EMM server hands out indices again.
IInv == TInv /\ (emmRestarts = 0 => Ownership /\ HasIndex /\ Data)
-----------------------------------------------------------------------------
\* An update of one part of one block, and what it leaves alone.
LEMMA UpdatePart ==
  ASSUME NEW A, NEW B, NEW C, NEW f \in [A -> [B -> C]],
         NEW a \in A, NEW b \in B, NEW c \in C
  PROVE  /\ [f EXCEPT ![a][b] = c] \in [A -> [B -> C]]
         /\ \A x \in A, y \in B :
               [f EXCEPT ![a][b] = c][x][y] = IF x = a /\ y = b THEN c ELSE f[x][y]
<1>1. [f EXCEPT ![a][b] = c] = [f EXCEPT ![a] = [f[a] EXCEPT ![b] = c]]
  OBVIOUS
<1>2. [f[a] EXCEPT ![b] = c] \in [B -> C]
  OBVIOUS
<1>. QED
  BY <1>1, <1>2

\* What a block decodes to is one request, or nothing.
LEMMA DecodeType == \A b : Decode(b) \in Cells
  BY DEF Decode, Cells

\* What decodes is what every part of the block holds, and it is undamaged.
LEMMA DecodeSound ==
  ASSUME NEW b, Decode(b) # Blank
  PROVE  /\ Decode(b) \in Requests /\ intact[Decode(b)]
         /\ \A p \in Parts : b[p] = Decode(b)
  BY DEF Decode

LEMMA InitTyped == Init => TInv
  BY EmmAssumption
  DEF Init, TInv, TypeOK, CopiesInStore, FirstId, NoId, Empty, Cells, PCs

LEMMA NextTyped == TInv /\ [Next]_vars => TInv'
<1> SUFFICES ASSUME TInv, [Next]_vars PROVE TInv'
  OBVIOUS
<1> USE DEF TInv, TypeOK, CopiesInStore, PCs, Active, Answered, Cells
<1>1. ASSUME NEW r \in Requests, Arrive(r) PROVE TInv'
  BY <1>1 DEF Arrive, emmVars, workload, budget
<1>2. ASSUME NEW r \in Requests, HirbGet(r) PROVE TInv'
  <2>1. CASE index[key[r]] # NoId
    <3>1. idx' = [idx EXCEPT ![r] = index[key[r]]] /\ pc' = [pc EXCEPT ![r] = "access"]
      BY <1>2, <2>1 DEF HirbGet
    <3>. QED
      BY <1>2, <3>1 DEF HirbGet, emmVars, workload, budget
  <2>2. CASE index[key[r]] = NoId
    <3>1. idx' = idx /\ pc' = [pc EXCEPT ![r] = "alloc"]
      BY <1>2, <2>2 DEF HirbGet
    <3>. QED
      BY <1>2, <3>1 DEF HirbGet, emmVars, workload, budget
  <2>. QED
    BY <2>1, <2>2
<1>3. ASSUME NEW r \in Requests, HirbGetFails(r) PROVE TInv'
  BY <1>3 DEF HirbGetFails, emmVars, workload
<1>4. ASSUME NEW r \in Requests, TakeId(r) PROVE TInv'
  BY <1>4 DEF TakeId, workload, budget
<1>5. ASSUME NEW r \in Requests, HirbSet(r) PROVE TInv'
  BY <1>5 DEF HirbSet, emmVars, workload, budget
<1>6. ASSUME NEW r \in Requests, HirbSetFails(r) PROVE TInv'
  BY <1>6 DEF HirbSetFails, emmVars, workload
<1>7. ASSUME NEW r \in Requests, AccessBeyond(r) PROVE TInv'
  BY <1>7 DEF AccessBeyond, emmVars, workload, budget
<1>8. ASSUME NEW r \in Requests, AccessBlock(r) PROVE TInv'
  <2>1. idx[r] \in Blocks
    BY <1>8, EmmAssumption DEF AccessBlock, InStore, Blocks
  <2>2. intact' \in [Requests -> BOOLEAN]
    BY <1>8, EmmAssumption DEF AccessBlock
  <2>. QED
    BY <1>8, <2>1, <2>2 DEF AccessBlock, workload, budget
<1>9. ASSUME NEW r \in Requests, Unsupported(r) PROVE TInv'
  BY <1>9 DEF Unsupported, emmVars, workload, budget
<1>10. ASSUME NEW r \in Requests, NEW p \in Parts, CopyPart(r, p) PROVE TInv'
  <2>1. idx[r] \in Blocks /\ todo' \in [Requests -> SUBSET Parts]
    BY <1>10 DEF CopyPart
  <2>2. /\ block' \in [Blocks -> [Parts -> Cells]]
        /\ view' \in [Requests -> [Parts -> Cells]]
    <3>1. CASE op[r] = "set"
      <4>1. block' = [block EXCEPT ![idx[r]][p] = r] /\ view' = view
        BY <1>10, <3>1 DEF CopyPart
      <4>. QED
        BY <2>1, <4>1, UpdatePart
    <3>2. CASE op[r] = "del"
      <4>1. block' = [block EXCEPT ![idx[r]][p] = Blank] /\ view' = view
        BY <1>10, <3>2 DEF CopyPart
      <4>. QED
        BY <2>1, <4>1, UpdatePart
    <3>3. CASE op[r] = "get"
      <4>1. view' = [view EXCEPT ![r][p] = block[idx[r]][p]] /\ block' = block
        BY <1>10, <3>3 DEF CopyPart
      <4>2. block[idx[r]][p] \in Cells
        BY <2>1
      <4>. QED
        BY <4>1, <4>2, UpdatePart
    <3>. QED
      BY <1>10, <3>1, <3>2, <3>3 DEF CopyPart
  <2>. QED
    BY <1>10, <2>1, <2>2 DEF CopyPart, workload, budget
<1>11. ASSUME NEW r \in Requests, Finish(r) PROVE TInv'
  <2>1. pc' \in [Requests -> PCs] /\ \A s \in Requests : pc'[s] = "copy" => pc[s] = "copy"
    <3>1. CASE op[r] = "get"
      <4>1. pc' = [pc EXCEPT ![r] = IF Decode(view[r]) = Blank THEN "nil" ELSE "value"]
        BY <1>11, <3>1 DEF Finish, Mutator
      <4>. QED
        BY <4>1
    <3>2. CASE Mutator(r)
      <4>1. pc' = [pc EXCEPT ![r] = "ok"]
        BY <1>11, <3>2 DEF Finish, Mutator
      <4>. QED
        BY <4>1
    <3>. QED
      BY <1>11, <3>1, <3>2 DEF Finish
  <2>2. got' \in [Requests -> Cells]
    BY <1>11, DecodeType DEF Finish
  <2>. QED
    BY <1>11, <2>1, <2>2 DEF Finish, emmVars, workload, budget
<1>12. ASSUME HirbRestart PROVE TInv'
  BY <1>12 DEF HirbRestart, emmVars, workload, local, NoId
<1>13. ASSUME EmmRestart PROVE TInv'
  BY <1>13 DEF EmmRestart, workload, FirstId, Empty, InFlight
<1>14. CASE UNCHANGED vars
  BY <1>14 DEF vars
<1>. QED
  BY <1>1, <1>2, <1>3, <1>4, <1>5, <1>6, <1>7, <1>8, <1>9, <1>10, <1>11,
     <1>12, <1>13, <1>14 DEF Next, Handle

\* The variables keep their types, and a copy stays inside the store.
THEOREM TypeCorrect == Spec => []TypeOK
<1>1. TInv => TypeOK
  BY DEF TInv
<1>. QED
  BY InitTyped, NextTyped, <1>1, PTL DEF Spec
-----------------------------------------------------------------------------
LEMMA InitOwned == Init => Ownership /\ HasIndex /\ Data
  BY EmmAssumption
  DEF Init, Ownership, HasIndex, Data, BlocksOwned, ViewsOwned, AnswersOwned,
      FirstId, NoId, Empty

\* Only an allocation and a lookup give a handler an index, and only an
\* allocation makes a new one.
LEMMA OwnershipKept ==
  ASSUME TInv, Ownership, HasIndex, Next, emmRestarts' = 0
  PROVE  Ownership' /\ HasIndex'
<1> USE DEF TInv, TypeOK, Ownership, HasIndex, NoId
<1>1. ASSUME NEW r \in Requests, HirbGet(r) PROVE Ownership' /\ HasIndex'
  <2>1. CASE index[key[r]] # NoId
    <3>1. /\ idx' = [idx EXCEPT ![r] = index[key[r]]]
          /\ pc' = [pc EXCEPT ![r] = "access"]
          /\ UNCHANGED <<idCounter, index, key>>
      BY <1>1, <2>1 DEF HirbGet, emmVars, workload
    <3>. QED
      BY <2>1, <3>1
  <2>2. CASE index[key[r]] = NoId
    <3>1. /\ pc' = [pc EXCEPT ![r] = "alloc"]
          /\ UNCHANGED <<idCounter, index, key, idx>>
      BY <1>1, <2>2 DEF HirbGet, emmVars, workload
    <3>. QED
      BY <3>1
  <2>. QED
    BY <2>1, <2>2
<1>2. ASSUME NEW r \in Requests, TakeId(r) PROVE Ownership' /\ HasIndex'
  <2>1. /\ idx' = [idx EXCEPT ![r] = idCounter] /\ idCounter' = idCounter + 1
        /\ pc' = [pc EXCEPT ![r] = "register"]
        /\ UNCHANGED <<index, key>>
    BY <1>2 DEF TakeId, workload
  <2>. QED
    BY <2>1
<1>3. ASSUME NEW r \in Requests, HirbSet(r) PROVE Ownership' /\ HasIndex'
  <2>1. /\ index' = [index EXCEPT ![key[r]] = idx[r]]
        /\ pc[r] = "register" /\ pc' = [pc EXCEPT ![r] = "access"]
        /\ UNCHANGED <<idCounter, idx, key>>
    BY <1>3 DEF HirbSet, emmVars, workload
  <2>. QED
    BY <2>1
<1>4. ASSUME NEW r \in Requests, HirbSetFails(r) PROVE Ownership' /\ HasIndex'
  <2>1. /\ index' \in {index, [index EXCEPT ![key[r]] = idx[r]]}
        /\ pc[r] = "register" /\ pc' = [pc EXCEPT ![r] = "error"]
        /\ UNCHANGED <<idCounter, idx, key>>
    BY <1>4 DEF HirbSetFails, emmVars, workload
  <2>2. CASE index' = index
    BY <2>1, <2>2
  <2>3. CASE index' = [index EXCEPT ![key[r]] = idx[r]]
    BY <2>1, <2>3
  <2>. QED
    BY <2>1, <2>2, <2>3
<1>5. ASSUME HirbRestart PROVE Ownership' /\ HasIndex'
  <2>1. /\ index' = [k \in Keys |-> NoId]
        /\ UNCHANGED <<idCounter, idx, key, pc>>
    BY <1>5 DEF HirbRestart, emmVars, workload, local
  <2>. QED
    BY <2>1
<1>6. ASSUME NEW r \in Requests,
             \/ Arrive(r) \/ HirbGetFails(r) \/ AccessBeyond(r) \/ AccessBlock(r)
             \/ Unsupported(r) \/ (\E p \in Parts : CopyPart(r, p)) \/ Finish(r)
      PROVE  Ownership' /\ HasIndex'
  <2>1. UNCHANGED <<idCounter, index, idx, key>>
    BY <1>6 DEF Arrive, HirbGetFails, AccessBeyond, AccessBlock, Unsupported,
                CopyPart, Finish, emmVars, workload
  <2>2. \A s \in Requests : pc'[s] \in {"register", "access", "copy"} =>
                            pc[s] \in {"register", "access", "copy"}
    <3>1. CASE Finish(r)
      BY <3>1 DEF Finish, Mutator
    <3>2. CASE ~Finish(r)
      BY <1>6, <3>2 DEF Arrive, HirbGetFails, AccessBeyond, AccessBlock,
                        Unsupported, CopyPart
    <3>. QED
      BY <3>1, <3>2
  <2>. QED
    BY <2>1, <2>2
<1>7. ~EmmRestart
  BY DEF EmmRestart
<1>. QED
  BY <1>1, <1>2, <1>3, <1>4, <1>5, <1>6, <1>7 DEF Next, Handle

\* Once a handler copies, its index and its ciphertext are settled for good.
LEMMA SealedStays ==
  ASSUME TInv, Next, emmRestarts' = 0, NEW w \in Requests, Sealed(w)
  PROVE  /\ Sealed(w)' /\ idx'[w] = idx[w] /\ intact'[w] = intact[w]
         /\ op' = op /\ key' = key
<1> DEFINE Goal == /\ Sealed(w)' /\ idx'[w] = idx[w] /\ intact'[w] = intact[w]
                   /\ op' = op /\ key' = key
<1> USE DEF TInv, TypeOK, Sealed, Answered
<1>1. ASSUME NEW r \in Requests, Handle(r) PROVE Goal
  <2>1. CASE HirbGet(r)
    BY <2>1 DEF HirbGet, emmVars, workload
  <2>2. CASE TakeId(r)
    BY <2>2 DEF TakeId, workload
  <2>3. CASE HirbSetFails(r)
    BY <2>3 DEF HirbSetFails, emmVars, workload
  <2>4. CASE AccessBlock(r)
    BY <2>4 DEF AccessBlock, workload
  <2>5. CASE Finish(r)
    <3>1. UNCHANGED <<idx, intact, op, key>>
      BY <2>5 DEF Finish, emmVars, workload
    <3>2. \A s \in Requests : pc'[s] = pc[s] \/ pc'[s] \in Answered
      BY <2>5 DEF Finish
    <3>. QED
      BY <3>1, <3>2
  <2>6. CASE HirbGetFails(r) \/ HirbSet(r) \/ AccessBeyond(r) \/ Unsupported(r)
             \/ \E p \in Parts : CopyPart(r, p)
    BY <2>6 DEF HirbGetFails, HirbSet, AccessBeyond, Unsupported, CopyPart,
                emmVars, workload
  <2>. QED
    BY <1>1, <2>1, <2>2, <2>3, <2>4, <2>5, <2>6 DEF Handle
<1>2. ASSUME NEW r \in Requests, Arrive(r) PROVE Goal
  BY <1>2 DEF Arrive, emmVars, workload
<1>3. ASSUME HirbRestart PROVE Goal
  BY <1>3 DEF HirbRestart, emmVars, workload, local
<1>4. ~EmmRestart
  BY DEF EmmRestart
<1>. QED
  BY <1>1, <1>2, <1>3, <1>4 DEF Next

\* A copy moves a sealed ciphertext between a block and a handler that were
\* given the same index.
LEMMA CopyKeepsData ==
  ASSUME TInv, Ownership, HasIndex, Data, Next, emmRestarts' = 0,
         NEW r \in Requests, NEW p \in Parts, CopyPart(r, p)
  PROVE  Data'
<1> USE DEF TInv, TypeOK, Data
<1>1. pc[r] = "copy" /\ idx[r] \in Blocks /\ Sealed(r)
  BY DEF CopyPart, CopiesInStore, Sealed
<1>2. UNCHANGED <<idx, intact, op, key, pc, got>>
  BY DEF CopyPart, workload
<1>3. AnswersOwned'
  BY <1>2 DEF AnswersOwned, Sealed
<1>4. CASE op[r] = "set"
  <2>1. block' = [block EXCEPT ![idx[r]][p] = r] /\ view' = view
    BY <1>4 DEF CopyPart
  <2>2. \A i \in Blocks, q \in Parts :
           block'[i][q] = IF i = idx[r] /\ q = p THEN r ELSE block[i][q]
    BY <1>1, <2>1, UpdatePart
  <2>. QED
    BY <1>1, <1>2, <1>3, <1>4, <2>1, <2>2 DEF BlocksOwned, ViewsOwned, Sealed
<1>5. CASE op[r] = "del"
  <2>1. block' = [block EXCEPT ![idx[r]][p] = Blank] /\ view' = view
    BY <1>5 DEF CopyPart
  <2>2. \A i \in Blocks, q \in Parts :
           block'[i][q] = IF i = idx[r] /\ q = p THEN Blank ELSE block[i][q]
    BY <1>1, <2>1, UpdatePart DEF Cells
  <2>. QED
    BY <1>2, <1>3, <2>1, <2>2 DEF BlocksOwned, ViewsOwned, Sealed
<1>6. CASE op[r] = "get"
  <2>1. view' = [view EXCEPT ![r][p] = block[idx[r]][p]] /\ block' = block
    BY <1>6 DEF CopyPart
  <2>2. \A s \in Requests, q \in Parts :
           view'[s][q] = IF s = r /\ q = p THEN block[idx[r]][p] ELSE view[s][q]
    BY <1>1, <2>1, UpdatePart, SMTT(30)
  <2>. QED
    BY <1>1, <1>2, <1>3, <2>1, <2>2 DEF BlocksOwned, ViewsOwned, Sealed
<1>. QED
  BY <1>4, <1>5, <1>6 DEF CopyPart

\* An answer is what every part of the view holds.
LEMMA FinishKeepsData ==
  ASSUME TInv, Ownership, HasIndex, Data, Next, emmRestarts' = 0,
         NEW r \in Requests, Finish(r)
  PROVE  Data'
<1> USE DEF TInv, TypeOK, Data
<1>1. UNCHANGED <<idx, intact, op, key, block, view>> /\ pc[r] = "copy"
  BY DEF Finish, emmVars, workload
<1>2. \A w \in Requests : Sealed(w) => Sealed(w)'
  BY SealedStays
<1>3. BlocksOwned'
  BY <1>1, <1>2 DEF BlocksOwned, Cells
<1>4. ViewsOwned'
  BY <1>1, <1>2 DEF ViewsOwned, Cells
<1>5. CASE op[r] = "get"
  <2>1. /\ got' = [got EXCEPT ![r] = Decode(view[r])]
        /\ pc' = [pc EXCEPT ![r] = IF Decode(view[r]) = Blank THEN "nil" ELSE "value"]
    BY <1>5 DEF Finish, Mutator
  <2>2. ASSUME Decode(view[r]) # Blank
        PROVE  LET w == Decode(view[r]) IN
               w \in Requests /\ op[w] = "set" /\ Sealed(w) /\ key[w] = key[r] /\ intact[w]
    <3> DEFINE w == Decode(view[r])
    <3>1. w \in Requests /\ intact[w] /\ \A p \in Parts : view[r][p] = w
      BY <2>2, DecodeSound
    <3>2. PICK p \in Parts : view[r][p] = w
      BY <3>1, EmmAssumption
    <3>3. op[w] = "set" /\ Sealed(w) /\ idx[w] = idx[r]
      BY <2>2, <3>2 DEF ViewsOwned
    <3>4. idx[r] # NoId
      BY <1>1 DEF HasIndex
    <3>5. key[w] = key[r]
      BY <3>1, <3>3, <3>4 DEF Ownership
    <3>. QED
      BY <3>1, <3>3, <3>5
  <2>3. ASSUME NEW s \in Requests, s # r, pc'[s] = "value" PROVE got'[s] # Blank
    BY <2>1, <2>3 DEF AnswersOwned
  <2>4. pc'[r] = "value" => got'[r] # Blank
    BY <2>1
  <2>5. ASSUME NEW s \in Requests, got'[s] # Blank
        PROVE  /\ op[got'[s]] = "set" /\ Sealed(got'[s])
               /\ key[got'[s]] = key[s] /\ intact[got'[s]] /\ got'[s] \in Requests
    <3>1. CASE s = r
      BY <2>1, <2>2, <2>5, <3>1
    <3>2. CASE s # r
      BY <2>1, <2>5, <3>2 DEF AnswersOwned, Cells
    <3>. QED
      BY <3>1, <3>2
  <2>6. AnswersOwned'
    BY <1>1, <1>2, <2>3, <2>4, <2>5 DEF AnswersOwned
  <2>. QED
    BY <1>3, <1>4, <2>6
<1>6. CASE Mutator(r)
  <2>1. pc' = [pc EXCEPT ![r] = "ok"] /\ got' = got
    BY <1>6 DEF Finish, Mutator
  <2>2. AnswersOwned'
    BY <1>1, <1>2, <2>1 DEF AnswersOwned, Cells
  <2>. QED
    BY <1>3, <1>4, <2>2
<1>. QED
  BY <1>5, <1>6 DEF Finish

LEMMA DataKept ==
  ASSUME TInv, Ownership, HasIndex, Data, Next, emmRestarts' = 0
  PROVE  Data'
<1>1. CASE \E r \in Requests, p \in Parts : CopyPart(r, p)
  BY <1>1, CopyKeepsData
<1>2. CASE \E r \in Requests : Finish(r)
  BY <1>2, FinishKeepsData
<1>3. CASE /\ \A r \in Requests, p \in Parts : ~CopyPart(r, p)
           /\ \A r \in Requests : ~Finish(r)
  <2>1. UNCHANGED <<block, view, got>>
    <3>1. ASSUME NEW r \in Requests, Arrive(r) PROVE UNCHANGED <<block, view, got>>
      BY <3>1 DEF Arrive, emmVars
    <3>2. ASSUME NEW r \in Requests, Handle(r) PROVE UNCHANGED <<block, view, got>>
      BY <1>3, <3>2 DEF Handle, HirbGet, HirbGetFails, TakeId, HirbSet,
                        HirbSetFails, AccessBeyond, AccessBlock, Unsupported, emmVars
    <3>3. ASSUME HirbRestart PROVE UNCHANGED <<block, view, got>>
      BY <3>3 DEF HirbRestart, emmVars, local
    <3>4. ~EmmRestart
      BY DEF EmmRestart, TInv, TypeOK
    <3>. QED
      BY <3>1, <3>2, <3>3, <3>4 DEF Next
  <2>2. \A r \in Requests : pc'[r] = "value" => pc[r] = "value"
    BY <1>3 DEF TInv, TypeOK, Next, Handle, Arrive, HirbGet, HirbGetFails,
                TakeId, HirbSet, HirbSetFails, AccessBeyond, AccessBlock,
                Unsupported, HirbRestart, EmmRestart, local
  <2>3. \A w \in Requests : Sealed(w) =>
           /\ Sealed(w)' /\ idx'[w] = idx[w] /\ intact'[w] = intact[w]
           /\ op'[w] = op[w] /\ key'[w] = key[w]
    BY SealedStays
  <2>4. BlocksOwned'
    BY <2>1, <2>3 DEF BlocksOwned, Data, TInv, TypeOK, Cells
  <2>5. ViewsOwned'
    BY <2>1, <2>3 DEF ViewsOwned, Data, TInv, TypeOK, Cells
  <2>6. key' = key
    BY DEF Next, Handle, Arrive, HirbGet, HirbGetFails, TakeId, HirbSet,
           HirbSetFails, AccessBeyond, AccessBlock, Unsupported, CopyPart,
           Finish, HirbRestart, EmmRestart, workload
  <2>7. AnswersOwned'
    BY <2>1, <2>2, <2>3, <2>6 DEF AnswersOwned, Data, TInv, TypeOK, Cells
  <2>. QED
    BY <2>4, <2>5, <2>7 DEF Data
<1>. QED
  BY <1>1, <1>2, <1>3

LEMMA IInvInductive == IInv /\ [Next]_vars => IInv'
<1> SUFFICES ASSUME IInv, [Next]_vars PROVE IInv'
  OBVIOUS
<1>1. TInv'
  BY NextTyped DEF IInv
<1>2. ASSUME Next, emmRestarts' = 0 PROVE (Ownership /\ HasIndex /\ Data)'
  <2>1. emmRestarts = 0
    <3>1. ASSUME NEW r \in Requests, Arrive(r) PROVE emmRestarts' = emmRestarts
      BY <3>1 DEF Arrive, budget
    <3>2. ASSUME NEW r \in Requests, Handle(r) PROVE emmRestarts' = emmRestarts
      BY <3>2 DEF Handle, HirbGet, HirbGetFails, TakeId, HirbSet, HirbSetFails,
                  AccessBeyond, AccessBlock, Unsupported, CopyPart, Finish, budget
    <3>3. HirbRestart => emmRestarts' = emmRestarts
      BY DEF HirbRestart
    <3>4. ~EmmRestart
      BY <1>2 DEF EmmRestart, IInv, TInv, TypeOK
    <3>. QED
      BY <1>2, <3>1, <3>2, <3>3, <3>4 DEF Next
  <2>. QED
    BY <1>2, <2>1, OwnershipKept, DataKept DEF IInv
<1>3. CASE UNCHANGED vars
  BY <1>3 DEF IInv, vars, TInv, TypeOK, CopiesInStore, Ownership, HasIndex, Data,
              BlocksOwned, ViewsOwned, AnswersOwned, Sealed, Cells
<1>. QED
  BY <1>1, <1>2, <1>3 DEF IInv

LEMMA Invariant == Spec => []IInv
<1>1. Init => IInv
  BY InitTyped, InitOwned DEF IInv
<1>. QED
  BY <1>1, IInvInductive, PTL DEF Spec

\* Until the EMM server restarts, no block index is in use for two keys, with
\* any number of racing allocations, failed HIRB calls and HIRB restarts.
THEOREM Isolation == Spec => []IndexIsolation
<1>1. IInv => IndexIsolation
  BY DEF IInv, Ownership, IndexIsolation, Held
<1>. QED
  BY Invariant, <1>1, PTL

\* Until the EMM server restarts, a get answers null or what a set stored,
\* undamaged, under the get's own key, however the copies interleave.
THEOREM OwnValues == Spec => []ReadsOwnKey
<1>1. IInv => ReadsOwnKey
  BY DEF IInv, TInv, TypeOK, Cells, Data, AnswersOwned, ReadsOwnKey
<1>. QED
  BY Invariant, <1>1, PTL

-----------------------------------------------------------------------------
\* No read brings back a value that was overwritten or deleted before the read
\* arrived, though the index of a key may change under the handlers that use it.

\* Whoever has ended had been given an index.
Indexed == \A r \in Requests : Done(r) => idx[r] # NoId

\* An index that waits to be registered is known to nobody else; so an index
\* that a key has lost never comes back.
Unregistered ==
    \A r \in Requests : pc[r] = "register" =>
        /\ \A k \in Keys : index[k] # idx[r]
        /\ \A s \in Requests : s # r => idx[s] # idx[r]

\* What precedes a request has ended.
Over == \A r \in Requests : \A s \in before[r] : Done(s)

\* No block has any of the value of w.
Erased(w) == \A i \in Blocks, p \in Parts : block[i][p] # w

\* The key of w leads elsewhere.
Detached(w) == index[key[w]] # idx[w]

\* x is to replace the value of w.
Replaces(x, w) == Mutator(x) /\ w \in before[x] /\ key[w] = key[x]

\* On its way to the acknowledgement x either overwrites the value of w part by
\* part, or the key has already moved away from it.
Overtaken ==
    \A x, w \in Requests : Replaces(x, w) =>
        /\ pc[x] \in {"access", "copy"} => idx[x] = idx[w] \/ Detached(w)
        /\ pc[x] = "copy" /\ idx[x] = idx[w] =>
              \A i \in Blocks, p \in Parts \ todo[x] : block[i][p] # w
        /\ pc[x] = "ok" => Erased(w) \/ Detached(w)

\* When g arrived the value of w had been replaced.
Replaced(w, g) ==
    /\ pc[g] # "idle" /\ key[w] = key[g]
    /\ \E x \in before[g] : Replaces(x, w) /\ pc[x] = "ok"

\* Then g neither gets to a block with it, nor copies nor returns it.
Unread ==
    \A g, w \in Requests : Replaced(w, g) =>
        /\ pc[g] \in {"register", "access", "copy"} => idx[g] # idx[w] \/ Erased(w)
        /\ \A p \in Parts : view[g][p] # w
        /\ pc[g] = "value" => got[g] # w

Fresh == Indexed /\ Unregistered /\ Over /\ Overtaken /\ Unread

\* The inductive invariant behind NoStaleRead.
FInv == IInv /\ (emmRestarts = 0 => Fresh)
-----------------------------------------------------------------------------
\* The bodies of the requests are fixed, and a step moves one handler only.
LEMMA BodiesFixed == Next => UNCHANGED workload
BY DEF Next, Handle, Arrive, HirbGet, HirbGetFails, TakeId, HirbSet, HirbSetFails,
       AccessBeyond, AccessBlock, Unsupported, CopyPart, Finish, HirbRestart, EmmRestart,
       workload

LEMMA OthersKeep ==
  ASSUME TInv, Next, emmRestarts' = 0, NEW r \in Requests, ~Arrive(r), ~Handle(r)
  PROVE  /\ pc'[r] = pc[r] /\ idx'[r] = idx[r] /\ todo'[r] = todo[r]
         /\ view'[r] = view[r] /\ got'[r] = got[r] /\ before'[r] = before[r]
<1> DEFINE Same == /\ pc'[r] = pc[r] /\ idx'[r] = idx[r] /\ todo'[r] = todo[r]
                   /\ view'[r] = view[r] /\ got'[r] = got[r] /\ before'[r] = before[r]
<1> USE DEF TInv, TypeOK
<1>1. ASSUME NEW s \in Requests, s # r, Arrive(s) PROVE Same
  BY <1>1 DEF Arrive
<1>2. ASSUME NEW s \in Requests, s # r, Handle(s) PROVE Same
  <2>1. CASE HirbGet(s) \/ HirbGetFails(s) \/ TakeId(s)
    BY <1>2, <2>1 DEF HirbGet, HirbGetFails, TakeId
  <2>2. CASE HirbSet(s) \/ HirbSetFails(s) \/ AccessBeyond(s) \/ Unsupported(s)
    BY <1>2, <2>2 DEF HirbSet, HirbSetFails, AccessBeyond, Unsupported
  <2>3. CASE AccessBlock(s) \/ Finish(s)
    BY <1>2, <2>3 DEF AccessBlock, Finish
  <2>4. ASSUME NEW p \in Parts, CopyPart(s, p) PROVE Same
    BY <1>2, <2>4 DEF CopyPart
  <2>. QED
    BY <1>2, <2>1, <2>2, <2>3, <2>4 DEF Handle
<1>3. ASSUME HirbRestart PROVE Same
  BY <1>3 DEF HirbRestart, local
<1>4. ~EmmRestart
  BY DEF EmmRestart
<1>. QED
  BY <1>1, <1>2, <1>3, <1>4 DEF Next

\* Whoever has arrived keeps what precedes it; whoever has ended stays so.
LEMMA ArrivedKeeps ==
  ASSUME TInv, Next, emmRestarts' = 0, NEW r \in Requests, pc[r] # "idle"
  PROVE  /\ pc'[r] # "idle" /\ before'[r] = before[r]
         /\ Done(r) => pc'[r] = pc[r] /\ idx'[r] = idx[r]
<1> USE DEF TInv, TypeOK, Done, Answered
<1>1. CASE Handle(r)
  <2>1. ~Done(r) /\ before' = before
    BY <1>1 DEF Handle, HirbGet, HirbGetFails, TakeId, HirbSet, HirbSetFails,
                AccessBeyond, AccessBlock, Unsupported, CopyPart, Finish
  <2>2. pc'[r] # "idle"
    <3>1. CASE HirbGet(r) \/ HirbGetFails(r) \/ TakeId(r) \/ HirbSet(r)
      BY <3>1 DEF HirbGet, HirbGetFails, TakeId, HirbSet
    <3>2. CASE HirbSetFails(r) \/ AccessBeyond(r) \/ AccessBlock(r) \/ Unsupported(r)
      BY <3>2 DEF HirbSetFails, AccessBeyond, AccessBlock, Unsupported
    <3>3. CASE Finish(r)
      BY <3>3 DEF Finish
    <3>4. CASE \E p \in Parts : CopyPart(r, p)
      BY <3>4 DEF CopyPart
    <3>. QED
      BY <1>1, <3>1, <3>2, <3>3, <3>4 DEF Handle
  <2>. QED
    BY <2>1, <2>2
<1>2. CASE ~Handle(r)
  <2>1. ~Arrive(r)
    BY DEF Arrive
  <2>. QED
    BY <1>2, <2>1, OthersKeep
<1>. QED
  BY <1>1, <1>2

\* A block takes nothing of a request that has ended.
LEMMA NoLateWrite ==
  ASSUME TInv, Next, emmRestarts' = 0, NEW w \in Requests, Done(w),
         NEW i \in Blocks, NEW p \in Parts, block[i][p] # w
  PROVE  block'[i][p] # w
<1> USE DEF TInv, TypeOK
<1>1. ASSUME NEW r \in Requests, NEW q \in Parts, CopyPart(r, q) PROVE block'[i][p] # w
  <2>1. idx[r] \in Blocks /\ r # w /\ w # Blank
    BY <1>1, EmmAssumption DEF CopyPart, CopiesInStore, Done, Answered
  <2>2. CASE block' = block
    BY <2>2
  <2>3. CASE block' = [block EXCEPT ![idx[r]][q] = r]
    BY <2>1, <2>3, UpdatePart DEF Cells
  <2>4. CASE block' = [block EXCEPT ![idx[r]][q] = Blank]
    BY <2>1, <2>4, UpdatePart DEF Cells
  <2>. QED
    BY <1>1, <2>2, <2>3, <2>4 DEF CopyPart
<1>2. CASE \A r \in Requests, q \in Parts : ~CopyPart(r, q)
  <2>1. ~EmmRestart
    BY DEF EmmRestart
  <2>2. block' = block
    BY <1>2, <2>1 DEF Next, Handle, Arrive, HirbGet, HirbGetFails, TakeId, HirbSet,
                      HirbSetFails, AccessBeyond, AccessBlock, Unsupported, Finish,
                      HirbRestart, emmVars
  <2>. QED
    BY <2>2
<1>. QED
  BY <1>1, <1>2

LEMMA ErasedStays ==
  ASSUME TInv, Next, emmRestarts' = 0, NEW w \in Requests, Done(w), Erased(w)
  PROVE  Erased(w)'
BY NoLateWrite DEF Erased

\* A key only changes to an index that was allocated for it, or to none.
LEMMA IndexSteps ==
  ASSUME TInv, Next, emmRestarts' = 0, NEW k \in Keys
  PROVE  \/ index'[k] = index[k] \/ index'[k] = NoId
         \/ \E r \in Requests : pc[r] = "register" /\ pc'[r] # "register" /\ index'[k] = idx[r]
<1> USE DEF TInv, TypeOK
<1>1. ASSUME NEW r \in Requests, HirbSet(r) \/ HirbSetFails(r)
      PROVE  \/ index'[k] = index[k]
             \/ pc[r] = "register" /\ pc'[r] # "register" /\ index'[k] = idx[r]
  BY <1>1 DEF HirbSet, HirbSetFails
<1>2. HirbRestart => index'[k] = NoId
  BY DEF HirbRestart
<1>3. ~EmmRestart
  BY DEF EmmRestart
<1>4. CASE ~HirbRestart /\ \A r \in Requests : ~HirbSet(r) /\ ~HirbSetFails(r)
  BY <1>3, <1>4 DEF Next, Handle, Arrive, HirbGet, HirbGetFails, TakeId, AccessBeyond,
                    AccessBlock, Unsupported, CopyPart, Finish
<1>. QED
  BY <1>1, <1>2, <1>4

\* An index that a key has lost is lost for good.
LEMMA DetachedStays ==
  ASSUME IInv, Next, emmRestarts = 0, emmRestarts' = 0, Indexed, Unregistered,
         NEW w \in Requests, Done(w), Detached(w)
  PROVE  Detached(w)'
<1>1. TInv /\ key[w] \in Keys /\ key' = key
  BY BodiesFixed DEF IInv, TInv, TypeOK, workload
<1>2. pc'[w] = pc[w] /\ idx'[w] = idx[w]
  BY <1>1, ArrivedKeeps DEF Done, Answered
<1>3. idx[w] # NoId /\ pc[w] # "register"
  BY DEF Indexed, Done, Answered
<1>4. \A r \in Requests : pc[r] = "register" => idx[r] # idx[w]
  BY <1>3 DEF Unregistered
<1>. QED
  BY <1>1, <1>2, <1>3, <1>4, IndexSteps DEF Detached
-----------------------------------------------------------------------------
LEMMA IndexedKept ==
  ASSUME IInv, Next, emmRestarts = 0, emmRestarts' = 0, Indexed
  PROVE  Indexed'
<1> SUFFICES ASSUME NEW r \in Requests, Done(r)' PROVE idx'[r] # NoId
  BY DEF Indexed
<1> USE DEF IInv, TInv, TypeOK, Done, Answered
<1>1. CASE Done(r)
  BY <1>1, ArrivedKeeps DEF Indexed
<1>2. CASE ~Done(r)
  <2>1. Handle(r)
    <3>1. ~Arrive(r)
      BY DEF Arrive
    <3>. QED
      BY <1>2, <3>1, OthersKeep
  <2>2. HirbSetFails(r) \/ AccessBeyond(r) \/ Unsupported(r) \/ Finish(r)
    BY <2>1 DEF Handle, HirbGet, HirbGetFails, TakeId, HirbSet, AccessBlock, CopyPart
  <2>3. pc[r] \in {"register", "access", "copy"} /\ idx' = idx
    BY <2>2 DEF HirbSetFails, AccessBeyond, Unsupported, Finish
  <2>. QED
    BY <2>3 DEF HasIndex
<1>. QED
  BY <1>1, <1>2

LEMMA UnregisteredKept ==
  ASSUME IInv, Next, emmRestarts = 0, emmRestarts' = 0, Unregistered
  PROVE  Unregistered'
<1> USE DEF IInv, TInv, TypeOK
<1>1. ASSUME NEW r \in Requests, TakeId(r) PROVE Unregistered'
  <2>1. /\ idx' = [idx EXCEPT ![r] = idCounter] /\ pc' = [pc EXCEPT ![r] = "register"]
        /\ index' = index
    BY <1>1 DEF TakeId
  <2>2. \A k \in Keys : index[k] # idCounter
    BY DEF Ownership
  <2>3. \A s \in Requests : idx[s] # idCounter
    BY DEF Ownership
  <2>. QED
    BY <2>1, <2>2, <2>3 DEF Unregistered
<1>2. ASSUME \A r \in Requests : ~TakeId(r) PROVE Unregistered'
  <2>1. ASSUME NEW r \in Requests, pc'[r] = "register"
        PROVE  pc[r] = "register" /\ idx'[r] = idx[r]
    <3>1. ~Handle(r)
      BY <1>2, <2>1 DEF Handle, HirbGet, HirbGetFails, HirbSet, HirbSetFails, AccessBeyond,
                        AccessBlock, Unsupported, CopyPart, Finish
    <3>2. ~Arrive(r)
      BY <2>1 DEF Arrive
    <3>. QED
      BY <2>1, <3>1, <3>2, OthersKeep
  <2>2. \A s \in Requests : idx'[s] = idx[s] \/ \E k \in Keys : idx'[s] = index[k]
    <3> SUFFICES ASSUME NEW s \in Requests, Arrive(s) \/ Handle(s)
                 PROVE  idx'[s] = idx[s] \/ \E k \in Keys : idx'[s] = index[k]
      BY OthersKeep
    <3>1. CASE HirbGet(s)
      BY <3>1 DEF HirbGet
    <3>2. CASE ~HirbGet(s)
      <4>1. idx' = idx
        BY <1>2, <3>2 DEF Handle, Arrive, HirbGetFails, HirbSet, HirbSetFails, AccessBeyond,
                          AccessBlock, Unsupported, CopyPart, Finish
      <4>. QED
        BY <4>1
    <3>. QED
      BY <3>1, <3>2
  <2>3. ASSUME NEW r \in Requests, pc'[r] = "register", NEW k \in Keys
        PROVE  index'[k] # idx'[r]
    <3>1. idx[r] # NoId
      BY <2>1, <2>3 DEF HasIndex
    <3>2. \A s \in Requests : pc[s] = "register" /\ pc'[s] # "register" => idx[s] # idx[r]
      BY <2>1, <2>3 DEF Unregistered
    <3>. QED
      BY <2>1, <2>3, <3>1, <3>2, IndexSteps DEF Unregistered
  <2>. QED
    BY <2>1, <2>2, <2>3 DEF Unregistered
<1>. QED
  BY <1>1, <1>2

LEMMA OverKept ==
  ASSUME IInv, Next, emmRestarts' = 0, Over
  PROVE  Over'
<1> SUFFICES ASSUME NEW r \in Requests, NEW s \in before'[r] PROVE Done(s)'
  BY DEF Over
<1> USE DEF IInv, TInv, TypeOK
<1>1. Done(s) /\ s \in Requests
  <2>1. CASE Arrive(r)
    BY <2>1 DEF Arrive
  <2>2. CASE ~Arrive(r)
    <3>1. before'[r] = before[r]
      BY <2>2, OthersKeep, ArrivedKeeps
      DEF Handle, HirbGet, HirbGetFails, TakeId, HirbSet, HirbSetFails, AccessBeyond,
          AccessBlock, Unsupported, CopyPart, Finish
    <3>. QED
      BY <3>1 DEF Over
  <2>. QED
    BY <2>1, <2>2
<1>. QED
  BY <1>1, ArrivedKeeps DEF Done, Answered

\* A pair of requests of which the later one has arrived stays such a pair.
LEMMA StillReplaces ==
  ASSUME IInv, Next, emmRestarts' = 0, Over, NEW x \in Requests, NEW w \in Requests,
         pc[x] # "idle", Replaces(x, w)'
  PROVE  /\ Replaces(x, w) /\ Done(w) /\ Done(w)'
         /\ idx'[w] = idx[w] /\ key' = key /\ op' = op
<1>1. key' = key /\ op' = op /\ TInv
  BY BodiesFixed DEF workload, IInv
<1>2. before'[x] = before[x]
  BY <1>1, ArrivedKeeps
<1>3. Replaces(x, w)
  BY <1>1, <1>2 DEF Replaces, Mutator
<1>4. Done(w)
  BY <1>3 DEF Over, Replaces
<1>. QED
  BY <1>1, <1>3, <1>4, ArrivedKeeps DEF Done, Answered

\* A value lies where its request was sent, or nowhere.
LEMMA OnlyInItsBlock ==
  ASSUME IInv, emmRestarts = 0, NEW w \in Requests,
         idx[w] \in Blocks => \A p \in Parts : block[idx[w]][p] # w
  PROVE  Erased(w)
BY EmmAssumption DEF IInv, Data, BlocksOwned, Erased

LEMMA OvertakenKept ==
  ASSUME IInv, Next, emmRestarts = 0, emmRestarts' = 0, Indexed, Unregistered, Over,
         Overtaken
  PROVE  Overtaken'
<1> SUFFICES ASSUME NEW x \in Requests, NEW w \in Requests, Replaces(x, w)'
    PROVE  /\ pc'[x] \in {"access", "copy"} => idx'[x] = idx'[w] \/ Detached(w)'
           /\ pc'[x] = "copy" /\ idx'[x] = idx'[w] =>
                 \A i \in Blocks, p \in Parts \ todo'[x] : block'[i][p] # w
           /\ pc'[x] = "ok" => Erased(w)' \/ Detached(w)'
  BY DEF Overtaken
<1> USE DEF IInv, TInv, TypeOK
<1>1. CASE pc[x] = "idle"
  <2>1. pc'[x] \in {"idle", "lookup"}
    <3>1. ~Handle(x)
      BY <1>1 DEF Handle, HirbGet, HirbGetFails, TakeId, HirbSet, HirbSetFails,
                  AccessBeyond, AccessBlock, Unsupported, CopyPart, Finish
    <3>2. CASE Arrive(x)
      BY <3>2 DEF Arrive
    <3>3. CASE ~Arrive(x)
      BY <1>1, <3>1, <3>3, OthersKeep
    <3>. QED
      BY <3>2, <3>3
  <2>. QED
    BY <2>1
<1>2. CASE pc[x] # "idle"
  <2>1. /\ Replaces(x, w) /\ Done(w) /\ Done(w)'
        /\ idx'[w] = idx[w] /\ key' = key /\ op' = op
    BY <1>2, StillReplaces
  <2>2. /\ Detached(w) => Detached(w)'
        /\ Erased(w) => Erased(w)'
    BY <2>1, DetachedStays, ErasedStays
  <2>3. ~Arrive(x)
    BY <1>2 DEF Arrive
  <2>4. CASE ~Handle(x)
    <3>1. pc'[x] = pc[x] /\ idx'[x] = idx[x] /\ todo'[x] = todo[x]
      BY <2>3, <2>4, OthersKeep
    <3>. QED
      BY <2>1, <2>2, <3>1, NoLateWrite DEF Overtaken
  <2>5. CASE HirbGet(x)
    <3>1. CASE index[key[x]] # NoId
      <4>1. /\ idx' = [idx EXCEPT ![x] = index[key[x]]]
            /\ pc' = [pc EXCEPT ![x] = "access"] /\ index' = index
        BY <2>5, <3>1 DEF HirbGet
      <4>. QED
        BY <2>1, <4>1 DEF Replaces, Detached
    <3>2. CASE index[key[x]] = NoId
      BY <2>5, <3>2 DEF HirbGet
    <3>. QED
      BY <3>1, <3>2
  <2>6. CASE HirbSet(x)
    <3>1. /\ index' = [index EXCEPT ![key[x]] = idx[x]]
          /\ pc[x] = "register" /\ pc' = [pc EXCEPT ![x] = "access"]
      BY <2>6 DEF HirbSet
    <3>2. x # w
      BY <2>1, <3>1 DEF Done, Answered
    <3>3. idx[x] # idx[w]
      BY <3>1, <3>2 DEF Unregistered
    <3>4. index'[key[w]] = idx[x]
      BY <2>1, <3>1 DEF Replaces
    <3>. QED
      BY <2>1, <3>1, <3>3, <3>4 DEF Detached
  <2>7. CASE HirbGetFails(x) \/ TakeId(x) \/ HirbSetFails(x) \/ Unsupported(x)
    BY <2>7 DEF HirbGetFails, TakeId, HirbSetFails, Unsupported
  <2>8. CASE AccessBeyond(x)
    <3>1. /\ pc[x] = "access" /\ idx[x] \notin Blocks
          /\ pc'[x] \in {"ok", "nil"}
      BY <2>8, EmmAssumption DEF AccessBeyond, InStore, Blocks
    <3>2. idx[x] = idx[w] => Erased(w)
      BY <3>1, OnlyInItsBlock
    <3>. QED
      BY <2>1, <2>2, <3>1, <3>2 DEF Overtaken
  <2>9. CASE AccessBlock(x)
    <3>1. /\ pc[x] = "access" /\ pc'[x] = "copy" /\ todo'[x] = Parts
          /\ idx' = idx
      BY <2>9 DEF AccessBlock
    <3>. QED
      BY <2>1, <2>2, <3>1 DEF Overtaken
  <2>10. ASSUME NEW p \in Parts, CopyPart(x, p)
         PROVE  /\ pc'[x] \in {"access", "copy"} => idx'[x] = idx'[w] \/ Detached(w)'
                /\ pc'[x] = "copy" /\ idx'[x] = idx'[w] =>
                      \A i \in Blocks, q \in Parts \ todo'[x] : block'[i][q] # w
                /\ pc'[x] = "ok" => Erased(w)' \/ Detached(w)'
    <3>1. /\ pc[x] = "copy" /\ pc' = pc /\ idx' = idx
          /\ todo' = [todo EXCEPT ![x] = @ \ {p}] /\ idx[x] \in Blocks
      BY <2>10 DEF CopyPart, CopiesInStore
    <3>2. x # w /\ w # Blank
      BY <2>1, <3>1, EmmAssumption DEF Done, Answered
    <3>3. \E c \in {x, Blank} : block' = [block EXCEPT ![idx[x]][p] = c]
      BY <2>1, <2>10 DEF CopyPart, Replaces, Mutator
    <3>4. \A i \in Blocks, q \in Parts :
             \/ i = idx[x] /\ q = p /\ block'[i][q] # w
             \/ ~(i = idx[x] /\ q = p) /\ block'[i][q] = block[i][q]
      BY <3>1, <3>2, <3>3, UpdatePart DEF Cells
    <3>5. ASSUME idx[x] = idx[w], NEW i \in Blocks, NEW q \in Parts \ todo'[x]
          PROVE  block'[i][q] # w
      <4>1. CASE i = idx[x] /\ q = p
        BY <3>4, <4>1
      <4>2. CASE i = idx[x] /\ q # p
        <5>1. q \in Parts \ todo[x]
          BY <3>1, <3>5, <4>2
        <5>. QED
          BY <2>1, <3>1, <3>4, <3>5, <4>2, <5>1 DEF Overtaken
      <4>3. CASE i # idx[x]
        BY <3>2, <3>4, <3>5, <4>3 DEF Data, BlocksOwned
      <4>. QED
        BY <4>1, <4>2, <4>3
    <3>. QED
      BY <2>1, <2>2, <3>1, <3>5 DEF Overtaken
  <2>11. CASE Finish(x)
    <3>1. /\ pc[x] = "copy" /\ todo[x] = {} /\ pc'[x] \in Answered
          /\ idx' = idx
      BY <2>11 DEF Finish, Answered
    <3>2. idx[x] = idx[w] => Erased(w)
      BY <2>1, <3>1 DEF Overtaken, Erased
    <3>3. Erased(w) \/ Detached(w)
      BY <2>1, <3>1, <3>2 DEF Overtaken
    <3>. QED
      BY <2>2, <3>1, <3>3 DEF Answered
  <2>. QED
    BY <2>4, <2>5, <2>6, <2>7, <2>8, <2>9, <2>10, <2>11 DEF Handle
<1>. QED
  BY <1>1, <1>2

\* Whoever had arrived before the step gains no replaced request by it.
LEMMA StillReplaced ==
  ASSUME IInv, Next, emmRestarts' = 0, Over, NEW g \in Requests, NEW w \in Requests,
         pc[g] # "idle", Replaced(w, g)'
  PROVE  /\ Replaced(w, g) /\ Done(w) /\ idx'[w] = idx[w] /\ key' = key /\ op' = op
         /\ Overtaken => Erased(w) \/ Detached(w)
<1>1. before'[g] = before[g] /\ TInv
  BY ArrivedKeeps DEF IInv
<1>2. PICK x \in before[g] : Replaces(x, w)' /\ pc'[x] = "ok"
  BY <1>1 DEF Replaced
<1>3. x \in Requests /\ Done(x) /\ pc[x] # "idle"
  BY <1>1, <1>2 DEF Over, TInv, TypeOK, Done, Answered
<1>4. /\ Replaces(x, w) /\ Done(w) /\ pc[x] = "ok"
      /\ idx'[w] = idx[w] /\ key' = key /\ op' = op
  BY <1>1, <1>2, <1>3, StillReplaces, ArrivedKeeps
<1>. QED
  BY <1>2, <1>3, <1>4 DEF Replaced, Overtaken

LEMMA UnreadKept ==
  ASSUME IInv, Next, emmRestarts = 0, emmRestarts' = 0, Over, Overtaken, Unread
  PROVE  Unread'
<1> DEFINE Goal(g, w) ==
      /\ pc'[g] \in {"register", "access", "copy"} => idx'[g] # idx'[w] \/ Erased(w)'
      /\ \A p \in Parts : view'[g][p] # w
      /\ pc'[g] = "value" => got'[g] # w
<1> SUFFICES ASSUME NEW g \in Requests, NEW w \in Requests, Replaced(w, g)'
             PROVE  Goal(g, w)
  BY DEF Unread
<1> USE DEF IInv, TInv, TypeOK
<1>1. CASE pc[g] = "idle"
  <2>1. Arrive(g)
    <3>1. ~Handle(g)
      BY <1>1 DEF Handle, HirbGet, HirbGetFails, TakeId, HirbSet, HirbSetFails,
                  AccessBeyond, AccessBlock, Unsupported, CopyPart, Finish
    <3>. QED
      BY <1>1, <3>1, OthersKeep DEF Replaced
  <2>2. pc'[g] = "lookup" /\ view' = view
    BY <2>1 DEF Arrive
  <2>3. \A p \in Parts : view[g][p] = Blank
    <3>1. ~Sealed(g)
      BY <1>1 DEF Sealed, Answered
    <3>. QED
      BY <3>1 DEF Data, ViewsOwned
  <2>. QED
    BY <2>2, <2>3, EmmAssumption
<1>2. CASE pc[g] # "idle"
  <2>1. /\ Replaced(w, g) /\ Done(w) /\ idx'[w] = idx[w] /\ key' = key /\ op' = op
        /\ Erased(w) \/ Detached(w)
    BY <1>2, StillReplaced
  <2>2. /\ pc[g] \in {"register", "access", "copy"} => idx[g] # idx[w] \/ Erased(w)
        /\ \A p \in Parts : view[g][p] # w
        /\ pc[g] = "value" => got[g] # w
    BY <2>1 DEF Unread
  <2>3. Erased(w) => Erased(w)'
    BY <2>1, ErasedStays
  <2>4. ~Arrive(g)
    BY <1>2 DEF Arrive
  <2>5. CASE ~Handle(g)
    BY <2>1, <2>2, <2>3, <2>4, <2>5, OthersKeep
  <2>6. CASE HirbGet(g)
    <3>1. CASE index[key[g]] # NoId
      <4>1. /\ idx' = [idx EXCEPT ![g] = index[key[g]]]
            /\ pc' = [pc EXCEPT ![g] = "access"] /\ view' = view
        BY <2>6, <3>1 DEF HirbGet
      <4>2. key[w] = key[g]
        BY <2>1 DEF Replaced
      <4>. QED
        BY <2>1, <2>2, <2>3, <4>1, <4>2 DEF Detached
    <3>2. CASE index[key[g]] = NoId
      BY <2>2, <2>6, <3>2 DEF HirbGet
    <3>. QED
      BY <3>1, <3>2
  <2>7. CASE TakeId(g)
    <3>1. /\ idx' = [idx EXCEPT ![g] = idCounter]
          /\ pc' = [pc EXCEPT ![g] = "register"] /\ view' = view
      BY <2>7 DEF TakeId
    <3>2. idx[w] # idCounter
      BY DEF Ownership
    <3>. QED
      BY <2>1, <2>2, <3>1, <3>2
  <2>8. CASE HirbSet(g) \/ HirbSetFails(g) \/ HirbGetFails(g) \/ Unsupported(g)
    BY <2>1, <2>2, <2>3, <2>8 DEF HirbSet, HirbSetFails, HirbGetFails, Unsupported
  <2>9. CASE AccessBeyond(g) \/ AccessBlock(g)
    BY <2>1, <2>2, <2>3, <2>9 DEF AccessBeyond, AccessBlock
  <2>10. ASSUME NEW p \in Parts, CopyPart(g, p) PROVE Goal(g, w)
    <3>1. pc[g] = "copy" /\ pc' = pc /\ idx' = idx /\ got' = got /\ idx[g] \in Blocks
      BY <2>10 DEF CopyPart, CopiesInStore
    <3>2. \A q \in Parts : view'[g][q] # w
      <4>1. CASE view' = view
        BY <2>2, <4>1
      <4>2. CASE view' = [view EXCEPT ![g][p] = block[idx[g]][p]]
        <5>1. block[idx[g]][p] \in Cells /\ block[idx[g]][p] # w
          BY <2>2, <3>1, EmmAssumption DEF Data, BlocksOwned, Erased
        <5>. QED
          BY <2>2, <4>2, <5>1, UpdatePart
      <4>. QED
        BY <2>10, <4>1, <4>2 DEF CopyPart
    <3>. QED
      BY <2>1, <2>2, <2>3, <3>1, <3>2
  <2>11. CASE Finish(g)
    <3>1. pc'[g] \in Answered /\ view' = view /\ pc[g] = "copy"
      BY <2>11 DEF Finish, Answered
    <3>2. pc'[g] = "value" => got'[g] = Decode(view[g])
      BY <2>11 DEF Finish
    <3>3. Decode(view[g]) # w
      BY <2>2, DecodeSound, EmmAssumption
    <3>. QED
      BY <2>2, <3>1, <3>2, <3>3 DEF Answered
  <2>. QED
    BY <2>5, <2>6, <2>7, <2>8, <2>9, <2>10, <2>11 DEF Handle
<1>. QED
  BY <1>1, <1>2
-----------------------------------------------------------------------------
\* The EMM server does not unmake its restarts.
LEMMA RestartsGrow == TInv /\ [Next]_vars /\ emmRestarts' = 0 => emmRestarts = 0
<1> SUFFICES ASSUME TInv, [Next]_vars, emmRestarts' = 0 PROVE emmRestarts = 0
  OBVIOUS
<1>1. ~EmmRestart
  BY DEF EmmRestart, TInv, TypeOK
<1>. QED
  BY <1>1 DEF Next, Handle, Arrive, HirbGet, HirbGetFails, TakeId, HirbSet, HirbSetFails,
              AccessBeyond, AccessBlock, Unsupported, CopyPart, Finish, HirbRestart, budget,
              vars

LEMMA FInvInductive == FInv /\ [Next]_vars => FInv'
<1> SUFFICES ASSUME FInv, [Next]_vars PROVE FInv'
  OBVIOUS
<1>1. IInv'
  BY IInvInductive DEF FInv
<1>2. ASSUME Next, emmRestarts' = 0 PROVE Fresh'
  <2>1. IInv /\ emmRestarts = 0 /\ Fresh
    BY <1>2, RestartsGrow DEF FInv, IInv
  <2>. QED
    BY <1>2, <2>1, IndexedKept, UnregisteredKept, OverKept, OvertakenKept, UnreadKept
    DEF Fresh
<1>3. CASE UNCHANGED vars
  BY <1>1, <1>3 DEF FInv, Fresh, vars, Indexed, Unregistered, Over, Overtaken, Unread,
                    Replaced, Replaces, Erased, Detached, Done, Mutator
<1>. QED
  BY <1>1, <1>2, <1>3 DEF FInv

LEMMA InitFresh == Init => FInv
<1> SUFFICES ASSUME Init PROVE FInv
  OBVIOUS
<1>1. IInv
  BY InitTyped, InitOwned DEF IInv
<1>2. \A r \in Requests : pc[r] = "idle" /\ before[r] = {}
  BY DEF Init
<1>3. Fresh
  BY <1>2 DEF Fresh, Indexed, Unregistered, Over, Overtaken, Unread, Replaced, Replaces,
              Done, Answered
<1>. QED
  BY <1>1, <1>3 DEF FInv

\* Until the EMM server restarts, a get never answers with a value that had been
\* overwritten or deleted when it arrived, however often the index of its key
\* changed meanwhile.
THEOREM NeverStale == Spec => []NoStaleRead
<1>1. FInv => NoStaleRead
  <2> SUFFICES ASSUME FInv, emmRestarts = 0, NEW g \in Requests, NEW x \in Requests,
                      pc[g] = "value", x \in before[g], Mutator(x), pc[x] = "ok",
                      key[x] = key[g], got[g] \in before[x]
               PROVE  FALSE
    BY DEF NoStaleRead
  <2>1. got[g] \in Requests /\ key[got[g]] = key[g]
    BY EmmAssumption DEF FInv, IInv, TInv, TypeOK, Data, AnswersOwned, Cells
  <2>2. Replaced(got[g], g)
    BY <2>1 DEF Replaced, Replaces
  <2>. QED
    BY <2>1, <2>2 DEF FInv, Fresh, Unread
<1>. QED
  BY InitFresh, FInvInductive, <1>1, PTL DEF Spec

-----------------------------------------------------------------------------
\* The EMM server as a map.

\* Clients never overlap requests on one key, nothing fails, and the store has a
\* block for every key.  Ciphertexts may be damaged in storage.
Conditions ==
    /\ ExclusiveKeys
    /\ MaxFaults = 0 /\ MaxHirbRestarts = 0 /\ MaxEmmRestarts = 0
    /\ IsFiniteSet(Keys) /\ Cardinality(Keys) < NumBlocks

Exclusive ==
    \A r, s \in Requests : InFlight(r) /\ InFlight(s) /\ key[r] = key[s] => r = s

\* Every key takes at most one index.
IndexedKeys ==
    {k \in Keys : index[k] # NoId \/ \E r \in Requests : key[r] = k /\ pc[r] = "register"}
Frugal == idCounter <= Cardinality(IndexedKeys) + 1

\* A handler is never wrong about the index of its key.
KnowsIndex ==
    \A r \in Requests :
        /\ pc[r] \in {"alloc", "register"} => index[key[r]] = NoId
        /\ pc[r] \in {"access", "copy"} => index[key[r]] = idx[r]

\* b is the ciphertext c, or blank; and the value that it decodes to.
IsWhole(b, c) == c \in Cells /\ \A p \in Parts : b[p] = c
Value(c)      == IF c # Blank /\ intact[c] THEN c ELSE Blank

\* The block of a key that nobody writes is the ciphertext of one request.
BlocksWhole ==
    \A k \in Keys : index[k] # NoId /\ Writer(k) = {} =>
        \E c \in Cells : IsWhole(block[index[k]], c)

\* How far a copy is.
CopyGoesOn ==
    \A r \in Requests : pc[r] = "copy" =>
        /\ op[r] # "other"
        /\ op[r] = "set" => \A p \in Parts \ todo[r] : block[idx[r]][p] = r
        /\ op[r] = "del" => \A p \in Parts \ todo[r] : block[idx[r]][p] = Blank
        /\ op[r] = "get" => \A p \in Parts \ todo[r] : view[r][p] = block[idx[r]][p]

\* The inductive invariant behind the refinement.
Calm == Exclusive /\ Frugal /\ KnowsIndex /\ BlocksWhole /\ CopyGoesOn
RInv == FInv /\ emmRestarts = 0 /\ Calm
-----------------------------------------------------------------------------
LEMMA WholeDecodes ==
  ASSUME NEW I, NEW b, NEW c \in Cells, \A p \in Parts : b[p] = c
  PROVE  (IF c # Blank /\ I[c] THEN c ELSE Blank)
         = IF \E w \in Requests : I[w] /\ \A p \in Parts : b[p] = w
             THEN CHOOSE w \in Requests : I[w] /\ \A p \in Parts : b[p] = w
             ELSE Blank
<1>1. PICK p \in Parts : TRUE
  BY EmmAssumption
<1>2. \A w \in Requests : (\A q \in Parts : b[q] = w) => w = c
  BY <1>1
<1>3. CASE c = Blank
  BY <1>2, <1>3, EmmAssumption
<1>4. CASE c # Blank
  BY <1>2, <1>4 DEF Cells
<1>. QED
  BY <1>3, <1>4

LEMMA DecodeWhole ==
  ASSUME NEW b, NEW c, IsWhole(b, c)
  PROVE  Decode(b) = Value(c)
BY WholeDecodes DEF Decode, IsWhole, Value

\* Nothing fails.
LEMMA NoFailures ==
  ASSUME Conditions, TInv
  PROVE  /\ ~HirbRestart /\ ~EmmRestart
         /\ \A r : ~HirbGetFails(r) /\ ~HirbSetFails(r)
BY DEF Conditions, TInv, TypeOK, HirbRestart, EmmRestart, HirbGetFails, HirbSetFails

\* All indices are within the store.
LEMMA InTheStore ==
  ASSUME Conditions, RInv
  PROVE  /\ idCounter <= NumBlocks
         /\ \A k \in Keys : index[k] \in Blocks
         /\ \A r \in Requests : idx[r] \in Blocks
<1> USE DEF RInv, FInv, IInv, TInv, TypeOK
<1>1. /\ IsFiniteSet(IndexedKeys) /\ Cardinality(IndexedKeys) \in Nat
      /\ Cardinality(IndexedKeys) <= Cardinality(Keys)
      /\ Cardinality(Keys) \in Nat
  BY FS_Subset, FS_CardinalityType DEF IndexedKeys, Conditions
<1>2. idCounter <= NumBlocks
  BY <1>1, EmmAssumption DEF Calm, Frugal, Conditions
<1>. QED
  BY <1>2, EmmAssumption DEF Ownership, Blocks

\* An index that waits to be registered has an empty block.
LEMMA NewBlockIsEmpty ==
  ASSUME Conditions, RInv, NEW r \in Requests, pc[r] = "register"
  PROVE  \A p \in Parts : block[idx[r]][p] = Blank
<1> USE DEF RInv, FInv, IInv, TInv, TypeOK
<1>1. idx[r] \in Blocks
  BY InTheStore
<1>2. ASSUME NEW p \in Parts, block[idx[r]][p] # Blank PROVE FALSE
  <2> DEFINE w == block[idx[r]][p]
  <2>1. w \in Requests /\ Sealed(w) /\ idx[w] = idx[r]
    BY <1>1, <1>2 DEF Data, BlocksOwned, Cells
  <2>2. w # r
    BY <2>1 DEF Sealed, Answered
  <2>. QED
    BY <2>1, <2>2 DEF Fresh, Unregistered
<1>. QED
  BY <1>2

\* Two handlers that are past the registration have different blocks, and a
\* handler has no block of another key.
LEMMA OwnBlocks ==
  ASSUME RInv, NEW r \in Requests, pc[r] \in {"access", "copy"}
  PROVE  /\ \A s \in Requests : s # r /\ pc[s] \in {"access", "copy"} =>
               key[s] # key[r] /\ idx[s] # idx[r]
         /\ \A k \in Keys : k # key[r] => index[k] # idx[r]
<1> USE DEF RInv, FInv, IInv, TInv, TypeOK
<1>1. idx[r] # NoId
  BY DEF HasIndex
<1>2. \A s \in Requests : s # r /\ pc[s] \in {"access", "copy"} => key[s] # key[r]
  BY DEF Calm, Exclusive, InFlight, Active
<1>. QED
  BY <1>1, <1>2 DEF Ownership
-----------------------------------------------------------------------------
LEMMA ExclusiveKept ==
  ASSUME Conditions, RInv, Next, emmRestarts' = 0
  PROVE  Exclusive'
<1> USE DEF RInv, FInv, IInv, TInv, TypeOK
<1>1. key' = key
  BY BodiesFixed DEF workload
<1>2. \A s \in Requests : InFlight(s)' => InFlight(s) \/ Arrive(s)
  <2> SUFFICES ASSUME NEW s \in Requests, InFlight(s)', ~InFlight(s), ~Arrive(s)
               PROVE  FALSE
    OBVIOUS
  <2>1. ~Handle(s)
    BY DEF Handle, HirbGet, HirbGetFails, TakeId, HirbSet, HirbSetFails, AccessBeyond,
           AccessBlock, Unsupported, CopyPart, Finish, InFlight, Active
  <2>. QED
    BY <2>1, OthersKeep DEF InFlight
<1>3. ASSUME NEW r \in Requests, Arrive(r) PROVE Exclusive'
  <2>1. \A s \in Requests : InFlight(s) => key[s] # key[r]
    BY <1>3 DEF Arrive, Conditions
  <2>2. \A s \in Requests : InFlight(s)' => InFlight(s) \/ s = r
    BY <1>3 DEF Arrive, InFlight
  <2>. QED
    BY <1>1, <2>1, <2>2 DEF Calm, Exclusive
<1>4. CASE \A r \in Requests : ~Arrive(r)
  BY <1>1, <1>2, <1>4 DEF Calm, Exclusive
<1>. QED
  BY <1>3, <1>4

LEMMA FrugalKept ==
  ASSUME Conditions, RInv, Next, emmRestarts' = 0
  PROVE  Frugal'
<1> USE DEF RInv, FInv, IInv, TInv, TypeOK
<1>1. key' = key
  BY BodiesFixed DEF workload
<1>2. \A k \in Keys : index[k] # NoId => index'[k] # NoId
  <2>1. ASSUME NEW r \in Requests, HirbSet(r)
        PROVE  \A k \in Keys : index[k] # NoId => index'[k] # NoId
    BY <2>1 DEF HirbSet, HasIndex
  <2>2. CASE \A r \in Requests : ~HirbSet(r)
    <3>1. index' = index
      BY <2>2, NoFailures DEF Next, Handle, Arrive, HirbGet, TakeId, AccessBeyond,
                              AccessBlock, Unsupported, CopyPart, Finish
    <3>. QED
      BY <3>1
  <2>. QED
    BY <2>1, <2>2
<1>3. ASSUME NEW r \in Requests, pc[r] = "register"
      PROVE  pc'[r] = "register" \/ index'[key[r]] # NoId
  <2>1. CASE Handle(r)
    <3>1. HirbSet(r)
      BY <1>3, <2>1, NoFailures
      DEF Handle, HirbGet, TakeId, AccessBeyond, AccessBlock, Unsupported, CopyPart, Finish
    <3>. QED
      BY <1>3, <3>1 DEF HirbSet, HasIndex
  <2>2. CASE ~Handle(r)
    <3>1. ~Arrive(r)
      BY <1>3 DEF Arrive
    <3>. QED
      BY <1>3, <2>2, <3>1, OthersKeep
  <2>. QED
    BY <2>1, <2>2
<1>4. IndexedKeys \subseteq IndexedKeys'
  BY <1>1, <1>2, <1>3 DEF IndexedKeys
<1>5. /\ IsFiniteSet(IndexedKeys) /\ IsFiniteSet(IndexedKeys')
      /\ Cardinality(IndexedKeys) \in Nat /\ Cardinality(IndexedKeys)' \in Nat
  <2>1. IsFiniteSet(IndexedKeys) /\ IsFiniteSet(IndexedKeys')
    BY FS_Subset DEF IndexedKeys, Conditions
  <2>. QED
    BY <2>1, FS_CardinalityType
<1>6. Cardinality(IndexedKeys) <= Cardinality(IndexedKeys)'
  BY <1>4, <1>5, FS_Subset
<1>7. ASSUME NEW r \in Requests, TakeId(r) PROVE Frugal'
  <2>1. idCounter' = idCounter + 1 /\ pc[r] = "alloc" /\ pc'[r] = "register"
    BY <1>7 DEF TakeId
  <2>2. key[r] \notin IndexedKeys
    <3>1. index[key[r]] = NoId
      BY <2>1 DEF Calm, KnowsIndex
    <3>2. \A s \in Requests : key[s] = key[r] => pc[s] # "register"
      BY <2>1 DEF Calm, Exclusive, InFlight, Active
    <3>. QED
      BY <3>1, <3>2 DEF IndexedKeys
  <2>3. key[r] \in IndexedKeys'
    BY <1>1, <2>1 DEF IndexedKeys
  <2>4. IndexedKeys \cup {key[r]} \subseteq IndexedKeys'
    BY <1>4, <2>3
  <2>5. /\ IsFiniteSet(IndexedKeys \cup {key[r]})
        /\ Cardinality(IndexedKeys \cup {key[r]}) = Cardinality(IndexedKeys) + 1
    BY <1>5, <2>2, FS_AddElement
  <2>6. Cardinality(IndexedKeys \cup {key[r]}) <= Cardinality(IndexedKeys)'
    BY <1>5, <2>4, FS_Subset
  <2>. QED
    BY <1>5, <2>1, <2>5, <2>6 DEF Calm, Frugal
<1>8. CASE \A r \in Requests : ~TakeId(r)
  <2>1. idCounter' = idCounter
    BY <1>8, NoFailures DEF Next, Handle, Arrive, HirbGet, HirbSet, AccessBeyond,
                            AccessBlock, Unsupported, CopyPart, Finish, emmVars
  <2>. QED
    BY <1>5, <1>6, <2>1 DEF Calm, Frugal
<1>. QED
  BY <1>7, <1>8

LEMMA KnowsIndexKept ==
  ASSUME Conditions, RInv, Next, emmRestarts' = 0
  PROVE  KnowsIndex'
<1> USE DEF RInv, FInv, IInv, TInv, TypeOK
<1>1. key' = key
  BY BodiesFixed DEF workload
<1>2. ASSUME NEW r \in Requests, HirbSet(r) PROVE KnowsIndex'
  <2>1. /\ index' = [index EXCEPT ![key[r]] = idx[r]] /\ pc[r] = "register"
        /\ pc' = [pc EXCEPT ![r] = "access"] /\ idx' = idx
    BY <1>2 DEF HirbSet
  <2>2. \A s \in Requests : s # r /\ pc[s] \in Active => key[s] # key[r]
    BY <2>1 DEF Calm, Exclusive, InFlight, Active
  <2>. QED
    BY <1>1, <2>1, <2>2 DEF Calm, KnowsIndex, Active
<1>3. CASE \A r \in Requests : ~HirbSet(r)
  <2>1. index' = index
    BY <1>3, NoFailures DEF Next, Handle, Arrive, HirbGet, TakeId, AccessBeyond,
                            AccessBlock, Unsupported, CopyPart, Finish
  <2>2. ASSUME NEW r \in Requests
        PROVE  /\ pc'[r] \in {"alloc", "register"} => index[key[r]] = NoId
               /\ pc'[r] \in {"access", "copy"} => index[key[r]] = idx'[r]
    <3>1. CASE Arrive(r)
      BY <3>1 DEF Arrive
    <3>2. CASE HirbGet(r)
      BY <3>2 DEF HirbGet
    <3>3. CASE TakeId(r)
      BY <3>3 DEF TakeId, Calm, KnowsIndex
    <3>4. CASE AccessBeyond(r) \/ AccessBlock(r) \/ Unsupported(r)
      BY <3>4 DEF AccessBeyond, AccessBlock, Unsupported, Calm, KnowsIndex
    <3>5. CASE Finish(r)
      BY <3>5 DEF Finish
    <3>6. ASSUME NEW p \in Parts, CopyPart(r, p)
          PROVE  /\ pc'[r] \in {"alloc", "register"} => index[key[r]] = NoId
                 /\ pc'[r] \in {"access", "copy"} => index[key[r]] = idx'[r]
      BY <3>6 DEF CopyPart, Calm, KnowsIndex
    <3>7. CASE ~Arrive(r) /\ ~Handle(r)
      BY <3>7, OthersKeep DEF Calm, KnowsIndex
    <3>. QED
      BY <1>3, <3>1, <3>2, <3>3, <3>4, <3>5, <3>6, <3>7, NoFailures DEF Handle
  <2>. QED
    BY <1>1, <2>1, <2>2 DEF KnowsIndex
<1>. QED
  BY <1>2, <1>3

\* A block is changed by copies into it only.
LEMMA BlockSteps ==
  ASSUME Conditions, RInv, Next, emmRestarts' = 0
  PROVE  \A i \in Blocks :
            \/ block'[i] = block[i]
            \/ \E r \in Requests, p \in Parts : Mutator(r) /\ CopyPart(r, p) /\ idx[r] = i
<1> USE DEF RInv, FInv, IInv, TInv, TypeOK
<1>1. ASSUME NEW r \in Requests, NEW p \in Parts, CopyPart(r, p)
      PROVE  \A i \in Blocks :
                \/ block'[i] = block[i]
                \/ Mutator(r) /\ idx[r] = i
  BY <1>1 DEF CopyPart, Mutator
<1>2. CASE \A r \in Requests, p \in Parts : ~CopyPart(r, p)
  <2>1. block' = block
    BY <1>2, NoFailures DEF Next, Handle, Arrive, HirbGet, TakeId, HirbSet, AccessBeyond,
                            AccessBlock, Unsupported, Finish, emmVars
  <2>. QED
    BY <2>1
<1>. QED
  BY <1>1, <1>2

LEMMA CopyGoesOnKept ==
  ASSUME Conditions, RInv, Next, emmRestarts' = 0
  PROVE  CopyGoesOn'
<1> DEFINE Goal(r) ==
      /\ op'[r] # "other"
      /\ op'[r] = "set" => \A p \in Parts \ todo'[r] : block'[idx'[r]][p] = r
      /\ op'[r] = "del" => \A p \in Parts \ todo'[r] : block'[idx'[r]][p] = Blank
      /\ op'[r] = "get" => \A p \in Parts \ todo'[r] : view'[r][p] = block'[idx'[r]][p]
<1> SUFFICES ASSUME NEW r \in Requests, pc'[r] = "copy" PROVE Goal(r)
  BY DEF CopyGoesOn
<1> USE DEF RInv, FInv, IInv, TInv, TypeOK
<1>1. op' = op
  BY BodiesFixed DEF workload
<1>2. CASE AccessBlock(r)
  <2>1. todo'[r] = Parts /\ op[r] # "other"
    BY <1>2 DEF AccessBlock
  <2>. QED
    BY <1>1, <2>1
<1>3. ASSUME NEW p \in Parts, CopyPart(r, p) PROVE Goal(r)
  <2>1. /\ pc[r] = "copy" /\ idx' = idx /\ idx[r] \in Blocks
        /\ todo' = [todo EXCEPT ![r] = @ \ {p}]
    BY <1>3 DEF CopyPart, CopiesInStore
  <2>2. \A q \in Parts \ todo'[r] : q = p \/ q \in Parts \ todo[r]
    BY <2>1
  <2>3. CASE op[r] = "set"
    <3>1. block' = [block EXCEPT ![idx[r]][p] = r]
      BY <1>3, <2>3 DEF CopyPart
    <3>. QED
      BY <1>1, <2>1, <2>2, <2>3, <3>1 DEF Calm, CopyGoesOn
  <2>4. CASE op[r] = "del"
    <3>1. block' = [block EXCEPT ![idx[r]][p] = Blank]
      BY <1>3, <2>4 DEF CopyPart
    <3>. QED
      BY <1>1, <2>1, <2>2, <2>4, <3>1 DEF Calm, CopyGoesOn
  <2>5. CASE op[r] = "get"
    <3>1. view' = [view EXCEPT ![r][p] = block[idx[r]][p]] /\ block' = block
      BY <1>3, <2>5 DEF CopyPart
    <3>. QED
      BY <1>1, <2>1, <2>2, <2>5, <3>1 DEF Calm, CopyGoesOn
  <2>. QED
    BY <1>3, <2>3, <2>4, <2>5 DEF CopyPart
<1>4. CASE ~AccessBlock(r) /\ \A p \in Parts : ~CopyPart(r, p)
  <2>1. ~Handle(r)
    BY <1>4, NoFailures DEF Handle, HirbGet, TakeId, HirbSet, AccessBeyond, Unsupported,
                            Finish, Answered
  <2>2. ~Arrive(r)
    BY DEF Arrive
  <2>3. /\ pc[r] = "copy" /\ idx'[r] = idx[r] /\ todo'[r] = todo[r]
        /\ view'[r] = view[r]
    BY <2>1, <2>2, OthersKeep
  <2>4. block'[idx[r]] = block[idx[r]]
    <3>1. idx[r] \in Blocks
      BY <2>3 DEF CopiesInStore
    <3>2. \A s \in Requests, p \in Parts : CopyPart(s, p) => idx[s] # idx[r]
      BY <1>4, <2>3, OwnBlocks DEF CopyPart
    <3>. QED
      BY <3>1, <3>2, BlockSteps
  <2>. QED
    BY <1>1, <2>3, <2>4 DEF Calm, CopyGoesOn
<1>. QED
  BY <1>2, <1>3, <1>4

\* The block of a key that nobody writes or registers stays as it is.
LEMMA QuietKey ==
  ASSUME Conditions, RInv, Next, emmRestarts' = 0, NEW k \in Keys,
         \A r \in Requests : key[r] = k => ~HirbSet(r) /\ ~(Finish(r) /\ Mutator(r))
  PROVE  /\ index'[k] = index[k]
         /\ Writer(k) \subseteq Writer(k)'
         /\ Writer(k) = {} /\ index[k] # NoId => block'[index[k]] = block[index[k]]
<1> USE DEF RInv, FInv, IInv, TInv, TypeOK
<1>1. key' = key /\ op' = op
  BY BodiesFixed DEF workload
<1>2. index'[k] = index[k]
  <2>1. ASSUME NEW r \in Requests, HirbSet(r) PROVE index'[k] = index[k]
    BY <2>1 DEF HirbSet
  <2>2. CASE \A r \in Requests : ~HirbSet(r)
    BY <2>2, NoFailures DEF Next, Handle, Arrive, HirbGet, TakeId, AccessBeyond,
                            AccessBlock, Unsupported, CopyPart, Finish
  <2>. QED
    BY <2>1, <2>2
<1>3. Writer(k) \subseteq Writer(k)'
  <2> SUFFICES ASSUME NEW s \in Writer(k) PROVE s \in Writer(k)'
    OBVIOUS
  <2>1. s \in Requests /\ pc[s] = "copy" /\ key[s] = k /\ Mutator(s)
    BY DEF Writer
  <2>2. pc'[s] = "copy"
    <3>1. CASE \E p \in Parts : CopyPart(s, p)
      BY <2>1, <3>1 DEF CopyPart
    <3>2. CASE ~Handle(s)
      BY <2>1, <3>2, OthersKeep DEF Arrive
    <3>. QED
      BY <2>1, <3>1, <3>2, NoFailures DEF Handle, HirbGet, TakeId, HirbSet, AccessBeyond,
                                          AccessBlock, Unsupported
  <2>. QED
    BY <1>1, <2>1, <2>2 DEF Writer, Mutator
<1>4. ASSUME Writer(k) = {}, index[k] # NoId PROVE block'[index[k]] = block[index[k]]
  <2>1. index[k] \in Blocks
    BY InTheStore
  <2>2. \A r \in Requests, p \in Parts : Mutator(r) /\ CopyPart(r, p) => idx[r] # index[k]
    BY <1>4, OwnBlocks DEF CopyPart, Writer
  <2>. QED
    BY <2>1, <2>2, BlockSteps
<1>. QED
  BY <1>2, <1>3, <1>4

\* Whoever writes a key does so alone.
LEMMA OneWriter ==
  ASSUME RInv, NEW r \in Requests, InFlight(r)
  PROVE  /\ \A s \in Requests : InFlight(s) /\ key[s] = key[r] => s = r
         /\ Writer(key[r]) = IF pc[r] = "copy" /\ Mutator(r) THEN {r} ELSE {}
BY DEF RInv, Calm, Exclusive, Writer, InFlight, Active

\* When a write ends, the block of its key is what it has written.
LEMMA WriteEnds ==
  ASSUME RInv, NEW r \in Requests, Finish(r), Mutator(r)
  PROVE  /\ index[key[r]] = idx[r]
         /\ IsWhole(block[idx[r]], IF op[r] = "set" THEN r ELSE Blank)
<1> USE DEF RInv
<1>1. pc[r] = "copy" /\ todo[r] = {} /\ op[r] \in {"set", "del"}
  BY DEF Finish, Mutator
<1>2. index[key[r]] = idx[r]
  BY <1>1 DEF Calm, KnowsIndex
<1>3. /\ op[r] = "set" => \A p \in Parts : block[idx[r]][p] = r
      /\ op[r] = "del" => \A p \in Parts : block[idx[r]][p] = Blank
  BY <1>1 DEF Calm, CopyGoesOn
<1>. QED
  BY <1>1, <1>2, <1>3 DEF IsWhole, Cells

LEMMA BlocksWholeKept ==
  ASSUME Conditions, RInv, Next, emmRestarts' = 0
  PROVE  BlocksWhole'
<1> SUFFICES ASSUME NEW k \in Keys, index'[k] # NoId, Writer(k)' = {}
             PROVE  \E c \in Cells : IsWhole(block[index[k]], c)'
  BY DEF BlocksWhole
<1> USE DEF RInv, FInv, IInv, TInv, TypeOK
<1>1. ASSUME NEW r \in Requests, key[r] = k, HirbSet(r)
      PROVE  \E c \in Cells : IsWhole(block[index[k]], c)'
  <2>1. index'[k] = idx[r] /\ block' = block
    BY <1>1 DEF HirbSet, emmVars
  <2>2. \A p \in Parts : block[idx[r]][p] = Blank
    BY <1>1, NewBlockIsEmpty DEF HirbSet
  <2>. QED
    BY <2>1, <2>2 DEF IsWhole, Cells
<1>2. ASSUME NEW r \in Requests, key[r] = k, Finish(r), Mutator(r)
      PROVE  \E c \in Cells : IsWhole(block[index[k]], c)'
  <2>1. UNCHANGED <<index, block>>
    BY <1>2 DEF Finish, emmVars
  <2>2. PICK c \in Cells : index[k] = idx[r] /\ IsWhole(block[idx[r]], c)
    BY <1>2, WriteEnds DEF Cells
  <2>3. \A p \in Parts : block'[index'[k]][p] = c
    BY <2>1, <2>2 DEF IsWhole
  <2>. QED
    BY <2>3 DEF IsWhole
<1>3. CASE \A r \in Requests : key[r] = k => ~HirbSet(r) /\ ~(Finish(r) /\ Mutator(r))
  <2>1. /\ index'[k] = index[k] /\ Writer(k) = {}
        /\ block'[index[k]] = block[index[k]]
    BY <1>3, QuietKey
  <2>2. PICK c \in Cells : IsWhole(block[index[k]], c)
    BY <2>1 DEF Calm, BlocksWhole
  <2>3. \A p \in Parts : block'[index'[k]][p] = c
    BY <2>1, <2>2 DEF IsWhole
  <2>. QED
    BY <2>3 DEF IsWhole
<1>. QED
  BY <1>1, <1>2, <1>3

LEMMA RInvInductive ==
  ASSUME Conditions
  PROVE  RInv /\ [Next]_vars => RInv'
<1> SUFFICES ASSUME RInv, [Next]_vars PROVE RInv'
  OBVIOUS
<1>1. FInv'
  BY FInvInductive DEF RInv
<1>2. CASE Next
  <2>1. emmRestarts' = 0
    <3>1. TInv
      BY DEF RInv, FInv, IInv
    <3>2. ~EmmRestart /\ ~HirbRestart /\ emmRestarts = 0
      BY <3>1, NoFailures DEF RInv
    <3>. QED
      BY <1>2, <3>2 DEF Next, Handle, Arrive, HirbGet, HirbGetFails, TakeId, HirbSet,
             HirbSetFails, AccessBeyond, AccessBlock, Unsupported, CopyPart, Finish, budget
  <2>. QED
    BY <1>1, <1>2, <2>1, ExclusiveKept, FrugalKept, KnowsIndexKept, BlocksWholeKept,
       CopyGoesOnKept DEF RInv, Calm
<1>3. CASE UNCHANGED vars
  BY <1>1, <1>3 DEF RInv, Calm, vars, Exclusive, Frugal, IndexedKeys, KnowsIndex, BlocksWhole,
                    CopyGoesOn, IsWhole, Writer, Mutator, InFlight
<1>. QED
  BY <1>2, <1>3
-----------------------------------------------------------------------------
\* The abstract value of a key, and when a step leaves it alone.
LEMMA StoredWhole ==
  ASSUME Conditions, RInv, NEW k \in Keys, index[k] # NoId,
         NEW c, IsWhole(block[index[k]], c)
  PROVE  Stored(k) = Value(c)
<1>1. InStore(index[k])
  BY InTheStore, EmmAssumption DEF InStore, Blocks
<1>2. Decode(block[index[k]]) = Value(c)
  BY DecodeWhole
<1>. QED
  BY <1>1, <1>2 DEF Stored

LEMMA StoredNext ==
  ASSUME NEW k \in Keys, index'[k] \in Blocks, index'[k] # NoId, NEW c \in Cells,
         \A p \in Parts : block'[index'[k]][p] = c
  PROVE  Stored(k)' = IF c # Blank /\ intact'[c] THEN c ELSE Blank
<1>1. InStore(index[k])'
  BY EmmAssumption DEF InStore, Blocks
<1>2. Decode(block[index[k]])' = IF c # Blank /\ intact'[c] THEN c ELSE Blank
  BY WholeDecodes DEF Decode
<1>. QED
  BY <1>1, <1>2 DEF Stored

LEMMA MapKept ==
  ASSUME Conditions, RInv, Next, emmRestarts' = 0, NEW k \in Keys,
         \A r \in Requests : key[r] = k =>
            ~HirbSet(r) /\ ~(Mutator(r) /\ (Finish(r) \/ AccessBlock(r)))
  PROVE  /\ Writer(k) = {} => Stored(k)' = Stored(k)
         /\ AbsMap(k)' = AbsMap(k)
<1> USE DEF RInv, FInv, IInv, TInv, TypeOK
<1>1. key' = key /\ op' = op
  BY BodiesFixed DEF workload
<1>2. /\ index'[k] = index[k]
      /\ Writer(k) \subseteq Writer(k)'
      /\ Writer(k) = {} /\ index[k] # NoId => block'[index[k]] = block[index[k]]
  BY QuietKey
<1>3. Writer(k)' \subseteq Writer(k)
  <2> SUFFICES ASSUME NEW s \in Requests, pc'[s] = "copy", key[s] = k, Mutator(s)
               PROVE  pc[s] = "copy"
    BY <1>1 DEF Writer, Mutator
  <2>1. CASE \E p \in Parts : CopyPart(s, p)
    BY <2>1 DEF CopyPart
  <2>2. CASE Handle(s) /\ ~(\E p \in Parts : CopyPart(s, p))
    BY <2>2, NoFailures DEF Handle, HirbGet, TakeId, AccessBeyond, Unsupported, Answered
  <2>3. CASE ~Handle(s)
    BY <2>3, OthersKeep DEF Arrive
  <2>. QED
    BY <2>1, <2>2, <2>3
<1>4. ASSUME Writer(k) = {} PROVE Stored(k)' = Stored(k)
  <2>1. CASE index[k] = NoId
    BY <1>2, <2>1 DEF Stored
  <2>2. CASE index[k] # NoId
    <3>1. PICK c \in Cells : IsWhole(block[index[k]], c)
      BY <1>4, <2>2 DEF Calm, BlocksWhole
    <3>2. Stored(k) = Value(c)
      BY <2>2, <3>1, StoredWhole
    <3>3. c # Blank => intact'[c] = intact[c]
      <4>1. PICK p \in Parts : TRUE
        BY EmmAssumption
      <4>2. index[k] \in Blocks /\ block[index[k]][p] = c
        BY <3>1, InTheStore DEF IsWhole
      <4>3. c # Blank => c \in Requests /\ Sealed(c)
        BY <4>2 DEF Data, BlocksOwned, Cells
      <4>. QED
        BY <4>3, SealedStays
    <3>4. \A p \in Parts : block'[index'[k]][p] = c
      BY <1>2, <1>4, <2>2, <3>1 DEF IsWhole
    <3>5. index'[k] \in Blocks /\ index'[k] # NoId
      BY <1>2, <2>2, InTheStore
    <3>6. Stored(k)' = IF c # Blank /\ intact'[c] THEN c ELSE Blank
      BY <3>4, <3>5, StoredNext
    <3>. QED
      BY <3>2, <3>3, <3>6 DEF Value
  <2>. QED
    BY <2>1, <2>2
<1>5. Writer(k)' = Writer(k)
  BY <1>2, <1>3
<1>6. AbsMap(k)' = AbsMap(k)
  <2>1. CASE Writer(k) = {}
    BY <1>4, <1>5, <2>1 DEF AbsMap
  <2>2. CASE Writer(k) # {}
    <3> DEFINE s == CHOOSE s \in Writer(k) : TRUE
    <3>1. s \in Requests /\ Sealed(s)
      BY <2>2 DEF Writer, Sealed
    <3>2. intact'[s] = intact[s]
      BY <3>1, SealedStays
    <3>. QED
      BY <1>1, <1>5, <2>2, <3>2 DEF AbsMap, Effect
  <2>. QED
    BY <2>1, <2>2
<1>. QED
  BY <1>4, <1>6

\* The abstract result of a get does not change but when the get enters the copy.
LEMMA OutKept ==
  ASSUME Conditions, RInv, Next, emmRestarts' = 0, NEW r \in Requests,
         op[r] = "get" => ~AccessBlock(r)
  PROVE  AbsOut(r)' = AbsOut(r)
<1> USE DEF RInv, FInv, IInv, TInv, TypeOK
<1>1. key' = key /\ op' = op
  BY BodiesFixed DEF workload
<1>2. CASE Finish(r) /\ op[r] = "get"
  <2>1. /\ pc[r] = "copy" /\ todo[r] = {} /\ index[key[r]] = idx[r] /\ index[key[r]] # NoId
        /\ got'[r] = Decode(view[r]) /\ pc'[r] # "copy"
    BY <1>2 DEF Finish, Mutator, Calm, KnowsIndex, HasIndex
  <2>2. Writer(key[r]) = {}
    BY <1>2, <2>1, OneWriter DEF InFlight, Active, Mutator
  <2>3. PICK c \in Cells : IsWhole(block[index[key[r]]], c)
    BY <2>1, <2>2 DEF Calm, BlocksWhole
  <2>4. Stored(key[r]) = Value(c)
    BY <2>1, <2>3, StoredWhole
  <2>5. IsWhole(view[r], c)
    BY <1>2, <2>1, <2>3, SMTT(30) DEF Calm, CopyGoesOn, IsWhole
  <2>6. Decode(view[r]) = Value(c)
    BY <2>5, DecodeWhole
  <2>. QED
    BY <1>1, <1>2, <2>1, <2>4, <2>6 DEF AbsOut
<1>3. CASE pc[r] = "copy" /\ op[r] = "get" /\ ~Finish(r)
  <2>1. pc'[r] = "copy"
    <3>1. CASE \E p \in Parts : CopyPart(r, p)
      BY <1>3, <3>1 DEF CopyPart
    <3>2. CASE ~Handle(r)
      BY <1>3, <3>2, OthersKeep DEF Arrive
    <3>. QED
      BY <1>3, <3>1, <3>2, NoFailures DEF Handle, HirbGet, TakeId, HirbSet, AccessBeyond,
                                          AccessBlock, Unsupported
  <2>2. \A s \in Requests : InFlight(s) /\ key[s] = key[r] => s = r
    BY <1>3, OneWriter DEF InFlight, Active
  <2>3. Writer(key[r]) = {}
    BY <1>3, OneWriter DEF InFlight, Active, Mutator
  <2>4. \A s \in Requests : key[s] = key[r] =>
           ~HirbSet(s) /\ ~(Mutator(s) /\ (Finish(s) \/ AccessBlock(s)))
    BY <1>3, <2>2 DEF HirbSet, Finish, AccessBlock, InFlight, Active, Mutator
  <2>5. Stored(key[r])' = Stored(key[r])
    BY <1>1, <2>3, <2>4, MapKept
  <2>. QED
    BY <1>1, <1>3, <2>1, <2>5 DEF AbsOut
<1>4. CASE ~(pc[r] = "copy" /\ op[r] = "get")
  <2>1. ~(pc'[r] = "copy" /\ op[r] = "get")
    <3>1. CASE Handle(r)
      BY <1>4, <3>1, NoFailures DEF Handle, HirbGet, TakeId, HirbSet, AccessBeyond,
                                    AccessBlock, Unsupported, CopyPart, Finish, Answered
    <3>2. CASE ~Handle(r)
      BY <1>4, <3>2, OthersKeep DEF Arrive
    <3>. QED
      BY <3>1, <3>2
  <2>2. got'[r] = got[r]
    <3>1. CASE Handle(r)
      BY <1>4, <3>1, NoFailures DEF Handle, HirbGet, TakeId, HirbSet, AccessBeyond,
                                    AccessBlock, Unsupported, CopyPart, Finish
    <3>2. CASE ~Handle(r)
      BY <1>4, <3>2, OthersKeep DEF Arrive
    <3>. QED
      BY <3>1, <3>2
  <2>. QED
    BY <1>1, <1>4, <2>1, <2>2 DEF AbsOut
<1>. QED
  BY <1>2, <1>3, <1>4 DEF Finish
-----------------------------------------------------------------------------
\* A step of a handler is seen in its own state, and in no other's.
LEMMA OneMoves ==
  ASSUME Conditions, TInv, NEW r \in Requests, NEW s \in Requests, s # r,
         Arrive(r) \/ Handle(r)
  PROVE  ~Arrive(s) /\ ~Handle(s)
<1> USE DEF TInv, TypeOK
<1>1. pc'[s] = pc[s] /\ todo'[s] = todo[s]
  <2>1. CASE Arrive(r) \/ HirbGet(r) \/ TakeId(r) \/ HirbSet(r)
    BY <2>1 DEF Arrive, HirbGet, TakeId, HirbSet
  <2>2. CASE AccessBeyond(r) \/ AccessBlock(r) \/ Unsupported(r) \/ Finish(r)
    BY <2>2 DEF AccessBeyond, AccessBlock, Unsupported, Finish
  <2>3. CASE \E p \in Parts : CopyPart(r, p)
    BY <2>3 DEF CopyPart
  <2>. QED
    BY <2>1, <2>2, <2>3, NoFailures DEF Handle
<1>2. Arrive(s) \/ Handle(s) => pc'[s] # pc[s] \/ todo'[s] # todo[s]
  <2>1. CASE Arrive(s) \/ HirbGet(s) \/ TakeId(s) \/ HirbSet(s)
    BY <2>1 DEF Arrive, HirbGet, TakeId, HirbSet
  <2>2. CASE AccessBeyond(s) \/ AccessBlock(s) \/ Unsupported(s)
    BY <2>2 DEF AccessBeyond, AccessBlock, Unsupported
  <2>3. CASE Finish(s)
    BY <2>3 DEF Finish
  <2>4. CASE \E p \in Parts : CopyPart(s, p)
    BY <2>4 DEF CopyPart
  <2>. QED
    BY <2>1, <2>2, <2>3, <2>4, NoFailures DEF Handle
<1>. QED
  BY <1>1, <1>2

\* What a step of r leaves alone in the map.
LEMMA RestKept ==
  ASSUME Conditions, RInv, Next, emmRestarts' = 0, NEW r \in Requests,
         Arrive(r) \/ Handle(r)
  PROVE  /\ key' = key /\ op' = op
         /\ \A s \in Requests \ {r} : Stage(s)' = Stage(s) /\ AbsOut(s)' = AbsOut(s)
         /\ \A k \in Keys \ {key[r]} : AbsMap(k)' = AbsMap(k)
         /\ ~HirbSet(r) /\ ~(Mutator(r) /\ (Finish(r) \/ AccessBlock(r))) =>
               \A k \in Keys : AbsMap(k)' = AbsMap(k)
         /\ (op[r] = "get" => ~AccessBlock(r)) => AbsOut(r)' = AbsOut(r)
<1>1. TInv /\ key' = key /\ op' = op
  BY BodiesFixed DEF workload, RInv, FInv, IInv
<1>2. \A s \in Requests \ {r} : ~Arrive(s) /\ ~Handle(s)
  BY <1>1, OneMoves
<1>3. \A s \in Requests \ {r} : Stage(s)' = Stage(s)
  BY <1>1, <1>2, OthersKeep DEF Stage
<1>4. \A s \in Requests \ {r} : ~HirbSet(s) /\ ~Finish(s) /\ ~AccessBlock(s)
  BY <1>2 DEF Handle
<1>5. \A s \in Requests \ {r} : AbsOut(s)' = AbsOut(s)
  BY <1>4, OutKept
<1>6. \A k \in Keys \ {key[r]} : AbsMap(k)' = AbsMap(k)
  BY <1>4, MapKept
<1>7. ASSUME ~HirbSet(r), ~(Mutator(r) /\ (Finish(r) \/ AccessBlock(r)))
      PROVE  \A k \in Keys : AbsMap(k)' = AbsMap(k)
  BY <1>4, <1>7, MapKept
<1>. QED
  BY <1>1, <1>3, <1>5, <1>6, <1>7, OutKept

\* The map that the server implements.
st  == [r \in Requests |-> Stage(r)]
map == [k \in Keys |-> AbsMap(k)]
out == [r \in Requests |-> AbsOut(r)]

\* Looking the key up, allocating, registering and copying are not seen.
LEMMA HiddenSteps ==
  ASSUME Conditions, RInv, Next, emmRestarts' = 0, NEW r \in Requests,
         HirbGet(r) \/ TakeId(r) \/ HirbSet(r) \/ \E p \in Parts : CopyPart(r, p)
  PROVE  UNCHANGED <<op, key, st, map, out>>
<1> USE DEF RInv, FInv, IInv, TInv, TypeOK
<1>1. Handle(r)
  BY DEF Handle
<1>2. Stage(r)' = Stage(r)
  BY DEF HirbGet, TakeId, HirbSet, CopyPart, Stage, Active
<1>3. AbsMap(key[r])' = AbsMap(key[r])
  <2>1. CASE HirbSet(r)
    <3>1. /\ pc[r] = "register" /\ pc' = [pc EXCEPT ![r] = "access"] /\ block' = block
          /\ index' = [index EXCEPT ![key[r]] = idx[r]] /\ key' = key /\ op' = op
      BY <2>1 DEF HirbSet, emmVars, workload
    <3>2. Writer(key[r]) = {}
      BY <3>1, OneWriter DEF InFlight, Active
    <3>3. Writer(key[r])' = {}
      BY <3>1, <3>2 DEF Writer, Mutator
    <3>4. Stored(key[r]) = Blank
      BY <3>1 DEF Stored, Calm, KnowsIndex
    <3>5. /\ index'[key[r]] = idx[r] /\ idx[r] \in Blocks /\ idx[r] # NoId
          /\ \A p \in Parts : block'[idx[r]][p] = Blank
      BY <3>1, InTheStore, NewBlockIsEmpty DEF HasIndex
    <3>6. Stored(key[r])' = Blank
      <4>1. PICK k \in Keys : k = key[r]
        OBVIOUS
      <4>2. /\ index'[k] \in Blocks /\ index'[k] # NoId
            /\ \A p \in Parts : block'[index'[k]][p] = Blank
        BY <3>5, <4>1
      <4>3. Stored(k)' = Blank
        BY <4>2, StoredNext DEF Cells
      <4>. QED
        BY <3>1, <4>1, <4>3 DEF Stored
    <3>7. AbsMap(key[r]) = Blank
      BY <3>2, <3>4 DEF AbsMap
    <3>8. AbsMap(key[r])' = Blank
      BY <3>1, <3>3, <3>6 DEF AbsMap
    <3>. QED
      BY <3>7, <3>8
  <2>2. CASE ~HirbSet(r)
    <3>1. ~Finish(r) /\ ~AccessBlock(r)
      BY <2>2 DEF HirbGet, TakeId, CopyPart, Finish, AccessBlock
    <3>. QED
      BY <1>1, <2>2, <3>1, RestKept
  <2>. QED
    BY <2>1, <2>2
<1>4. AbsOut(r)' = AbsOut(r)
  <2>1. ~AccessBlock(r)
    BY DEF HirbGet, TakeId, HirbSet, CopyPart, AccessBlock
  <2>. QED
    BY <1>1, <2>1, RestKept
<1>5. /\ key' = key /\ op' = op
      /\ \A s \in Requests \ {r} : Stage(s)' = Stage(s) /\ AbsOut(s)' = AbsOut(s)
      /\ \A k \in Keys \ {key[r]} : AbsMap(k)' = AbsMap(k)
  BY <1>1, RestKept
<1>6. st' = st
  BY <1>2, <1>5 DEF st
<1>7. map' = map
  BY <1>3, <1>5 DEF map
<1>8. out' = out
  BY <1>4, <1>5 DEF out
<1>. QED
  BY <1>5, <1>6, <1>7, <1>8

LEMMA ArriveIsCall ==
  ASSUME Conditions, RInv, Next, emmRestarts' = 0, NEW r \in Requests, Arrive(r)
  PROVE  Map!Call(r)
<1> USE DEF RInv, FInv, IInv, TInv, TypeOK
<1>1. Stage(r) = "idle" /\ Stage(r)' = "called"
  BY DEF Arrive, Stage, Active
<1>2. ~HirbSet(r) /\ ~Finish(r) /\ ~AccessBlock(r)
  BY DEF Arrive, HirbSet, Finish, AccessBlock
<1>3. st' = [st EXCEPT ![r] = "called"] /\ UNCHANGED <<op, key, map, out>>
  BY <1>1, <1>2, RestKept DEF st, map, out
<1>. QED
  BY <1>1, <1>3 DEF Map!Call, st, map, out

\* Entering the C++ access is where a request takes effect.
LEMMA AccessIsApply ==
  ASSUME Conditions, RInv, Next, emmRestarts' = 0, NEW r \in Requests, AccessBlock(r)
  PROVE  /\ Map!Apply(r)
         /\ Mutator(r) => map' = [map EXCEPT ![key[r]] = Effect(r)']
<1> USE DEF RInv, FInv, IInv, TInv, TypeOK
<1>1. /\ Stage(r) = "called" /\ Stage(r)' = "applied"
      /\ pc[r] = "access" /\ pc' = [pc EXCEPT ![r] = "copy"]
      /\ UNCHANGED <<index, block, got>>
  BY DEF AccessBlock, Stage, Active
<1>2. Handle(r) /\ ~HirbSet(r) /\ ~Finish(r)
  BY DEF AccessBlock, HirbSet, Finish, Handle
<1>3. Writer(key[r]) = {} /\ key' = key /\ op' = op
  BY <1>1, <1>2, OneWriter, RestKept DEF InFlight, Active
<1>4. Writer(key[r])' = IF Mutator(r) THEN {r} ELSE {}
  BY <1>1, <1>3 DEF Writer, Mutator
<1>5. st' = [st EXCEPT ![r] = "applied"]
  BY <1>1, <1>2, RestKept DEF st
<1>6. op[r] \in {"set", "del", "get"}
  BY EmmAssumption DEF AccessBlock, AllOps
<1>7. CASE Mutator(r)
  <2>1. AbsMap(key[r])' = Effect(r)'
    BY <1>3, <1>4, <1>7 DEF AbsMap
  <2>2. AbsOut(r)' = AbsOut(r)
    BY <1>2, <1>7, RestKept DEF Mutator
  <2>3. out' = out
    BY <1>2, <2>2, RestKept DEF out
  <2>4. map' = [map EXCEPT ![key[r]] = Effect(r)']
    BY <1>2, <2>1, RestKept DEF map
  <2>5. CASE op[r] = "set"
    <3>1. PICK c \in IntactChoices : intact' = [intact EXCEPT ![r] = c]
      BY <2>5 DEF AccessBlock
    <3>2. map' = [map EXCEPT ![key[r]] = IF c THEN r ELSE Blank]
      BY <1>3, <2>4, <2>5, <3>1 DEF Effect
    <3>. QED
      BY <1>1, <1>3, <1>5, <2>3, <2>4, <2>5, <3>2 DEF Map!Apply, st, map, out
  <2>6. CASE op[r] = "del"
    <3>1. map' = [map EXCEPT ![key[r]] = Blank]
      BY <1>3, <2>4, <2>6 DEF Effect
    <3>. QED
      BY <1>1, <1>3, <1>5, <2>3, <2>4, <2>6, <3>1 DEF Map!Apply, st, map, out
  <2>. QED
    BY <1>7, <2>5, <2>6 DEF Mutator
<1>8. CASE op[r] = "get"
  <2>1. ~Mutator(r)
    BY <1>8 DEF Mutator
  <2>2. map' = map
    BY <1>2, <2>1, RestKept DEF map
  <2>3. Stored(key[r])' = Stored(key[r])
    BY <1>2, <1>3, <2>1, MapKept, OneWriter, OneMoves DEF Handle
  <2>4. AbsMap(key[r]) = Stored(key[r]) /\ AbsOut(r)' = Stored(key[r])'
    BY <1>1, <1>3, <1>8 DEF AbsMap, AbsOut
  <2>5. out' = [out EXCEPT ![r] = map[key[r]]]
    BY <1>2, <2>3, <2>4, RestKept DEF out, map
  <2>. QED
    BY <1>1, <1>3, <1>5, <1>8, <2>1, <2>2, <2>5 DEF Map!Apply, st, map, out
<1>. QED
  BY <1>6, <1>7, <1>8 DEF Mutator

LEMMA UnsupportedIsReject ==
  ASSUME Conditions, RInv, Next, emmRestarts' = 0, NEW r \in Requests, Unsupported(r)
  PROVE  Map!Reject(r)
<1> USE DEF RInv, FInv, IInv, TInv, TypeOK
<1>1. Stage(r) = "called" /\ Stage(r)' = "returned" /\ op[r] = "other"
  BY DEF Unsupported, Stage, Active
<1>2. Handle(r) /\ ~HirbSet(r) /\ ~Finish(r) /\ ~AccessBlock(r)
  BY DEF Unsupported, HirbSet, Finish, AccessBlock, Handle
<1>3. st' = [st EXCEPT ![r] = "returned"] /\ UNCHANGED <<op, key, map, out>>
  BY <1>1, <1>2, RestKept DEF st, map, out
<1>. QED
  BY <1>1, <1>3 DEF Map!Reject, st, map, out

LEMMA FinishIsReturn ==
  ASSUME Conditions, RInv, Next, emmRestarts' = 0, NEW r \in Requests, Finish(r)
  PROVE  Map!Return(r)
<1> USE DEF RInv, FInv, IInv, TInv, TypeOK
<1>1. /\ pc[r] = "copy" /\ pc'[r] \in {"ok", "nil", "value"}
      /\ \A s \in Requests : s # r => pc'[s] = pc[s]
      /\ UNCHANGED <<index, block, intact, idx>>
  BY DEF Finish, emmVars
<1>2. Stage(r) = "applied" /\ Stage(r)' = "returned"
  BY <1>1 DEF Stage, Active
<1>3. Handle(r) /\ ~HirbSet(r) /\ ~AccessBlock(r)
  BY <1>1 DEF HirbSet, AccessBlock, Handle
<1>4. st' = [st EXCEPT ![r] = "returned"] /\ UNCHANGED <<op, key, out>>
  BY <1>2, <1>3, RestKept DEF st, out
<1>5. CASE Mutator(r)
  <2> DEFINE c == IF op[r] = "set" THEN r ELSE Blank
  <2>1. Writer(key[r]) = {r}
    BY <1>1, <1>5, OneWriter DEF InFlight, Active
  <2>2. AbsMap(key[r]) = Effect(r)
    BY <2>1 DEF AbsMap
  <2>3. Writer(key[r])' = {}
    BY <1>1, <1>4, <2>1 DEF Writer, Mutator
  <2>4. index[key[r]] # NoId /\ IsWhole(block[index[key[r]]], c)
    BY <1>1, <1>5, WriteEnds DEF HasIndex
  <2>5. Stored(key[r]) = Effect(r)
    <3>1. Stored(key[r]) = Value(c)
      BY <2>4, StoredWhole
    <3>. QED
      BY <3>1, EmmAssumption DEF Value, Effect
  <2>6. AbsMap(key[r])' = Effect(r)
    BY <1>1, <1>4, <2>3, <2>5 DEF AbsMap, Stored, Decode
  <2>7. map' = map
    BY <1>3, <2>2, <2>6, RestKept DEF map
  <2>. QED
    BY <1>2, <1>4, <2>7 DEF Map!Return, st, map, out
<1>6. CASE ~Mutator(r)
  <2>1. map' = map
    BY <1>3, <1>6, RestKept DEF map
  <2>. QED
    BY <1>2, <1>4, <2>1 DEF Map!Return, st, map, out
<1>. QED
  BY <1>5, <1>6
-----------------------------------------------------------------------------
LEMMA InitCalm == Conditions /\ Init => RInv /\ Map!Init
<1> SUFFICES ASSUME Conditions, Init PROVE RInv /\ Map!Init
  OBVIOUS
<1>1. FInv /\ emmRestarts = 0
  BY InitFresh DEF Init
<1>2. /\ \A r \in Requests : pc[r] = "idle" /\ got[r] = Blank
      /\ \A k \in Keys : index[k] = NoId
  BY DEF Init
<1>3. Frugal
  <2>1. IndexedKeys = {}
    BY <1>2 DEF IndexedKeys
  <2>. QED
    BY <2>1, FS_EmptySet DEF Frugal, Init, FirstId
<1>4. Calm
  BY <1>2, <1>3 DEF Calm, Exclusive, KnowsIndex, BlocksWhole, CopyGoesOn, InFlight, Active
<1>5. /\ \A r \in Requests : Stage(r) = "idle" /\ AbsOut(r) = Blank
      /\ \A k \in Keys : AbsMap(k) = Blank
  <2>1. \A k \in Keys : Writer(k) = {}
    BY <1>2 DEF Writer
  <2>2. \A k \in Keys : Stored(k) = Blank
    BY <1>2 DEF Stored
  <2>3. \A k \in Keys : AbsMap(k) = Blank
    BY <2>1, <2>2 DEF AbsMap
  <2>4. \A r \in Requests : Stage(r) = "idle"
    BY <1>2 DEF Stage, Active
  <2>5. \A r \in Requests : AbsOut(r) = Blank
    BY <1>2 DEF AbsOut
  <2>. QED
    BY <2>3, <2>4, <2>5
<1>. QED
  BY <1>1, <1>4, <1>5 DEF RInv, Map!Init

LEMMA StepIsMapStep ==
  ASSUME Conditions
  PROVE  RInv /\ [Next]_vars => [Map!Next]_(Map!vars)
<1> SUFFICES ASSUME RInv, [Next]_vars PROVE Map!Next \/ UNCHANGED Map!vars
  OBVIOUS
<1>1. UNCHANGED <<op, key, st, map, out>> => UNCHANGED Map!vars
  BY DEF Map!vars, st, map, out
<1>2. CASE UNCHANGED vars
  <2>1. UNCHANGED <<op, key, st, map, out>>
    BY <1>2 DEF vars, st, map, out, Stage, AbsMap, AbsOut, Writer, Mutator, Stored, Decode,
                Effect
  <2>. QED
    BY <1>1, <2>1
<1>3. CASE Next
  <2>1. emmRestarts' = 0 /\ ~HirbRestart /\ ~EmmRestart
    <3>1. TInv /\ RInv'
      BY <1>3, RInvInductive DEF RInv, FInv, IInv
    <3>. QED
      BY <3>1, NoFailures DEF RInv
  <2>2. PICK r \in Requests : Arrive(r) \/ Handle(r)
    BY <1>3, <2>1 DEF Next
  <2>3. CASE Arrive(r)
    BY <1>3, <2>1, <2>3, ArriveIsCall DEF Map!Next
  <2>4. CASE AccessBlock(r) \/ Unsupported(r) \/ Finish(r)
    BY <1>3, <2>1, <2>4, AccessIsApply, UnsupportedIsReject, FinishIsReturn
    DEF Map!Next, Map!Serve
  <2>5. CASE HirbGet(r) \/ TakeId(r) \/ HirbSet(r) \/ \E p \in Parts : CopyPart(r, p)
    BY <1>1, <1>3, <2>1, <2>5, HiddenSteps
  <2>6. ~AccessBeyond(r)
    BY InTheStore, EmmAssumption DEF AccessBeyond, InStore, Blocks
  <2>. QED
    BY <2>2, <2>3, <2>4, <2>5, <2>6, NoFailures DEF Handle, RInv, FInv, IInv
<1>. QED
  BY <1>2, <1>3

\* With requests on one key never overlapping, nothing failing and a block for
\* every index, the EMM server acts as a linearizable map: each request takes
\* effect at once when it enters the C++ access, though its bytes are copied one
\* part at a time while other requests run.
THEOREM ActsAsMap ==
  ASSUME Conditions
  PROVE  Spec => Map!Spec
<1>1. Init => RInv /\ Map!Init
  BY InitCalm
<1>2. RInv /\ [Next]_vars => RInv'
  BY RInvInductive
<1>3. RInv /\ [Next]_vars => [Map!Next]_(Map!vars)
  BY StepIsMapStep
<1>. QED
  BY <1>1, <1>2, <1>3, PTL DEF Spec, Map!Spec
-----------------------------------------------------------------------------
\* A set that got to its block leaves its key with a value, until a ciphertext of
\* the key is damaged or some delete of it arrives.
HasValue ==
    \A w \in Requests, k \in Keys :
        /\ op[w] = "set" /\ key[w] = k /\ pc[w] \in {"copy", "ok"}
        /\ \A s \in Requests :
              op[s] = "set" /\ key[s] = k /\ pc[s] \in {"copy", "ok"} => intact[s]
        /\ \A d \in Requests : op[d] = "del" /\ key[d] = k => pc[d] = "idle"
        => AbsMap(k) # Blank

\* Only a mutator that enters the C++ access changes the map.
LEMMA MapSteps ==
  ASSUME Conditions, RInv, Next, NEW k \in Keys
  PROVE  \/ AbsMap(k)' = AbsMap(k)
         \/ \E r \in Requests : /\ AccessBlock(r) /\ Mutator(r) /\ key[r] = k
                                /\ AbsMap(k)' = Effect(r)'
<1> USE DEF RInv, FInv, IInv, TInv, TypeOK
<1>1. emmRestarts' = 0 /\ ~HirbRestart /\ ~EmmRestart
  <2>1. RInv'
    BY RInvInductive
  <2>. QED
    BY <2>1, NoFailures
<1>2. PICK r \in Requests : Arrive(r) \/ Handle(r)
  BY <1>1 DEF Next
<1>3. CASE AccessBlock(r) /\ Mutator(r)
  <2>1. CASE key[r] = k
    <3>1. map' = [map EXCEPT ![key[r]] = Effect(r)']
      BY <1>1, <1>3, AccessIsApply
    <3>. QED
      BY <1>1, <1>3, <2>1, <3>1 DEF map
  <2>2. CASE key[r] # k
    BY <1>1, <1>2, <2>2, RestKept
  <2>. QED
    BY <2>1, <2>2
<1>4. CASE HirbSet(r) \/ Finish(r)
  <2>1. map' = map
    BY <1>1, <1>4, HiddenSteps, FinishIsReturn DEF Map!Return, map
  <2>. QED
    BY <1>1, <2>1 DEF map
<1>5. CASE ~(AccessBlock(r) /\ Mutator(r)) /\ ~HirbSet(r) /\ ~Finish(r)
  BY <1>1, <1>2, <1>5, RestKept
<1>. QED
  BY <1>3, <1>4, <1>5

LEMMA HasValueKept ==
  ASSUME Conditions, RInv, Next, HasValue
  PROVE  HasValue'
<1> USE DEF RInv, FInv, IInv, TInv, TypeOK
<1>1. emmRestarts' = 0 /\ key' = key /\ op' = op
  <2>1. RInv'
    BY RInvInductive
  <2>. QED
    BY <2>1, BodiesFixed DEF workload
<1> SUFFICES ASSUME NEW w \in Requests, NEW k \in Keys,
                    op[w] = "set", key[w] = k, pc'[w] \in {"copy", "ok"},
                    \A s \in Requests : op[s] = "set" /\ key[s] = k
                       /\ pc'[s] \in {"copy", "ok"} => intact'[s],
                    \A d \in Requests : op[d] = "del" /\ key[d] = k => pc'[d] = "idle"
             PROVE  AbsMap(k)' # Blank
  BY <1>1 DEF HasValue
<1>2. \A d \in Requests : op[d] = "del" /\ key[d] = k => pc[d] = "idle"
  BY <1>1, ArrivedKeeps
<1>3. ASSUME NEW r \in Requests, AccessBlock(r), Mutator(r), key[r] = k,
             AbsMap(k)' = Effect(r)'
      PROVE  AbsMap(k)' # Blank
  <2>1. op[r] = "set"
    BY <1>2, <1>3 DEF AccessBlock, Mutator
  <2>2. pc'[r] = "copy"
    BY <1>3 DEF AccessBlock
  <2>3. intact'[r]
    BY <1>3, <2>1, <2>2
  <2>. QED
    BY <1>1, <1>3, <2>1, <2>3, EmmAssumption DEF Effect
<1>6. \A s \in Requests : op[s] = "set" /\ key[s] = k /\ pc[s] \in {"copy", "ok"} => intact[s]
  <2> SUFFICES ASSUME NEW s \in Requests, op[s] = "set", key[s] = k, pc[s] \in {"copy", "ok"}
               PROVE  intact[s]
    OBVIOUS
  <2>1. Sealed(s) /\ intact'[s] = intact[s] /\ Sealed(s)'
    BY <1>1, SealedStays DEF Sealed, Answered
  <2>2. pc'[s] \in {"copy", "ok"}
    <3>1. CASE pc[s] = "ok"
      BY <1>1, <3>1, ArrivedKeeps DEF Done, Answered
    <3>2. CASE pc[s] = "copy" /\ Handle(s)
      BY <1>1, <3>2, NoFailures DEF Handle, HirbGet, TakeId, HirbSet, AccessBeyond,
                                    AccessBlock, Unsupported, CopyPart, Finish, Mutator
    <3>3. CASE pc[s] = "copy" /\ ~Handle(s)
      BY <1>1, <3>3, OthersKeep DEF Arrive
    <3>. QED
      BY <3>1, <3>2, <3>3
  <2>. QED
    BY <2>1, <2>2
<1>4. CASE pc[w] \in {"copy", "ok"}
  <2>1. AbsMap(k) # Blank
    BY <1>2, <1>4, <1>6 DEF HasValue
  <2>2. CASE AbsMap(k)' = AbsMap(k)
    BY <2>1, <2>2
  <2>3. CASE AbsMap(k)' # AbsMap(k)
    <3>1. PICK r \in Requests : /\ AccessBlock(r) /\ Mutator(r) /\ key[r] = k
                                /\ AbsMap(k)' = Effect(r)'
      BY <2>1, <2>3, MapSteps
    <3>. QED
      BY <1>3, <3>1
  <2>. QED
    BY <2>2, <2>3
<1>5. CASE pc[w] \notin {"copy", "ok"}
  <2>1. AccessBlock(w)
    <3>1. Handle(w)
      BY <1>1, <1>5, OthersKeep DEF Arrive
    <3>2. ~AccessBeyond(w)
      BY InTheStore, EmmAssumption DEF AccessBeyond, InStore, Blocks
    <3>. QED
      BY <1>5, <3>1, <3>2, NoFailures DEF Handle, HirbGet, TakeId, HirbSet, Unsupported,
                                          CopyPart, Finish
  <2>2. AbsMap(k)' = Effect(w)'
    <3>1. map' = [map EXCEPT ![key[w]] = Effect(w)']
      BY <1>1, <2>1, AccessIsApply DEF Mutator
    <3>. QED
      BY <1>1, <3>1 DEF map
  <2>. QED
    BY <1>3, <2>1, <2>2 DEF Mutator
<1>. QED
  BY <1>4, <1>5

\* Under the same conditions an acknowledged set reads back as something for as
\* long as no ciphertext of its key is damaged and no delete of the key arrives,
\* whatever else is set, read, deleted or damaged.
THEOREM AckedStays ==
  ASSUME Conditions
  PROVE  Spec => []AckedWriteReadable
<1>1. Init => HasValue
  BY DEF Init, HasValue
<1>2. RInv /\ HasValue /\ [Next]_vars => HasValue'
  <2>1. CASE UNCHANGED vars
    BY <2>1 DEF vars, HasValue, AbsMap, Writer, Mutator, Stored, Decode, Effect
  <2>. QED
    BY <2>1, HasValueKept
<1>3. RInv /\ HasValue => AckedWriteReadable
  <2> SUFFICES ASSUME RInv, HasValue, \A r \in Requests : ~InFlight(r),
                      NEW w \in Requests, op[w] = "set", pc[w] = "ok",
                      \A s \in Requests :
                         op[s] = "set" /\ key[s] = key[w] /\ pc[s] = "ok" => intact[s],
                      \A d \in Requests : op[d] = "del" /\ key[d] = key[w] => pc[d] = "idle"
               PROVE  Stored(key[w]) # Blank
    BY DEF AckedWriteReadable
  <2>1. Writer(key[w]) = {}
    BY DEF Writer, InFlight, Active
  <2>2. AbsMap(key[w]) # Blank
    <3>1. key[w] \in Keys
      BY DEF RInv, FInv, IInv, TInv, TypeOK
    <3>2. \A s \in Requests : pc[s] # "copy"
      BY DEF InFlight, Active
    <3>. QED
      BY <3>1, <3>2 DEF HasValue
  <2>. QED
    BY <2>1, <2>2 DEF AbsMap
<1>. QED
  BY InitCalm, <1>1, <1>2, <1>3, RInvInductive, PTL DEF Spec
-----------------------------------------------------------------------------
(***************************************************************************)
(* What a get answers, said of the requests themselves: requests on one    *)
(* key come in an order, and a get answers with the last mutator before it.*)
(***************************************************************************)
\* Of two requests on one key that have arrived, one came after the other ended.
Order ==
    /\ \A r, s \in Requests :
          key[r] = key[s] /\ r # s /\ pc[r] # "idle" /\ pc[s] # "idle"
          => r \in before[s] \/ s \in before[r]
    /\ \A r, s \in Requests :
          r \in before[s] => Done(r) /\ s \notin before[r] /\ before[r] \subseteq before[s]

\* How requests end.
Outcome ==
    \A r \in Requests :
        Done(r) => pc[r] = IF Mutator(r) THEN "ok"
                           ELSE IF op[r] = "other" THEN "error"
                           ELSE IF got[r] = Blank THEN "nil" ELSE "value"

Applied(k) == {w \in Requests : Mutator(w) /\ key[w] = k /\ pc[w] \in {"copy", "ok"}}
Prior(g)   == {w \in before[g] : Mutator(w) /\ key[w] = key[g]}

\* v is what the last of the mutators S leaves behind.
Left(v, S) ==
    \/ S = {} /\ v = Blank
    \/ \E w \in S : /\ \A u \in S \ {w} : u \in before[w]
                    /\ v = Effect(w)

MapIsLast == \A k \in Keys : Left(AbsMap(k), Applied(k))
OutIsLast ==
    \A g \in Requests :
        op[g] = "get" /\ pc[g] \in {"copy", "nil", "value"} => Left(AbsOut(g), Prior(g))

OInv == RInv /\ Order /\ Outcome /\ MapIsLast /\ OutIsLast

LEMMA CalmStep ==
  ASSUME Conditions, RInv, Next
  PROVE  /\ RInv' /\ emmRestarts' = 0 /\ key' = key /\ op' = op
         /\ \E r \in Requests :
               /\ \/ Arrive(r) \/ AccessBlock(r) \/ Unsupported(r) \/ Finish(r)
                  \/ HirbGet(r) \/ TakeId(r) \/ HirbSet(r) \/ \E p \in Parts : CopyPart(r, p)
               /\ \A s \in Requests \ {r} : /\ pc'[s] = pc[s] /\ before'[s] = before[s]
                                            /\ got'[s] = got[s]
<1>1. RInv' /\ emmRestarts' = 0 /\ TInv
  BY RInvInductive DEF RInv, FInv, IInv
<1>2. key' = key /\ op' = op
  BY BodiesFixed DEF workload
<1>3. PICK r \in Requests : Arrive(r) \/ Handle(r)
  BY <1>1, NoFailures DEF Next
<1>4. ~AccessBeyond(r) /\ ~HirbGetFails(r) /\ ~HirbSetFails(r)
  BY <1>1, NoFailures, InTheStore, EmmAssumption DEF AccessBeyond, InStore, Blocks
<1>5. \A s \in Requests \ {r} : /\ pc'[s] = pc[s] /\ before'[s] = before[s]
                                /\ got'[s] = got[s]
  BY <1>1, <1>3, OneMoves, OthersKeep
<1>. QED
  BY <1>1, <1>2, <1>3, <1>4, <1>5 DEF Handle

LEMMA OrderKept ==
  ASSUME Conditions, RInv, Next, Order
  PROVE  Order'
<1> USE DEF RInv, FInv, IInv, TInv, TypeOK, Done, Answered
<1>1. key' = key /\ emmRestarts' = 0
  BY CalmStep
<1>2. PICK r \in Requests :
         /\ \/ Arrive(r) \/ AccessBlock(r) \/ Unsupported(r) \/ Finish(r)
            \/ HirbGet(r) \/ TakeId(r) \/ HirbSet(r) \/ \E p \in Parts : CopyPart(r, p)
         /\ \A s \in Requests \ {r} : pc'[s] = pc[s] /\ before'[s] = before[s]
  BY CalmStep
<1>3. \A s \in Requests : Done(s) => pc'[s] = pc[s]
  BY <1>1, ArrivedKeeps
<1>4. CASE Arrive(r)
  <2>1. /\ pc[r] = "idle" /\ before'[r] = {s \in Requests : Done(s)}
        /\ \A s \in Requests : InFlight(s) => key[s] # key[r]
    BY <1>4 DEF Arrive, Conditions
  <2>2. \A s \in Requests : r \notin before[s]
    BY <2>1 DEF Order
  <2>3. \A s \in Requests : s # r /\ key[s] = key[r] /\ pc[s] # "idle" => s \in before'[r]
    BY <2>1 DEF InFlight, Active, PCs
  <2>4. ASSUME NEW s \in Requests, NEW u \in Requests, u \in before'[s]
        PROVE  Done(u)' /\ s \notin before'[u] /\ before'[u] \subseteq before'[s]
    <3>1. Done(u) /\ u # r
      <4>1. CASE s = r
        BY <2>1, <2>4, <4>1
      <4>2. CASE s # r
        BY <1>2, <2>2, <2>4, <4>2 DEF Order
      <4>. QED
        BY <4>1, <4>2
    <3>2. Done(u)' /\ before'[u] = before[u]
      BY <1>2, <1>3, <3>1
    <3>3. CASE s = r
      <4>1. \A t \in before[u] : Done(t)
        BY DEF Order
      <4>. QED
        BY <2>1, <2>2, <3>2, <3>3, <4>1
    <3>4. CASE s # r
      <4>1. before'[s] = before[s]
        BY <1>2, <3>4
      <4>. QED
        BY <2>4, <3>2, <4>1 DEF Order
    <3>. QED
      BY <3>3, <3>4
  <2>5. ASSUME NEW s \in Requests, NEW u \in Requests, key[s] = key[u], s # u,
               pc'[s] # "idle", pc'[u] # "idle"
        PROVE  s \in before'[u] \/ u \in before'[s]
    <3>1. CASE s # r /\ u # r
      BY <1>2, <2>5, <3>1 DEF Order
    <3>2. CASE s = r \/ u = r
      BY <1>2, <2>3, <2>5, <3>2
    <3>. QED
      BY <3>1, <3>2
  <2>. QED
    BY <1>1, <2>4, <2>5 DEF Order
<1>5. CASE ~Arrive(r)
  <2>1. before' = before
    BY <1>2, <1>5 DEF AccessBlock, Unsupported, Finish, HirbGet, TakeId, HirbSet, CopyPart
  <2>2. pc[r] # "idle"
    BY <1>2, <1>5 DEF AccessBlock, Unsupported, Finish, HirbGet, TakeId, HirbSet, CopyPart
  <2>. QED
    BY <1>1, <1>2, <1>3, <2>1, <2>2 DEF Order
<1>. QED
  BY <1>4, <1>5

LEMMA OutcomeKept ==
  ASSUME Conditions, RInv, Next, Outcome
  PROVE  Outcome'
<1> USE DEF RInv, FInv, IInv, TInv, TypeOK, Done, Answered
<1>1. op' = op /\ emmRestarts' = 0
  BY CalmStep
<1>2. PICK r \in Requests :
         /\ \/ Arrive(r) \/ AccessBlock(r) \/ Unsupported(r) \/ Finish(r)
            \/ HirbGet(r) \/ TakeId(r) \/ HirbSet(r) \/ \E p \in Parts : CopyPart(r, p)
         /\ \A s \in Requests \ {r} : pc'[s] = pc[s] /\ got'[s] = got[s]
  BY CalmStep
<1> DEFINE Ends(s) ==
      pc'[s] \in Answered =>
        pc'[s] = IF Mutator(s) THEN "ok" ELSE IF op[s] = "other" THEN "error"
                 ELSE IF got'[s] = Blank THEN "nil" ELSE "value"
<1>3. \A s \in Requests \ {r} : Ends(s)
  BY <1>2 DEF Outcome
<1>4. ASSUME Finish(r) PROVE Ends(r)
  <2>1. CASE Mutator(r)
    BY <1>4, <2>1 DEF Finish, Mutator
  <2>2. CASE ~Mutator(r)
    <3>1. op[r] = "get" /\ got'[r] = Decode(view[r])
      BY <1>4, <2>2 DEF Finish
    <3>2. pc'[r] = IF Decode(view[r]) = Blank THEN "nil" ELSE "value"
      BY <1>4, <2>2 DEF Finish
    <3>. QED
      BY <2>2, <3>1, <3>2
  <2>. QED
    BY <2>1, <2>2
<1>5. ASSUME Unsupported(r) PROVE Ends(r)
  BY <1>5 DEF Unsupported, Mutator
<1>6. ASSUME ~Finish(r), ~Unsupported(r) PROVE Ends(r)
  <2>1. pc'[r] \in {"lookup", "access", "alloc", "register", "copy"}
    <3>1. CASE Arrive(r) \/ AccessBlock(r) \/ HirbGet(r)
      BY <3>1 DEF Arrive, AccessBlock, HirbGet
    <3>2. CASE TakeId(r) \/ HirbSet(r) \/ \E p \in Parts : CopyPart(r, p)
      BY <3>2 DEF TakeId, HirbSet, CopyPart
    <3>. QED
      BY <1>2, <1>6, <3>1, <3>2
  <2>. QED
    BY <2>1
<1>7. Ends(r)
  BY <1>4, <1>5, <1>6
<1>8. \A s \in Requests : Ends(s)
  BY <1>3, <1>7
<1>9. \A s \in Requests : Mutator(s)' = Mutator(s)
  BY <1>1 DEF Mutator
<1>. QED
  BY <1>1, <1>8, <1>9 DEF Outcome

\* When a request is in the C++ access, or about to enter it, every other request
\* on its key that has arrived was answered before.
LEMMA AloneOnKey ==
  ASSUME Conditions, RInv, Order, NEW r \in Requests, pc[r] \in {"access", "copy"},
         NEW s \in Requests, s # r, key[s] = key[r], pc[s] # "idle"
  PROVE  Done(s) /\ s \in before[r]
<1> USE DEF RInv, FInv, IInv, TInv, TypeOK, Done, Answered
<1>1. Done(s)
  BY DEF Calm, Exclusive, InFlight, Active, PCs
<1>2. r \notin before[s]
  BY DEF Order
<1>. QED
  BY <1>1, <1>2 DEF Order

\* How the abstract map moves, in the terms of the server.
LEMMA MapMoves ==
  ASSUME Conditions, RInv, Next, NEW r \in Requests, NEW k \in Keys,
         \/ Arrive(r) \/ AccessBlock(r) \/ Unsupported(r) \/ Finish(r)
         \/ HirbGet(r) \/ TakeId(r) \/ HirbSet(r) \/ \E p \in Parts : CopyPart(r, p)
  PROVE  AbsMap(k)' = IF AccessBlock(r) /\ Mutator(r) /\ key[r] = k
                      THEN Effect(r)' ELSE AbsMap(k)
<1> USE DEF RInv, FInv, IInv, TInv, TypeOK
<1>1. emmRestarts' = 0
  BY CalmStep
<1>2. CASE AccessBlock(r)
  <2>1. IF Mutator(r) THEN map' = [map EXCEPT ![key[r]] = Effect(r)'] ELSE map' = map
    BY <1>1, <1>2, AccessIsApply DEF Map!Apply, map, Mutator
  <2>. QED
    BY <1>2, <2>1 DEF map
<1>3. CASE ~AccessBlock(r)
  <2>1. map' = map
    <3>1. CASE Arrive(r)
      BY <1>1, <3>1, ArriveIsCall DEF Map!Call, map
    <3>2. CASE Unsupported(r)
      BY <1>1, <3>2, UnsupportedIsReject DEF Map!Reject, map
    <3>3. CASE Finish(r)
      BY <1>1, <3>3, FinishIsReturn DEF Map!Return, map
    <3>4. CASE HirbGet(r) \/ TakeId(r) \/ HirbSet(r) \/ \E p \in Parts : CopyPart(r, p)
      BY <1>1, <3>4, HiddenSteps
    <3>. QED
      BY <1>3, <3>1, <3>2, <3>3, <3>4
  <2>. QED
    BY <1>3, <2>1 DEF map
<1>. QED
  BY <1>2, <1>3

LEMMA MapIsLastKept ==
  ASSUME Conditions, RInv, Next, Order, MapIsLast
  PROVE  MapIsLast'
<1> USE DEF RInv, FInv, IInv, TInv, TypeOK
<1>1. key' = key /\ op' = op /\ emmRestarts' = 0
  BY CalmStep
<1>2. PICK r \in Requests :
         /\ \/ Arrive(r) \/ AccessBlock(r) \/ Unsupported(r) \/ Finish(r)
            \/ HirbGet(r) \/ TakeId(r) \/ HirbSet(r) \/ \E p \in Parts : CopyPart(r, p)
         /\ \A s \in Requests \ {r} : pc'[s] = pc[s] /\ before'[s] = before[s]
  BY CalmStep
<1> SUFFICES ASSUME NEW k \in Keys PROVE Left(AbsMap(k), Applied(k))'
  BY DEF MapIsLast
<1>3. \A w \in Requests : pc[w] # "idle" => before'[w] = before[w]
  BY <1>1, ArrivedKeeps
<1>4. CASE AccessBlock(r) /\ Mutator(r) /\ key[r] = k
  <2>1. AbsMap(k)' = Effect(r)'
    BY <1>2, <1>4, MapMoves
  <2>2. pc[r] = "access" /\ pc'[r] = "copy"
    BY <1>4 DEF AccessBlock
  <2>3. r \in Applied(k)'
    BY <1>1, <1>4, <2>2 DEF Applied, Mutator
  <2>4. ASSUME NEW u \in Applied(k)', u # r PROVE u \in before'[r]
    <3>1. u \in Requests /\ key[u] = k /\ pc[u] # "idle"
      BY <1>1, <1>2, <2>4 DEF Applied
    <3>. QED
      BY <1>3, <1>4, <2>2, <2>4, <3>1, AloneOnKey
  <2>. QED
    BY <1>1, <2>1, <2>3, <2>4 DEF Left
<1>5. CASE ~(AccessBlock(r) /\ Mutator(r) /\ key[r] = k)
  <2>1. AbsMap(k)' = AbsMap(k)
    BY <1>2, <1>5, MapMoves
  <2>2. Mutator(r) /\ key[r] = k => (pc'[r] \in {"copy", "ok"} <=> pc[r] \in {"copy", "ok"})
    <3>1. CASE Finish(r)
      BY <3>1 DEF Finish, Mutator
    <3>2. CASE Arrive(r) \/ Unsupported(r) \/ HirbGet(r) \/ TakeId(r) \/ HirbSet(r)
      BY <3>2 DEF Arrive, Unsupported, HirbGet, TakeId, HirbSet
    <3>3. CASE \E p \in Parts : CopyPart(r, p)
      BY <3>3 DEF CopyPart
    <3>. QED
      BY <1>2, <1>5, <3>1, <3>2, <3>3
  <2>3. Applied(k)' = Applied(k)
    BY <1>1, <1>2, <2>2 DEF Applied, Mutator
  <2>4. \A w \in Applied(k) : before'[w] = before[w] /\ Effect(w)' = Effect(w)
    BY <1>1, <1>3, SealedStays DEF Applied, Sealed, Answered, Effect
  <2>5. Left(AbsMap(k), Applied(k))
    BY DEF MapIsLast
  <2>. QED
    BY <1>1, <2>1, <2>3, <2>4, <2>5 DEF Left
<1>. QED
  BY <1>4, <1>5

LEMMA OutIsLastKept ==
  ASSUME Conditions, RInv, Next, Order, Outcome, MapIsLast, OutIsLast
  PROVE  OutIsLast'
<1> USE DEF RInv, FInv, IInv, TInv, TypeOK
<1>1. key' = key /\ op' = op /\ emmRestarts' = 0
  BY CalmStep
<1>2. PICK r \in Requests :
         /\ \/ Arrive(r) \/ AccessBlock(r) \/ Unsupported(r) \/ Finish(r)
            \/ HirbGet(r) \/ TakeId(r) \/ HirbSet(r) \/ \E p \in Parts : CopyPart(r, p)
         /\ \A s \in Requests \ {r} : pc'[s] = pc[s]
  BY CalmStep
<1> SUFFICES ASSUME NEW g \in Requests, op[g] = "get", pc'[g] \in {"copy", "nil", "value"}
             PROVE  Left(AbsOut(g), Prior(g))'
  BY <1>1 DEF OutIsLast
<1>3. \A w \in Requests : pc[w] # "idle" => before'[w] = before[w]
  BY <1>1, ArrivedKeeps
<1>4. \A w \in before[g] : w \in Requests /\ Done(w) /\ pc[w] # "idle"
  BY DEF Order, Done, Answered
<1>9. \A w \in Requests : Done(w) => Effect(w)' = Effect(w)
  BY <1>1, SealedStays DEF Sealed, Done, Effect
<1>5. pc[g] # "idle"
  BY <1>2 DEF Arrive, AccessBlock, Unsupported, Finish, HirbGet, TakeId, HirbSet, CopyPart
<1>6. Prior(g)' = Prior(g)
  BY <1>1, <1>3, <1>5 DEF Prior, Mutator
<1>7. CASE pc[g] \in {"copy", "nil", "value"}
  <2>1. ~AccessBlock(g)
    BY <1>7 DEF AccessBlock
  <2>2. AbsOut(g)' = AbsOut(g)
    <3>1. Arrive(r) \/ Handle(r)
      BY <1>2 DEF Handle
    <3>. QED
      BY <1>1, <2>1, <3>1, RestKept
  <2>3. Left(AbsOut(g), Prior(g))
    BY <1>7 DEF OutIsLast
  <2>4. \A w \in Prior(g) : before'[w] = before[w] /\ Effect(w)' = Effect(w)
    BY <1>3, <1>4, <1>9 DEF Prior
  <2>. QED
    BY <1>1, <1>6, <2>2, <2>3, <2>4 DEF Left
<1>8. CASE pc[g] \notin {"copy", "nil", "value"}
  <2>1. AccessBlock(g)
    <3>1. r = g
      BY <1>2, <1>8
    <3>. QED
      BY <1>2, <1>8, <3>1 DEF Arrive, Unsupported, Finish, HirbGet, TakeId, HirbSet, CopyPart
  <2>2. pc[g] = "access" /\ key[g] \in Keys
    BY <2>1 DEF AccessBlock
  <2>3. AbsOut(g)' = AbsMap(key[g])
    <3>1. out' = [out EXCEPT ![g] = map[key[g]]]
      BY <1>1, <2>1, AccessIsApply DEF Map!Apply, map, out
    <3>. QED
      BY <2>2, <3>1 DEF map, out
  <2>4. Applied(key[g]) = Prior(g)
    <3>1. ASSUME NEW w \in Applied(key[g]) PROVE w \in Prior(g)
      <4>1. w \in Requests /\ w # g /\ key[w] = key[g] /\ pc[w] # "idle" /\ Mutator(w)
        BY DEF Applied, Mutator
      <4>. QED
        BY <2>2, <4>1, AloneOnKey DEF Prior
    <3>2. ASSUME NEW w \in Prior(g) PROVE w \in Applied(key[g])
      BY <1>4 DEF Prior, Applied, Outcome
    <3>. QED
      BY <3>1, <3>2
  <2>5. Left(AbsMap(key[g]), Prior(g))
    BY <2>2, <2>4 DEF MapIsLast
  <2>6. \A w \in Prior(g) : before'[w] = before[w] /\ Effect(w)' = Effect(w)
    BY <1>3, <1>4, <1>9 DEF Prior
  <2>. QED
    BY <1>1, <1>6, <2>3, <2>5, <2>6 DEF Left
<1>. QED
  BY <1>7, <1>8

LEMMA InitOrdered == Conditions /\ Init => OInv
<1> SUFFICES ASSUME Conditions, Init PROVE OInv
  OBVIOUS
<1>1. RInv /\ \A r \in Requests : pc[r] = "idle" /\ before[r] = {}
  BY InitCalm DEF Init
<1>2. Order /\ Outcome /\ OutIsLast
  BY <1>1 DEF Order, Outcome, OutIsLast, Done, Answered
<1>3. MapIsLast
  <2>1. \A k \in Keys : AbsMap(k) = Blank
    BY InitCalm DEF Map!Init
  <2>2. \A k \in Keys : Applied(k) = {}
    BY <1>1 DEF Applied
  <2>. QED
    BY <2>1, <2>2 DEF MapIsLast, Left
<1>. QED
  BY <1>1, <1>2, <1>3 DEF OInv

LEMMA OInvInductive == Conditions /\ OInv /\ [Next]_vars => OInv'
<1> SUFFICES ASSUME Conditions, OInv, [Next]_vars PROVE OInv'
  OBVIOUS
<1>1. CASE Next
  <2>1. RInv'
    BY <1>1, RInvInductive DEF OInv
  <2>2. Order' /\ Outcome'
    BY <1>1, OrderKept, OutcomeKept DEF OInv
  <2>3. MapIsLast' /\ OutIsLast'
    BY <1>1, MapIsLastKept, OutIsLastKept DEF OInv
  <2>. QED
    BY <2>1, <2>2, <2>3 DEF OInv
<1>2. CASE UNCHANGED vars
  <2>1. RInv'
    BY RInvInductive DEF OInv
  <2>2. Order' /\ Outcome'
    BY <1>2 DEF vars, OInv, Order, Outcome, Done, Answered, Mutator
  <2>3. MapIsLast'
    <3>1. \A k \in Keys : AbsMap(k)' = AbsMap(k)
      BY <1>2 DEF vars, AbsMap, Writer, Stored, Decode, Mutator, Effect
    <3>2. \A k \in Keys : Applied(k)' = Applied(k)
      BY <1>2 DEF vars, Applied, Mutator
    <3>. QED
      BY <1>2, <3>1, <3>2 DEF vars, OInv, MapIsLast, Left, Effect
  <2>4. OutIsLast'
    BY <1>2 DEF vars, OInv, OutIsLast, Left, Prior, AbsOut, Stored, Decode, Mutator, Effect
  <2>. QED
    BY <2>1, <2>2, <2>3, <2>4 DEF OInv
<1>. QED
  BY <1>1, <1>2

\* A get that has answered gave what the last mutator of its key before it left:
\* the value of a set whose ciphertext is undamaged, and otherwise nothing.
ReadsLast ==
    \A g \in Requests :
        op[g] = "get" /\ pc[g] \in {"nil", "value"} => Left(got[g], Prior(g))

\* Under the same conditions the requests on a key come one after the other, and
\* every get answers with what the last set or delete of its key before it left,
\* whichever ciphertexts are damaged in storage and however the requests on other
\* keys run beside it.
THEOREM GetsReadTheLast ==
  ASSUME Conditions
  PROVE  Spec => []ReadsLast
<1>1. OInv => ReadsLast
  BY DEF OInv, OutIsLast, ReadsLast, AbsOut
<1>. QED
  BY <1>1, InitOrdered, OInvInductive, PTL DEF Spec
=============================================================================
