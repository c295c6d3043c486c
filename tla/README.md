# Locker 2.0: specifications, model checking and proofs

Locker 2.0 hides what a client reads and writes in a key-value store. This
directory holds TLA+ models of its components, the TLC configurations that
check them and TLAPS proofs about the most important ones. Paths below are
relative to the repository.

## 1. The system

| component | source | state | operations |
|---|---|---|---|
| Gateway | `secure.go` | per HTTP request: the loop position, a WaitGroup, a mutex, `cliResp` | `/etcd` handler, `handleRequests`, one goroutine per item |
| EMM client | `libs/emm/EMM_client.go` | none | `Get`, `Set`, `Delete` over HTTP |
| EMM server | `libs/emm/EMM_server.go` | `idCounter`, the AES key, the ORAM handle | `HandleEMMRequest`, `getOrCreateIndex`, restart |
| ORAM block store | `libs/oram/PathORAM.go`, `PathORAM.cpp` | an array of 64 blocks of 256 bytes | `ORAM_Set`, `ORAM_Get`, `ORAM_Delete` |
| HIRB client | `libs/hirb/HIRB.go` | none | `Get`, `Set`, `Delete` over HTTP |
| HIRB server | `deps/obliv/obliv_server.py` | one `Hirb` over one vORAM, in memory | `do_POST`, one request at a time |
| HIRB tree | `deps/obliv/obliv/hirb.py` | root node, height, size | get, set, delete, finalize |
| vORAM | `deps/obliv/obliv/voram.py` | bucket tree, stash, position of every blob | fetch, update, finalize |
| Caching proxy | `mains/proxy.go` | LRU cache, two heaps, timestamps | `handleRequests` over etcd |
| Plaintext gateway | `mains/plaintext.go` | as the gateway, and a deadline per batch | `handleRequests` over etcd |
| Baseline EMM | `libs/emm/EMM_insecure_client.go` | `idCounter`, the AES key, the ORAM handle | `Put`, `Get`, `Delete` without an EMM server |
| Benchmark | `mains/testing_emm.go` | `writtenKeys`, run and phase, a `PlaintextMultiMap` | seven runs of warm-up, deletes and reads on either map |
| SSH store | `deps/obliv/obliv/mt_ssh_store.py`, `sftp.py` | remote files, buffer, two queues, Copier threads | get, set, insert, delete, prefetch, flush, open, close |
| File store | `deps/obliv/obliv/fstore.py` | local files, length | get, set, insert, delete |
| Path ORAM library | `deps/PathORAM/src` | position map, stash, bucket tree | `access` |

A client posts a batch to the gateway. Each item becomes a goroutine that
calls the EMM server of the same process over HTTP. The EMM server asks the
HIRB process for the block index of the key, allocates an index if there is
none, and reads or overwrites that block in the ORAM store. The proxy and the
plaintext gateway are alternatives to the gateway; the baseline EMM is the EMM
server's code as a library, called by the benchmark; the SSH store and the file
store are alternative places for the vORAM's buckets; the Path ORAM library is vendored,
and the server's own `ORAMClass` replaces it with an array.

What is hard here: handlers interleave between the lookup of an index and its
registration, and inside the copy of a block; HIRB calls fail halfway; either
process restarts without the other; indices run out; a batch must wait for
exactly its own goroutines; a call that has run out of time may still take effect.

## 2. The modules

| module | models | on top of |
|---|---|---|
| `Emm` | the EMM server with the HIRB process and the block store; one request per element of `Requests`, one action per step a handler can be interrupted at | |
| `KVStore`, `EmmRefinement` | the abstract promise, a linearizable map with one atomic effect per call, and the mapping from `Emm` to it | |
| `MCEmm` | symmetry for TLC | `Emm` |
| `RefinementProofs` | theorems about `Emm`: types, isolation, own values, no stale read; and that the EMM server acts as the map of `KVStore`, and its gets read the last write | `EmmRefinement` |
| `OramBlock` | one level below `Emm`: what padding, buffer, block copy and cut do to the bytes | |
| `Baseline`, `MCBaseline` | the baseline EMM and the benchmark that calls it and a plaintext map | `OramBlock` |
| `BaselineProofs` | theorems about the bytes of a block, the baseline EMM and the benchmark | `Baseline` |
| `Gateway` | the `/etcd` handler and `handleRequests` for concurrent batches | |
| `Locker` | `secure.go`: gateway and EMM server composed through the EMM client | `Gateway`, `Emm` |
| `Plaintext` | `mains/plaintext.go`: the gateway over etcd, with deadlines | `Gateway` |
| `Gateways`, `MCGateways` | the two programs side by side, one of which runs | `Locker`, `Plaintext` |
| `GatewayProofs` | theorems about both programs, about the answers of `plaintext.go`, and about those of `secure.go` through gateway and EMM server | `Gateways`, an instance of `RefinementProofs` |
| `BlobStore` | operators: what the vORAM promises to the HIRB tree, a store of blobs that every fetch renames | |
| `Hirb` | the HIRB tree, one action per iteration of the loops of its methods | `BlobStore` |
| `HirbProofs` | theorems about the HIRB tree: one tree for each map, and the answers of a map | `Hirb`, instances of `FoldSteps` |
| `BlobSpec` | the abstract specification made of the operators of `BlobStore` | `BlobStore` |
| `Voram`, `MCVoram` | the bucket tree that stores blobs in pieces, refined to `BlobSpec` | |
| `VoramProofs` | theorems about the bucket tree, and that it implements `BlobSpec` | `Voram`, instances of `FoldSteps` |
| `LruCache`, `MinHeap` | operators: the linked list and the heaps of the proxy, pointer by pointer | |
| `Proxy`, `MCProxy` | `handleRequests` of the proxy, one step per call on a shared structure | `LruCache`, `MinHeap` |
| `ProxyProofs` | theorems about the cache, the heaps and the answers of the proxy | `Proxy`, instances of `FoldSteps` |
| `FileStore` | `fstore.py`, which is also the abstract list that the SSH store promises | |
| `SshStore`, `MCSshStore` | the list over remote files, with its Copier threads and two queues, refined to `FileStore` | `FileStore` |
| `FoldSteps` | induction along a loop (`FoldLeft`), for any operator that is one turn of it | |
| `SshStoreProofs` | theorems about the SSH store, and that it implements `FileStore` | `SshStore`, instances of `FoldSteps` |

`Hirb` and `Voram` meet in `BlobStore`: `Hirb` uses the operators, and `Voram`
implements the specification built from the same operators. So what is checked
of the HIRB tree holds on top of the bucket tree. `Emm` in turn treats the
HIRB process as a map, which is what `Hirb` checks (`AnswersLikeADictionary`).

### Emm

`pc[r]` follows one request through `HandleEMMRequest`: *lookup* (the HIRB
call in `getOrCreateIndex`), *alloc* (the `idLock` section), *register*
(`hirb.Set`), *access* (the switch over `Op`), *copy* (the memcpy between
block and buffer) and an answer. `index` is the map the HIRB process keeps.
A value is the identity of the request that stored it, and a ciphertext is the
same thing: `Decode` yields a request only if every part of a block comes from
it and its bytes survived (`intact`), which is what AES-GCM guarantees. That they do not
survive is nothing rare: ciphertexts are random, a read cuts the block at the first zero byte
(`EMM_server.go:184`), and one whose length is a multiple of four has no padding behind it
(`PathORAM.go:53`). `OramBlock` says which bytes come back; here `IntactChoices` says
whether a set may store a ciphertext that is damaged so, and the set chooses. The
copy moves `Parts` one at a time in any order, since no lock protects the
store: the C++ memcpys of two handlers race. A failed HIRB lookup is an action
of its own because the code goes on to allocate. Restarts wipe what the
process keeps in memory only. A request already on its way to the HIRB when
the EMM server dies is taken as applied or lost before the restart.

### OramBlock and Baseline

`OramBlock` has the operations of the block store on bytes; `Baseline` is their
caller. `newGetOrCreateIndex` is one step since the benchmark is one thread: the
HIRB lookup finds an index (`Found`), or finds none or fails (`NotFound`), and then
the new one is registered (`Created`) or `hirb.Set` fails, before or after it was
applied (`NotCreated`). A `Put` stores a ciphertext of any bytes, of a length that
stays the same for a whole behaviour as `valSize` is a constant of the benchmark;
`content` remembers which value it encrypts, and a block decrypts exactly if the
bytes left after the cut are the ciphertext (`Answer`). The benchmark calls the two
maps in separate executions of `benchmark`; the model makes every call on both, so
that they can be compared. Their values differ by design: `PlaintextMultiMap`
appends, the EMM overwrites, so what the EMM holds is compared with the last value
of the list. Where the comment at `testing_emm.go:348` says that the deleted keys
are not read, the code reads every key written in the run, and so does
`VerifyPhase`. The field `Client.idCounter` is set and never used; the counter is
the package's.

### Gateway, Locker, Plaintext and Gateways

`Gateway` takes the two halves of `append` apart (`AppendRead`, `AppendWrite`),
so that the mutex is what keeps entries from being lost; it leaves open how the
call of an item ends. `Locker` and `Plaintext` close that gap. In `Locker` the call
of an item is the request of the same name in `Emm`, and a crash takes the gateway
and the EMM server together (`Crash`), since they are one process. In `Plaintext`
it is a call of etcd, which is external: a map on which a call takes effect at one
moment (`Apply`) between sending and return, or after it. `IntactChoices` goes through from
`Gateways` to `Emm`. When the deadline of
the batch has passed (`Expire`) its calls return with an error (`TimeOut`), and a
write that etcd had not taken is then `lost`: nobody waits for it, and it may be
applied at any time or never. `kv`, `got` and `before` name values by the items that
wrote them.

`Gateways` chooses the program once, in `Init`; each of its actions is an action of
`Locker` or `Plaintext` and leaves the other's variables alone. The two are checked
together because their `handleRequests` are two copies of one text with different
calls in the middle.

### Hirb and BlobStore

`oram` is a store value of `BlobStore`: blobs at rest, blobs in the cache, and
the number of paths read since the last write back. `call`, `pc` and the
variables down to `sibRef` are the locals of `lookup`, `__setitem__` and
`__delitem__`; each action is one iteration of a loop, so every intermediate
write back is a state. A label is its own hash; how high its hash lets it rise
in the tree is chosen for each label at its first use (`rise`). Identifiers
are random strings in the code. In the model they are named for the place of
their node and a turn that changes whenever the node is renamed, which keeps
the state space finite and keeps old and new names apart.

Two preconditions are named. `FailedDeletesAt` says at which heights callers
delete absent labels (see the findings). `InitialLabels` is empty in the runs:
`__init__` sets `_size = 0` after storing `initial_data` (`hirb.py:232`), and
with `InitialLabels = {1}` TLC finds `SizeIsItemCount` violated at once.

### Voram

The storage is a binary tree of nodes; each node holds the keys of its
children and chunks of blobs. All that matters of a key is whether it opens its
node, so it is a Boolean: the key of the node's last write, or not. Data are
short sequences of bytes, room is counted in bytes, and a chunk costs
`Header`. The order in which the stash is emptied is the order of a Python
dictionary; the model allows every order. `fault` records that an assertion or
a `ValueError` of the code would have struck.

A node is numbered as in the code, so that its parent is half its number. The loops are folds: `finalize` goes through
all numbers from the highest down and writes the nodes that were read (`WriteRead`). `grow`
makes a turn for each new leaf (`Visit`), which reads the old nodes to the left
of which all is done, writes the leaf, and climbs: as long as the number of the next leaf or node is even, the
node to the left of its parent has its last leaf and is written, unless it was in the buffer when
`grow` began (`Climb`). A turn after the code's loop has stopped changes nothing. `Fresh` gives a new ident for each
leaf, with a name that is not in use: the random idents of the code do not collide.

### Proxy

`me[h]` holds the locals of one run of `handleRequests`. Cache, timestamps and
heaps have a mutex each and a handler takes them one after another, so a step is
one call on one of them. Loops over Go maps may go in any order (`left`). The
clock counts seconds and may stand still, as the code's timestamps are whole
seconds. The loops of `heapifyUp` and `heapifyDown` are folds with a turn for every entry
of the heap: a turn after the code's `break` changes nothing (`RiseOne`, `SinkOne`). A
handler that finishes a loop goes on to the next in the same step (`Go`), which takes at
most five turns of `NextLoop`. `recency` is a history variable: the cached keys as a list
by last use, which the linked list of the code must spell out. A request is any record
whose value, if it has one, was written for its key (`Requests`); that is how an answer
can be told to be one of the key that was asked for. The hash of a key and a time that
`getIndex` makes is no key (`ProxyAssumption`).

### SshStore

One caller runs one call at a time ("very much NOT thread-safe", line 135); its
steps go from one look at the response queue to the next. Each Copier thread
takes a task, works on the file in the one or two steps that another thread
could see, and answers. A missing file raises in the thread, which then is
`dead`: it has neither answered nor called `task_done`. A caller's `list` of
contents is kept beside the files and buffers, and with the length and the answer
of a get in progress it is a state of `FileStore` (`ImplementsFileStore`); a set,
insert or delete reaches that list when it returns. An answer is the index asked for together
with the contents found, and no contents are `NoAnswer`: neither those of another block nor
those of a file that is open for writing and still empty (`Nothing`) pass for the answer of a get. Task ids are compared
only for equality, so the model reuses the ones that are not in use. The module
imports `Counter`, `namedtuple` and `OrderedDict` from `collections.abc`, which
does not have them; the model takes them for those of `collections`.

## 3. The runs

| run | what it checks | bounds |
|---|---|---|
| `emm_safety` | types, isolation of indices, reads return own undamaged values, reads never return an overwritten value | 3 requests, 2 keys, 2 parts, 3 blocks (one index too few), 1 failed call, 1 restart of each process |
| `emm_refinement` | `Emm` implements `KVStore`, safety and liveness; acknowledged undamaged writes are readable | 3 requests, 2 keys, 3 blocks (exactly enough), any ciphertexts damaged, no failure, requests on one key do not overlap |
| `emm_first_use` | **violated**: a key keeps its index | 2 requests, 1 key |
| `oram_block` | which values read back; damage is a cut or a tail; the baseline EMM answers nothing stale, agrees with the plaintext map and takes one block per key | two runs of the benchmark with 2 warm-up calls, 2 keys, 2 values, blocks of 4 bytes, words of 2, ciphertexts of up to 5 bytes, 3 blocks, 2 failed HIRB calls |
| `locker_end_to_end` | `secure.go`: the answer to a read is the last write of an earlier batch, or no entry if that one was damaged; `plaintext.go`: an item has an entry exactly if its call succeeded, and no read is stale | 3 batches, 3 items, 2 keys, any ciphertexts damaged, batches in progress use different keys, no failure; over etcd one deadline passes |
| `locker_liveness` | both programs: no entry lost, answers complete, every batch and every EMM request ends | 1 batch, 2 items, 1 key, 1 failed call; 1 HIRB restart and 1 crash, or 1 deadline; ciphertexts survive |
| `hirb` | the tree is a function of the map it stores, answers are a dictionary's, all calls access alike | 3 labels of every height, 2 values, heights 0 to 2, failed deletes only at height 0 |
| `hirb_failed_delete` | **violated**: answers are a dictionary's | 2 labels, height up to 1, failed deletes at height 1 |
| `voram` | no assertion fails, keys reach their nodes, the stash waits only for room, `Voram` implements `BlobSpec` | 2 blobs in a tree of 1 level, 1 blob in a tree that grows to 2, 2 paths per write back |
| `proxy` | order of use, heap order, no heap entry lost or doubled, no key leaves the rotation, reads answered once | 2 batches, cache of 3, 4 keys, 1 dummy, 2 seconds, 1 failed call |
| `ssh_store` | the store implements the list of `FileStore`, each get answered with the block of its index; no block lost, read torn or overtaken; calls end; the search for a list's length finds it | 2 threads, 2 blocks, buffer of 1, calls start with at most 1 task open |
| `ssh_store_pending` | **violated**: closing and pickling wait for all tasks | as `ssh_store` |

Why these are enough. Three EMM requests are the smallest number at which one
request's stale index, a second one's re-registration and a third one's read
meet; two parts make a torn copy; three blocks make both kinds of access happen.
Three labels fill an internal node of the HIRB tree beyond `B`, so nodes split,
merge and change height. Two blobs of up to three bytes do not fit one node of
three, so they are split, compete and go to the stash. A cache of three has a
head, a middle and a tail entry, and the two batches drive it from empty to
overflow. With one block of buffer for two blocks, every prefetch displaces
something; the search of `fstore.py` is evaluated for every list of up to 70 files,
that is, around each power of two up to 64; two threads are needed for a race, and the one task left open when the
next call starts is what a call can find half done.

Two runs of the benchmark with two calls each are the least with a repeated
key, a delete of a key that is read afterwards and a second run that finds the
indices of the first; ciphertexts of five bytes are longer than a block, those of two
and four need no padding, and three blocks are one too few for two failed
registrations. Three items let a deadline end a write that is applied between two
reads of its key. In `locker_liveness` no ciphertext is damaged: a get of one
that is ends in `nil`, as a get of a key without a value does, and the goroutine goes on alike.

Requests and batches run once and the benchmark ends, so runs of `Emm`, `Baseline`,
`Gateways` and `Proxy` stop, and
callers of the SSH store may hang when a thread has died: deadlock is not
checked there. `Hirb` and `Voram` check it.

*Fairness.* Handlers and goroutines: the Go scheduler is preemptive and weakly
fair. A HIRB call is a blocking HTTP call on the local host that returns, or fails
when the process at the other end dies. Posting a batch, restarts and crashes get
no fairness. The mutex of a batch needs no strong fairness because each goroutine
takes it once. At any time at most one of the steps of an item is possible, so one
condition covers them (`ItemStep`). Of etcd nothing is assumed: it may never answer.
Time passes (`PlainExpire`), and the etcd client returns once a deadline has passed,
as a context promises; no batch over etcd would end without that. In `SshStore` the caller goes on with a call it has begun and each
thread with its loop (weak fairness); no call is assumed to be made.

### What the violated runs show

*First use.* `getOrCreateIndex` looks up and registers without holding a lock
across both. Two first requests for a key both allocate; the later registration
wins, and what the other request stored is out of reach though it was
acknowledged. The comment at `libs/emm/EMM_server.go:164` takes for granted that
a SET finds the index it needs.

*Failed delete.* `Hirb.__delitem__` raises `KeyError` at `hirb.py:508` without the
`finalize()` that ends every other call. The leaf stays in the cache; the next
lookup gives it a new name in the root, but `fetch` returns early for what is
cached and does not rename it. The leaf and all labels in it are out of reach.

*Pending tasks.* `_complete_tasks` waits only if a queue is non-empty. Tasks the
threads have in hand are in neither queue, so pickling or closing can run into
its assertions (`mt_ssh_store.py:431`).

Some limits of the code are visible in the models without a run of their own,
most of them by one change of bounds: `AckedWriteReadable` fails in `Emm` when an index
reaches `NumBlocks` (a set beyond the store is acknowledged), when requests on
one key overlap (`ExclusiveKeys = FALSE`: torn blocks), and in any case for a damaged
ciphertext, which it therefore excepts: such a write is acknowledged like any other and
its value is gone;
`IndexIsolation` and `ReadsOwnKey` fail without `emmRestarts = 0` (the counter
starts over while the HIRB process keeps its indices). `NoStaleRead` needs
`emmRestarts = 0` too: after a restart of both processes an index that a key had lost can
be handed out again and registered for the same key late, and then an overwritten value
comes back. That takes five requests and a HIRB restart after the EMM restart; the three
requests of the run are too few to show it, and the condition came out of the proof.

More of the same kind: in `SshStore`, deleting a block that was never written
kills a thread, and so does a delete that overtakes an abandoned read of its
block; after that an insert at that index, or closing, waits forever
(`Hopeless` names exactly these cases; with `DeletesUnwritten = FALSE` no thread
dies). In `Proxy` a write is not read back once its value has left the cache: it
goes to etcd under a hash of key and time, and fetches ask for the plain key; a
fetch can also replace what a write of the same batch has just put. No document
promises otherwise, so these are hazards without a property.

Some remarks that no property is about. In `plaintext.go` a read of a key without a
value, or with one that is no JSON, makes an entry null, and an answer with one entry
per id is not a list, so that a list with one element looks the same as the element
(`plaintext.go:100`); a write without a `val` stores an empty string. In the proxy
`cache.Put` at full capacity drops the tail entry, where `Evict` hands it to the
writer. The search of `fstore.py` assumes a list without gaps: its answer for a
directory with one missing file depends on which one it is, and an `insert` that fails
while it writes has already counted the block (`fstore.py:101`).

## 4. The proofs

Eight modules hold theorems, for all values of the constants: seven about components, and
`FoldSteps`, which they use.

`RefinementProofs` first proves of `Emm` that the types hold
(`TypeCorrect`) and, until the first restart of the EMM server, that no index is
shared by two keys (`Isolation`) and that reads return undamaged values of their own key
(`OwnValues`). `IndexIsolation` speaks of indices in use and is not inductive: a
block may still hold the value of a request whose key lost its index in a HIRB
restart. The inductive invariant `IInv` therefore remembers every index a
request was ever given (`Ownership`), and carries the owner of the data along
its way: set → block (`BlocksOwned`) → view of a get (`ViewsOwned`) → answer
(`AnswersOwned`). The only assumption is `EmmAssumption`, on the constants.

It also proves `NoStaleRead` (`NeverStale`): until the EMM server restarts, a get
never answers with a value that was overwritten or deleted when it arrived. `FInv` adds
to `IInv` that an index not yet
registered is known only to the request that took it (`Indexed`,
`Unregistered`), so that an index a key has lost never comes back to it; and that a mutator,
on its way to being acknowledged, either replaces each part of the block that holds an earlier
value or finds its key moved to another index (`Over`, `Overtaken`). What a later get reads can
then not be that value (`Unread`). Races between first requests, failed HIRB calls and
HIRB restarts are steps like any other.

Of `EmmRefinement` it proves the safety part of the refinement of `KVStore` (`ActsAsMap`), under
the conditions that `Conditions` names: clients do not overlap requests on one key,
nothing fails, and the store has a block for every key. Ciphertexts may be damaged: the map
is one where a set may leave its key without a value, but decides that when it takes effect.
`RInv` says why that is enough: one request per key (`Exclusive`), no more
indices taken than keys have one or are about to get it (`Frugal`, which keeps all within the
store),
a handler that is right about the index of its key (`KnowsIndex`), blocks that are whole
while nobody writes them (`BlocksWhole`), and how far a copy is (`CopyGoesOn`). Each
action is then matched with one step of the map: arriving with a call, entering the C++
access with the call taking effect, an unsupported operation with a rejection, finishing
with a return; the lookup, the counter, the registration and the copying of parts are
stutters. A set takes effect when it enters the access though its bytes are copied later;
nobody can tell, as reads of the key wait for the set to return. `AckedStays` follows:
under the same conditions acknowledged sets of a key stay readable unless one of
them is damaged (`AckedWriteReadable`).
`GetsReadTheLast` says the same of the gets, in terms of the requests and not of the map:
requests on a key come one after the other (`before` orders them), and a get answers
with what the last set or delete before it left: the value of that very set, or nothing if it
was a delete or a set whose ciphertext is damaged, never an older value. `OInv` adds to `RInv` that order (`Order`)
and that the map holds at any time what the last mutator that took effect wrote
(`MapIsLast`).

`GatewayProofs` proves of both gateways, for any number of batches, items and ids, that
no entry is lost or doubled (`EntriesKept`), that no batch is answered before all
its goroutines are through (`CompleteAnswers`), and the types of the composition
(`Typed`), of which the interesting one is that the WaitGroup never falls below
zero. First, every step of `Gateways` is a step of `Gateway` with an arbitrary end of a
call (`GNext`), or leaves its variables alone (`StepsOfTheGateway`): so what is proved
does not depend on what the EMM server or etcd do. Then `GInv` is inductive. It adds
to the properties which items have a goroutine (`Started`), that the WaitGroup counts
exactly those at work (`Counted`), that whoever is between Lock and Unlock holds the
mutex (`Locked`), and that what a goroutine has read for its append is still what the
map holds (`Fresh`); `Locked` is why no other goroutine can break `Fresh`. The crash is
a step like any other. The assumptions are `GatewayAssumption`: finitely many items, as
a cardinality is counted, and that "nobody" is no item.

It also proves `PlaintextAnswers` (`FreshAnswers`): an answer of `plaintext.go`
tells exactly what etcd acknowledged, and nothing that was overwritten before the
read began, for any number of calls that fail and of deadlines. That the entries are the
goroutines that finished with one is `GInv` again. `PInv` adds that a
goroutine is past its call exactly if the call is (`CallsMatch`), that only acknowledged
calls are remembered as earlier ones (`Known`), that no served write of a key was sent
after the value etcd now has was acknowledged (`Latest`), and the same of what
a served read has got (`ReadsRight`). A late write, one whose deadline has passed, fits in:
nobody has seen it acknowledged, so no read may count on a value that it replaces.
It assumes, beside `GatewayAssumption`, that "no value" is no item
(`GatewaysAssumption`).

Last, it proves `AnswersLastWrite` (`EndToEnd`) of `secure.go`, from the batch to the answer.
`Conditions` are those of the run: batches in progress have no key in common, nothing fails or
restarts, and the store has a block for every key. Nothing is assumed of the ciphertexts:
`AnswersLastWrite` itself says what becomes of a read whose last write was damaged (no entry;
the write was reported all the same), as many are. That no two requests on one key overlap,
which `RefinementProofs` assumes, is here something to prove: a batch has distinct ids, and no
batch begins whose keys are those of another (`Distinct`). Every step of the program is
then a step of the EMM server of `RefinementProofs`, or none (`ServerKept`), so `OInv` holds
of it, and a goroutine knows of its request only how it ended (`Matched`). When the batch is
answered its entries are what `GInv` says, each read has what `GetsReadTheLast` says, and
the writes that `before` puts before it are those of the batches answered before.

`BaselineProofs` proves all that run `oram_block` checks. Of the bytes (`StoreInv`), for
ciphertexts and blocks of any length: a block begins with the bytes of the value last
stored, as far as they fit, then come the zeros of its padding, then anything (`Laid`). So the
cut finds the value again if it has no zero and one follows or the block ends
(`SafeReadsBack`), and otherwise a prefix of it or the whole with a tail
(`DamageAtTheEnd`). Of the baseline EMM (`EInv`): keys have distinct indices below the counter
(`Numbered`), and the block of a key holds its last value or nothing that decrypts
(`Holding`), from which `NeverStale` follows whatever HIRB calls fail. Of the benchmark, while none
has failed (`FInv`): the keys written in this run have an index, the EMM holds what the plaintext
map holds last (`Mirrored`), and the counter is the number of keys with an index, at most that of
the writes (`Counted`); from it `OneBlockPerKey` and, with a block for each
(`EnoughBlocks`: 7 runs of 9 calls are fewer than the 64 blocks), `BothMapsAgree`.

`SshStoreProofs` proves every invariant that run `ssh_store` checks, for any number of
threads, blocks and values, any buffer size and bound on tasks, whether or not callers
delete blocks that were never written, and wherever threads die: types (`TypesAreRight`), no
block lost (`NoBlockIsLost`), no file with two writers (`WritersAreAlone`), no read that a call
waits for finds its file missing (`ReadsFindTheirFiles`), and what `close` leaves behind is
the list (`CloseStores`). `IInv` is `SInv`, about the store, the threads, the files and the list,
and `CallInv`, about the call in progress. A task is on its way from the moment it is queued
until the caller has processed its answer, through the task queue, a thread's hand and the
response queue; `SInv` says what every task on its way entails:

- `OneIdEach`: each task id is on its way once, so that comparing ids tells current answers
  from late ones;
- `Writers`: each write or delete on its way is the pending one of its block, so there is at most
  one; it says what the buffer and the list hold, and when it is done what the file holds;
- `Readers`: a read that still counts and is done has the current contents, and a thread that
  died had no read that counts;
- `Kept`: the contents of each block are in the buffer or, if the block has no entry or waits for
  a read, in its file. The block that a set or delete in progress is about to change is excepted
  (`Exempt`), as between the two halves of the call the buffer may not have it;
- `Counted`: the threads that have stopped are those no longer counted and those whose last
  answer is still open, so that `nthreads = 0` means that all have stopped.

The properties themselves are not inductive: that a file has one writer follows from
the pending entry of its block, that a read succeeds from where its block is kept, and
both from ids being distinct. Each loop of the code (`_sync`, those of `prefetch` and
`_handle_overflow`, the two of `flush`, the one of `close`) is a fold; `FoldStays` of
`FoldSteps` says that what holds before a loop and is preserved by each turn holds after
it. It is proved by the least number of turns after which it would not. TLC confirmed `IInv` on every state of the run before the proof began.

`Refinement` shows that the SSH store implements `FileStore`, the plain list of `fstore.py`. Only
safety is claimed, as `FileStore` has no fairness. Length and answer are read off the call in
progress, the answer with the index that was asked for: a set, insert or delete takes effect when it returns, and a get when its answer has
come, which need not be a step of the caller's (a get of a buffered block has it at once). All
steps of the threads, prefetching, flushing, opening, closing and waiting are stutters. The only
assumption is `SshAssumption`: the buffer has room for a block, "nothing" is no value, and there
are finitely many threads, as they are counted.

`ProxyProofs` proves everything that run `proxy` checks, for any number of batches, keys,
dummies and failures, a cache and a batch of any size: types (`Typed`), the list of the cache
(`CacheOrdered`), the heap order (`HeapsStayOrdered`), that no key leaves the rotation
(`KeysStayScheduled`), that no heap entry is lost or doubled (`EntriesBalance`) and that reads
are answered once (`ReadsAreAnswered`). `IInv` has a part for each structure that handlers
share and one for the handlers:

- `CacheOk`: the entries are exactly the keys of `recency`, each linked to the one before and
  after it there, the first and last being head and tail, and its value knows its key
  (`Linked`). `CacheKeepsOrderOfUse` speaks of two walks along the links; a method that relinks
  needs to know the links themselves. There is a lemma
  for each method that relinks (`MoveLinks`, `AddLinks`, `EvictLinks`), in which the cases where
  neighbour, old head and tail are the same entry come apart, and one that a linked list is
  walked in its order (`Followed`).
- `Heaps`: the heap order. While an entry rises it may be smaller than its parent, but its
  children are not smaller than that parent (`Rising`); while it sinks it may be larger than its
  children, but they are not smaller than its own parent (`Sinking`). The index of the
  entry halves or grows with every turn, so that the loop has broken after as many turns as there
  are entries. That a swap with the smaller child keeps the order is here, too.
- `Scheduled` and `Balanced`: what `EveryKeyScheduled` and `EntriesAccounted` say, over the
  handlers as a function, so that a step of one handler changes one of its values. The
  entries added are counted as a set of marks, by handler and place (`TotalOf`), and a
  handler's step adds no mark or one that was not there (`BooksAdd`, `TotalMarks`).
- `HandlersOk`: where the code is says what the local variables are. The requests that remain are
  the end of the batch (`Ordered`); the batch to fetch contains every missed key that was
  stamped, and a key that is held came from a loop with iterations left (`Collected`); and of
  each client, answers had and answers waited for are together at most its reads
  so far, and at least the ones whose key etcd has, until a call fails (`Answered`).
  `Pending` says where a missed key waits: in `dedupReqs`, then in `responses`. A read is
  answered once because the lists of missed requests are disjoint and each is gone through
  once (`AnswerAllFacts`, by induction along the loop).
- `EtcdOk`: a key that etcd has keeps a value of its own, as the proxy writes under a hash of
  key and time. This is why `ProxyAssumption` says that such a hash is no key: were it one,
  a value of another key could be fetched under it.

None of the five properties is inductive. Each loop of the code is an instance of `FoldSteps`
(`Rises`, `Sinks`, `Loops`, `Answers`, `Dummied`). The theorems assume `ProxyAssumption` and
`LruAssumption` alone: finitely many handlers and dummies, as their entries are counted, and names
for "no key" and "no entry" that are no keys. Requests may be of any operation, without a key or
without a value; a cache of capacity 0 is allowed. TLC confirmed `IInv`, but for the
types of the locals, on every state of run `proxy` before it was proved.

`VoramProofs` proves everything that run `voram` checks, for trees, nodes, headers and blobs of
any size, any number of blobs and any order in which the stash is emptied: nodes keep their
size and the tree its shape (`NodesFit`), no assertion fails (`NoAssertionFails`), every node at rest can be decrypted
(`ChainHolds`), the stash waits only for room (`RoomUsed`), and the tree is a store of whole
blobs (`StoresWholeBlobs`, the refinement of `BlobSpec`, all of which is safety). The
assumption is `VoramAssumption`: a node has room for more than a header, and idents lead to leaves.
`VInv` is inductive. It says:

- `Tree`, of the storage at any moment, within a method as well as between two: with each node the buffer and the
  tree contain its parent (`ParentClosed`), which is why a path is read from the root down and
  written back from the highest number; the keys in memory are the root's and those of
  the children of nodes in the buffer (`Keyed`); the key of a node at rest fits where it is kept
  (`Locked`); a node holds no more than its room, of blobs whose path it is on (`Fits`). From these, every key that
  `_readnode` and `_writenode` look for is there. `KeyChain` alone is not inductive: it does not say which keys are in memory.
- The tree has the nodes of its levels and no other. In `grow` this is false for a while: the new leaves come
  one after the other, and all that `Tree` asks is that a parent comes before.
- A blob in use is not at rest as well (the cache and `StoredIn` are disjoint), so that a write back replaces nothing.
- `BlobsCounted`: there are at most as many blobs as names for each leaf, so that a new name is free (`FreeName`).
  It is about the bounds of the model, as the code draws random names.

Within a method each read and each write of a node leaves `Same` storage: a `Tree` with the same blobs at rest, each with
the same data when its pieces are joined (`ReadSame`, `WriteSame`). Reading moves the chunks of a
node to the ends of the stashed parts, writing cuts the ends off again; either leaves the
sequence of pieces down the path of a blob what it was, if the nodes above are in the buffer and so have nothing
of their own (`WholeMoves`). That a node takes no more than its room, and stops only when it has none or nothing is left for it, is
`PackKeeps` and `FilledFacts`; `RoomUsed` is the latter, followed through the rest of the write back.
For `grow`, `Up(p)` is p with its ancestors. When leaf e is next, the buffer and the nodes to read next are
together what the buffer was when `grow` began and `Up(e \div 2)` (`Ready`). `Climbing` says how they
come apart within the inner loop, and `ClimbsUp` that as many turns as there are levels suffice for it to
stop. After the last leaf the buffer is the one `grow` began with (`Grown`): its last assertion.
In the refinement, each method but `grow` is one call of the abstract store; `grow` is a stutter, since every blob is `Same`
and a path with one more node, which is empty, joins to the same data (`WholeGrown`).

Of powers of two the prover knows nothing: that 2 ^ (n + 1) is twice 2 ^ n is proved by counting
subsets (`Powers`).

`HirbProofs` proves everything that run `hirb` checks, for any labels, values, node sizes and heights,
every choice of hash heights, and calls in any order: nodes are sorted (`Sorted`), the tree is the one its map
determines (`OneTreePerMap`), the size is right if there was no initial data (`SizeIsRight`), calls answer
as a dictionary (`AnswersAsAMap`) and access the store alike (`OnePattern`). Beside `HirbAssumption` (labels
are positive numbers, the initial data is finite, "no call" is no call) each assumes
`FailedDeletesAt \subseteq {0}`, as the run does: from height 1 on a failed delete breaks the
tree, which is what run `hirb_failed_delete` shows.

A tree is described by two functions. `Shape(r, e, d, h, c)` gives for each place, that is, a level and the
label to the left of it, the part of a map that belongs there: of the map e above level c and of the map d from c
on. `Tree(N, h, W, gap)` says that the nodes N have that content (`Spells`), one node for each place, and name
no child that is not among them, but for `gap`. `IInv` says for each place in a call what tree there is:

- *Between calls* (`Resting`) root and blobs are the tree of the map, and the cache is empty.
- *On the way down* (`Walking`, `Placing`) they are the same tree with the node in hand in place of its
  blob, which it differs from by the child's new name, or for which there is no blob. The current node
  is at the place where the label belongs (`OnPath`), and as many write backs are done as levels passed.
- *In a split* (`Splitting`) the levels down to the current one have the new map and those below it the old one. The
  right half of the next split is named in the tree and not there yet: it is the `gap`.
- *In a merge* (`Merging`) it is the other way round, and the right neighbour of the next merge (`Orphan`) is
  there and nobody's child.

Between two iterations the tree is thus that of no map, and `HistoryIndependent` alone says nothing. Each iteration
moves the border of the two maps down one level: the nodes of the level it changes are those of one map
before it and of the other after it (`TreeInserts`, `TreeSplits`, `TreeDeletes`, `TreeMerges`). At the level that
the label rises to the two maps differ in the content of one place (`OneApart`); below it the label is a place of its own
in one of them, whose content the other has at the place to the left of it (`Levels`); and no other level
changes (`Narrowed`). That a fetch renames a blob and its parent's child together is `TreeMoves`. When the tree
grows, the loop over the root's labels is a fold (`Promote`); `Climbed` says what is done after some of the
labels: the nodes to the left of the last promoted one are closed, and the old root still has the
rest. `StandsTree` then fits the result together with the nodes that growth leaves alone.
`OneTreePerMap` follows as a sorted node is the one its set of labels determines
(`AscendingIs`). TLC confirmed `IInv` on every state of run `hirb` before it was proved.

Model-checked only: the fairness of the refinement of `KVStore` and everything else about
liveness (that requests, batches and the calls of the SSH store end), since
ENABLED and fairness are out of the prover's reach. The search in `FileStore` is recursive over the list: that
needs induction over data, and the library's theorems for it take an operator as a parameter, which the prover
cannot instantiate. The inductions above are over numbers: a set of numbers has a least one
(`NatMin` for the first zero byte of a block, `Least` for the turns of a loop or of a walk along
links), by the
well-foundedness of `<`. `FoldSteps` makes the operator of a loop a constant of the module and not a
parameter of the theorem, so each loop has an instance of it.

## 5. What is not modelled

- The Path ORAM library, vendored and not called by the server, its simulators and
  `main.cpp`; ciphers, random numbers, the progress bar, the host description.
- Of the benchmark: the temporary files both maps write to load the disk and nobody
  reads, the measurements (`readDiskIO`, `getUsageStats`), the reading of keys
  and random values. A second benchmark started on a HIRB process that still runs would
  find the indices of the first and begin counting at 1 again, as after the restart of the
  EMM server in `Emm`; `Baseline` starts with an empty HIRB.
- Of `secure.go`: `testORAM`, `testHIRB` and `testEMM`, scripts of calls that main does
  not make (they are commented out). The etcd client that `secure.go` opens and never uses.
- `SkipStash` and `ListStash` (`DictStash` is the default), prefetching of the vORAM
  (it warms the store's buffer), pickling and the debug printers.
- Of the SSH store: `set_len`, calls on a closed store, lost connections. Of the file
  store: index errors, `update_base`, a directory with gaps.
- The JSON of requests, values and answers, except that a value which is no string, a
  null and an error make no entry in `secure.go`.

## 6. Plan

Done: Emm with its refinement, OramBlock with Baseline, Gateway, Locker and Plaintext, Hirb
over BlobStore, Voram, Proxy, FileStore and SshStore, all but the search in
FileStore with proofs. To do: the Path ORAM library, the stash and the position map of
`OramReadPathEviction`, as an implementation of an array of blocks.
