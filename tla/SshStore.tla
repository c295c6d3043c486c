------------------------------ MODULE SshStore ------------------------------
(***************************************************************************)
(* mt_ssh_store.py: a list of blocks kept as remote files, with a buffer   *)
(* in front.  Its methods run in the caller's thread; Copier threads take  *)
(* tasks from one queue, work on the files and answer in another.  A step  *)
(* of the caller goes from one point where it looks at the answers to the  *)
(* next, a step of a copier is one access of a queue or of a file.         *)
(***************************************************************************)
EXTENDS Integers, Sequences, FiniteSets, SequencesExt, FiniteSetsExt

CONSTANTS
    Copiers,      \* the threads of an open store
    Values,       \* contents of blocks
    BufSize,
    MaxLen,       \* bound: blocks
    MaxTasks,     \* bound: tasks not done when a call is made
    DeletesUnwritten,  \* TRUE: callers may delete a block that has no file
                       \* yet, or whose read they have not waited for
    Nothing       \* no data, and what a file holds while it is written

ASSUME SshAssumption ==
    /\ BufSize \in Nat \ {0} /\ MaxLen \in Nat /\ MaxTasks \in Nat
    /\ DeletesUnwritten \in BOOLEAN /\ Nothing \notin Values
    /\ IsFiniteSet(Copiers)

VARIABLES
    store,    \* the fields of the object, see Closed
    file,     \* the remote files by index
    copier,   \* what each thread does
    call,     \* the call in progress
    list      \* history: the list the finished calls describe, by index

vars == <<store, file, copier, call, list>>

Closed ==
    [len        |-> 0,
     buffer     |-> << >>,  \* _buffer: data by index
     order      |-> << >>,  \* _buffer: its indices, least recently used first
     pendReads  |-> << >>,  \* _pend_reads: task ids by index
     pendWrites |-> << >>,  \* _pend_writes
     taskq      |-> << >>,
     resq       |-> << >>,
     nthreads   |-> 0]

Off    == [pc |-> "off"]
Free   == [pc |-> "idle"]
NoCall == [op |-> "none"]

Init ==
    /\ store = Closed /\ file = << >> /\ list = << >>
    /\ copier = [t \in Copiers |-> Off]
    /\ call = NoCall

With(f, i, v) == [x \in DOMAIN f \cup {i} |-> IF x = i THEN v ELSE f[x]]
Without(f, S) == [x \in DOMAIN f \ S |-> f[x]]
\* An OrderedDict has each index once.
Removed(order, i) ==
    IF i \in ToSet(order)
    THEN RemoveAt(order, CHOOSE n \in DOMAIN order : order[n] = i) ELSE order
MovedToEnd(order, i) == Append(Removed(order, i), i)

\* Tasks of copiers that have not called task_done (a dead one never does).
Taken == {t \in Copiers : copier[t].pc \notin {"off", "idle"}}
Unfinished == Len(store.taskq) + Cardinality(Taken)

(***************************************************************************)
(* Task ids are only compared with each other: the least one not in use.   *)
(***************************************************************************)
NewId(s) ==
    LET used == {s.taskq[n].id : n \in DOMAIN s.taskq} \cup {s.resq[n].id : n \in DOMAIN s.resq}
                \cup {copier[t].task.id : t \in Taken}
    IN  Min((0 .. Cardinality(used)) \ used)

Task(cmd, s, i, data) == [cmd |-> cmd, id |-> NewId(s), ind |-> i, data |-> data]

Writeback(s, i) ==
    [s EXCEPT !.taskq = Append(@, Task("PUT", s, i, s.buffer[i])),
              !.pendWrites = With(@, i, NewId(s))]

Used(s) == Cardinality(DOMAIN s.buffer) - Cardinality(DOMAIN s.pendWrites)

Forget(s, i) == [s EXCEPT !.buffer = Without(@, {i}),
                          !.order  = Removed(@, i)]
DropRead(s, i) == [Forget(s, i) EXCEPT !.pendReads = Without(@, {i})]

\* Mutant: the entry is dropped once its write is queued.
PopOldestForgotten(s, i) ==
    IF Used(s) <= BufSize THEN s
    ELSE IF i \in DOMAIN s.pendReads
         THEN DropRead(s, i)
         ELSE [Forget(s, i) EXCEPT !.taskq = Append(@, Task("PUT", s, i, s.buffer[i]))]

\* One turn of the loop in _handle_overflow, which pops index i: one being
\* written goes to the back, one being read is dropped, any other is written.
PopOldest(s, i) ==
    IF Used(s) <= BufSize THEN s
    ELSE LET back == [s EXCEPT !.order = MovedToEnd(@, i)]
         IN  IF i \in DOMAIN s.pendWrites THEN back
             ELSE IF i \in DOMAIN s.pendReads
                  THEN DropRead(s, i)
                  ELSE Writeback(back, i)

\* After one turn for each entry, all that remain are being written.
HandleOverflow(s) == FoldLeft(PopOldest, s, s.order)

\* Mutant: an answer counts whichever task it belongs to.
AnyAnswer(pend, r) == r.ind \in DOMAIN pend
Current(pend, r) == r.ind \in DOMAIN pend /\ pend[r.ind] = r.id

\* Mutant: the answer to a delete is passed over.
PutOnly == {"PUT"}
WriteOps == {"PUT", "DEL"}

\* Mutant: an awaited read is over, but what was read is not kept.
ProcessUnkept(s, r) ==
    CASE r.cmd = "GET" /\ Current(s.pendReads, r) ->
             [s EXCEPT !.pendReads = Without(@, {r.ind})]
      [] r.cmd \in WriteOps /\ Current(s.pendWrites, r) ->
             [Forget(s, r.ind) EXCEPT !.pendWrites = Without(@, {r.ind})]
      [] r.cmd = "DIE" -> [s EXCEPT !.nthreads = @ - 1]
      [] OTHER -> s

Process(s, r) ==
    CASE r.cmd = "GET" /\ Current(s.pendReads, r) ->
             [s EXCEPT !.buffer[r.ind] = r.data, !.pendReads = Without(@, {r.ind})]
      [] r.cmd \in WriteOps /\ Current(s.pendWrites, r) ->
             [Forget(s, r.ind) EXCEPT !.pendWrites = Without(@, {r.ind})]
      [] r.cmd = "DIE" -> [s EXCEPT !.nthreads = @ - 1]
      [] OTHER -> s

ProcessFirst(s) == [Process(s, Head(s.resq)) EXCEPT !.resq = Tail(@)]

Sync(s) == FoldLeft(LAMBDA t, r : ProcessFirst(t), s, s.resq)

PrefetchOne(s, i) ==
    IF i \in DOMAIN s.buffer THEN [s EXCEPT !.order = MovedToEnd(@, i)]
    ELSE [s EXCEPT !.taskq     = Append(@, Task("GET", s, i, Nothing)),
                   !.buffer    = With(@, i, Nothing),
                   !.order     = Append(@, i),
                   !.pendReads = With(@, i, NewId(s))]

Prefetched(s, indices) == HandleOverflow(FoldLeft(PrefetchOne, Sync(s), indices))

\* Mutant: the reads stay pending although their entries are gone.
EntriesDropped(s) == FoldLeft(Forget, s, SetToSeq(DOMAIN s.pendReads))
\* The first loop of flush.
ReadsDropped(s) == FoldLeft(DropRead, s, SetToSeq(DOMAIN s.pendReads))

\* Mutant: the most recently used entry is passed over.
AllButLast(s, i) ==
    IF i \in DOMAIN s.pendWrites \/ i = Last(s.order) THEN s ELSE Writeback(s, i)
\* One turn of the second loop.
WriteUnwritten(s, i) == IF i \in DOMAIN s.pendWrites THEN s ELSE Writeback(s, i)

Flushed(s) ==
    LET kept == ReadsDropped(s)
    IN  FoldLeft(WriteUnwritten, kept, kept.order)

(***************************************************************************)
(* The caller.  A call starts, waits while something is pending that it    *)
(* needs, and ends.                                                        *)
(***************************************************************************)
Running ==
    /\ call.op = "none" /\ store.nthreads > 0
    /\ Len(store.taskq) + Cardinality({t \in Taken : copier[t].pc # "dead"}) <= MaxTasks
Indices == 0 .. store.len - 1

Open ==
    /\ call.op = "none" /\ store.nthreads = 0
    /\ store' = [store EXCEPT !.nthreads = Cardinality(Copiers)]
    /\ copier' = [t \in Copiers |-> Free]
    /\ UNCHANGED <<file, call, list>>

Start(what, s) == call' = what /\ store' = s /\ UNCHANGED <<file, copier, list>>

Prefetch(indices) == Running /\ Start(call, Prefetched(store, indices))

Get(i) == Running /\ Start([op |-> "get", ind |-> i], Prefetched(store, <<i>>))

\* Mutant: a pending read of the block stays pending.
UnreadKept(s, i) == Sync(s)
\* _clear_pending begins: the answer to a read of i no longer counts.
Unread(s, i) == [Sync(s) EXCEPT !.pendReads = Without(@, {i})]

Set(i, v) == Running /\ Start([op |-> "set", ind |-> i, val |-> v], Unread(store, i))

Insert(v) ==
    /\ Running /\ store.len < MaxLen
    /\ Start([op |-> "set", ind |-> store.len, val |-> v],
             Unread([store EXCEPT !.len = @ + 1], store.len))

\* Whether the last block has a file and no read of it is under way.
Written(i) ==
    /\ i \in DOMAIN file
    /\ \A n \in DOMAIN store.taskq : store.taskq[n].ind # i
    /\ \A t \in Taken : copier[t].task.ind # i

Delete ==
    LET i == store.len - 1
    IN  /\ Running /\ store.len > 0
        /\ DeletesUnwritten \/ Written(i)
        /\ Start([op |-> "del", ind |-> i], Unread(store, i))

Flush == Running /\ Start(call, Flushed(store))

\* __getstate__, for pickling.
Pickle == Running /\ Start([op |-> "pickle", step |-> "check"], Flushed(store))

Die(s, n) == [s EXCEPT !.taskq = Append(@, Task("DIE", s, -1, Nothing))]

Close ==
    Running /\ Start([op |-> "close", step |-> "check"],
                     FoldLeft(Die, Flushed(store), [n \in 1 .. store.nthreads |-> n]))

Waiting ==
    \/ call.op = "get" /\ call.ind \in DOMAIN store.pendReads
    \/ call.op \in {"set", "del"} /\ call.ind \in DOMAIN store.pendWrites

Await ==
    /\ Waiting /\ store.resq # << >>
    /\ store' = ProcessFirst(store)
    /\ UNCHANGED <<file, copier, call, list>>

GetDone == call.op = "get" /\ ~Waiting /\ Start(NoCall, store)

SetDone ==
    /\ call.op = "set" /\ ~Waiting
    /\ store' = HandleOverflow([store EXCEPT !.buffer = With(@, call.ind, call.val),
                                             !.order  = MovedToEnd(@, call.ind)])
    /\ list' = With(list, call.ind, call.val)
    /\ call' = NoCall
    /\ UNCHANGED <<file, copier>>

\* Mutant: the file is deleted without an entry in the buffer.
DeleteUnbuffered ==
    /\ call.op = "del" /\ ~Waiting
    /\ LET i == call.ind
       IN  /\ store' = [Forget(store, i) EXCEPT !.taskq = Append(@, Task("DEL", store, i, Nothing)),
                                                !.len   = @ - 1]
           /\ list' = Without(list, {i})
    /\ call' = NoCall
    /\ UNCHANGED <<file, copier>>
DeleteDone ==
    /\ call.op = "del" /\ ~Waiting
    /\ LET i == call.ind
       IN  /\ store' = [store EXCEPT !.taskq      = Append(@, Task("DEL", store, i, Nothing)),
                                     !.buffer     = With(@, i, Nothing),
                                     !.order      = IF i \in DOMAIN store.buffer THEN @ ELSE Append(@, i),
                                     !.pendWrites = With(@, i, NewId(store)),
                                     !.len        = @ - 1]
           /\ list' = Without(list, {i})
    /\ call' = NoCall
    /\ UNCHANGED <<file, copier>>

(***************************************************************************)
(* _complete_tasks, at the end of Close and Pickle.                        *)
(***************************************************************************)
Completing(step) == call.op \in {"close", "pickle"} /\ call.step = step
GoTo(step) == [call EXCEPT !.step = step]

CheckQueues ==
    /\ Completing("check")
    /\ Start(GoTo(IF store.taskq = << >> /\ store.resq = << >> THEN "assert" ELSE "join"), store)

Join == Completing("join") /\ Unfinished = 0 /\ Start(GoTo("assert"), Sync(store))

AllComplete ==
    /\ store.taskq = << >> /\ store.resq = << >>
    /\ store.pendReads = << >> /\ store.pendWrites = << >>
    /\ call.op = "close" => store.nthreads = 0

\* An assertion that fails leaves the store to itself.
AssertComplete == Completing("assert") /\ Start(IF AllComplete THEN NoCall ELSE [op |-> "failed"], store)

(***************************************************************************)
(* The copiers.                                                            *)
(***************************************************************************)
Doing(t, pc) == copier' = [copier EXCEPT ![t].pc = pc]

Take(t) ==
    /\ copier[t].pc = "idle" /\ store.taskq # << >>
    /\ copier' = [copier EXCEPT ![t] = [pc |-> "took", task |-> Head(store.taskq)]]
    /\ store' = [store EXCEPT !.taskq = Tail(@)]
    /\ UNCHANGED <<file, call, list>>

Has(t, cmd) == copier[t].pc = "took" /\ copier[t].task.cmd = cmd
Ind(t)      == copier[t].task.ind

\* A file that is not there raises, which ends the thread.
Read(t) ==
    /\ Has(t, "GET")
    /\ IF Ind(t) \notin DOMAIN file THEN Doing(t, "dead")
       ELSE copier' = [copier EXCEPT ![t].pc = "worked", ![t].task.data = file[Ind(t)]]
    /\ UNCHANGED <<store, file, call, list>>

\* Opening the file for writing empties it.
Truncate(t) ==
    /\ Has(t, "PUT") /\ Doing(t, "writing")
    /\ file' = With(file, Ind(t), Nothing)
    /\ UNCHANGED <<store, call, list>>

Write(t) ==
    /\ copier[t].pc = "writing" /\ Doing(t, "worked")
    /\ file' = With(file, Ind(t), copier[t].task.data)
    /\ UNCHANGED <<store, call, list>>

Unlink(t) ==
    /\ Has(t, "DEL")
    /\ Doing(t, IF Ind(t) \in DOMAIN file THEN "worked" ELSE "dead")
    /\ file' = Without(file, {Ind(t)})
    /\ UNCHANGED <<store, call, list>>

\* The answer, and then task_done, which only _complete_tasks waits for.
Respond(t) ==
    /\ copier[t].pc = "worked" \/ Has(t, "DIE")
    /\ copier' = [copier EXCEPT ![t] = IF copier[t].task.cmd = "DIE" THEN Off ELSE Free]
    /\ store' = [store EXCEPT !.resq = Append(@, copier[t].task)]
    /\ UNCHANGED <<file, call, list>>

Copy(t) ==
    \/ Take(t) \/ Read(t) \/ Truncate(t) \/ Write(t) \/ Unlink(t) \/ Respond(t)

Continue == Await \/ GetDone \/ SetDone \/ DeleteDone \/ CheckQueues \/ Join \/ AssertComplete

Batches == {s \in SeqOf(Indices, BufSize) : s # << >> /\ IsInjective(s)}

Next ==
    \/ Open \/ Delete \/ Flush \/ Pickle \/ Close \/ Continue
    \/ \E i \in Indices : Get(i)
    \/ \E v \in Values : Insert(v) \/ \E i \in Indices : Set(i, v)
    \/ \E s \in Batches : Prefetch(s)
    \/ \E t \in Copiers : Copy(t)

Spec == Init /\ [][Next]_vars

Fairness == WF_vars(Continue) /\ \A t \in Copiers : WF_vars(Copy(t))
FairSpec == Spec /\ Fairness

-----------------------------------------------------------------------------
Dead == {t \in Copiers : copier[t].pc = "dead"}

\* The types of all variables, and what the comment at mt_ssh_store.py:174 says
\* of the pending operations: each is of a buffered block, none is a read and a
\* write.
TypeOK ==
    /\ DOMAIN store.buffer = ToSet(store.order) /\ IsInjective(store.order)
    /\ DOMAIN store.pendReads \cup DOMAIN store.pendWrites \subseteq DOMAIN store.buffer
    /\ DOMAIN store.pendReads \cap DOMAIN store.pendWrites = {}
    /\ store.len \in 0 .. MaxLen /\ store.nthreads \in 0 .. Cardinality(Copiers)
    /\ DOMAIN file \subseteq 0 .. MaxLen - 1
    /\ call = NoCall => DOMAIN list = Indices

\* Wherever a block is on its way, its current contents are in the buffer or,
\* when the buffer has no entry or waits for one, complete in the file.  The
\* block a call is about to set or delete is excepted.
BlockIsSomewhere ==
    \A i \in DOMAIN list :
        LET buffered == i \in DOMAIN store.buffer \ DOMAIN store.pendReads
        IN  IF call.op \in {"set", "del"} /\ call.ind = i THEN TRUE
            ELSE IF buffered THEN store.buffer[i] = list[i]
            ELSE i \in DOMAIN file /\ file[i] = list[i]

\* Whatever the threads do in the background, the calls are those of a plain
\* list: its length and contents change by a finished set, insert or delete and
\* by nothing else, not by opening, flushing or closing either; and what a get of
\* index i finds in the buffer, once it need not wait, is the contents of block
\* i: not those of another block, not older ones, and not Nothing, which is in
\* the buffer before the answer comes and in a file while it is written.
AsList == INSTANCE FileStore WITH
    files  <- list,
    length <- IF call.op = "set" THEN Cardinality(DOMAIN list) ELSE store.len,
    answer <- IF call.op = "get" /\ ~Waiting THEN <<call.ind, store.buffer[call.ind]>>
              ELSE << >>
ImplementsFileStore == AsList!Spec

\* No two threads have writes or deletes of one file in hand.
OneWriterPerFile ==
    \A t, u \in Taken :
        t # u /\ copier[t].task.cmd \in {"PUT", "DEL"} /\ copier[u].task.cmd \in {"PUT", "DEL"}
        => Ind(t) # Ind(u)

\* A read that a caller waits for finds its file.
AwaitedReadsSucceed ==
    \A t \in Dead : copier[t].task.cmd = "GET" => ~Current(store.pendReads, copier[t].task)

\* close(): "Writes everything back to the sftp store and stops all the threads."
ClosedIsStored ==
    call = NoCall /\ store.nthreads = 0 =>
        file = list /\ \A t \in Copiers : copier[t] = Off

\* What a call waits for is never answered: all threads have died, or one has
\* died with the delete that it waits for or, for a join, with any task.
Hopeless ==
    \/ Dead = Copiers
    \/ Dead # {} /\ call.op \in {"close", "pickle"}
    \/ Waiting /\ call.op # "get"
       /\ \E t \in Dead : copier[t].task.id = store.pendWrites[call.ind]

\* Every call ends, with an exception at worst, unless a thread has died with
\* what it waits for.
EveryCallEnds == call # NoCall ~> call.op \in {"none", "failed"} \/ Hopeless

\* Closing and pickling do not fail: the comment of _complete_tasks says that it
\* "Waits to complete all pending tasks in the queue", which its assertions,
\* mt_ssh_store.py:440-441 and 242, check.
TasksAreCompleted == call.op # "failed"
=============================================================================
