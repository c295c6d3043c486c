------------------------------ MODULE FileStore ------------------------------
(***************************************************************************)
(* fstore.py: a list of blocks kept as local files, one call at a time.    *)
(* It is also what a list of blocks promises, and so the specification     *)
(* that the threads and the buffer of SshStore implement.                  *)
(***************************************************************************)
EXTENDS Integers

CONSTANT
    Values    \* contents of blocks

VARIABLES
    files,    \* <index>.fstore: contents by index
    length,   \* _len
    answer    \* the index that __getitem__ was called with and what it has
              \* read, until its caller has it; NoAnswer otherwise

fvars == <<files, length, answer>>

\* Not a pair, and so not the answer to any call, whatever a file holds.
NoAnswer == << >>

With(f, i, v) == [x \in DOMAIN f \cup {i} |-> IF x = i THEN v ELSE f[x]]

\* _determine_len: doubles upper until there is no such file, then halves the
\* interval.  Exists is the set of indices that have a file.
DetermineLen(Exists) ==
    LET gallop[u \in Nat] == IF u \in Exists THEN gallop[2 * u] ELSE u
        search[b \in Nat \X Nat] ==
            LET mid == (b[1] + b[2]) \div 2 IN
            IF b[1] >= b[2] THEN b[1]
            ELSE IF mid \in Exists THEN search[<<mid + 1, b[2]>>]
            ELSE search[<<b[1], mid>>]
    IN  search[<<0, gallop[1]>>]

Init == files = << >> /\ length = 0 /\ answer = NoAnswer

\* A process opens the directory of an earlier one.
Reopen ==
    /\ length' = DetermineLen(DOMAIN files)
    /\ answer' = NoAnswer /\ UNCHANGED files

Get(i) ==
    /\ i \in 0 .. length - 1
    /\ answer' = <<i, files[i]>> /\ UNCHANGED <<files, length>>

Got == answer' = NoAnswer /\ UNCHANGED <<files, length>>

Set(i, v) ==
    /\ i \in 0 .. length - 1
    /\ files' = With(files, i, v)
    /\ UNCHANGED <<length, answer>>

\* Only at the end.
Insert(v) ==
    /\ length' = length + 1
    /\ files' = With(files, length, v)
    /\ UNCHANGED answer

Delete ==
    /\ length > 0
    /\ length' = length - 1
    /\ files' = [i \in DOMAIN files \ {length - 1} |-> files[i]]
    /\ UNCHANGED answer

Next ==
    \/ Reopen \/ Got \/ Delete
    \/ \E v \in Values : Insert(v) \/ \E i \in 0 .. length - 1 : Set(i, v)
    \/ \E i \in 0 .. length - 1 : Get(i)

Spec == Init /\ [][Next]_fvars
=============================================================================
