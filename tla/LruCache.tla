------------------------------ MODULE LruCache ------------------------------
(***************************************************************************)
(* LRUCache of mains/proxy.go: a map from keys to the entries of a doubly  *)
(* linked list, the most recently used entry at the head.  Every method    *)
(* holds the cache's mutex, so it is one operator on the cache.            *)
(*                                                                         *)
(* An entry is known by its key: the map holds at most one for each, and   *)
(* nothing points to an entry that has left the map.                       *)
(***************************************************************************)
EXTENDS Naturals, Sequences, FiniteSets, SequencesExt

CONSTANTS Capacity, Nil

ASSUME LruAssumption == Capacity \in Nat

With(f, x, e) == [y \in DOMAIN f \cup {x} |-> IF y = x THEN e ELSE f[y]]

EmptyCache == [entry |-> << >>, head |-> Nil, tail |-> Nil]

CachedKeys(c) == DOMAIN c.entry
Value(c, k)   == c.entry[k].value

\* Mutant: the tail that moves to the head stays the tail.
NewTailKept(c, k) == c.tail
NewTail(c, k) ==
    LET before == c.entry[k].prev
    IN  IF k # c.tail THEN c.tail ELSE IF before = Nil THEN k ELSE before

MoveToHead(c, k) ==
    LET e == c.entry[k]
        Relinked(x) ==
            [value |-> c.entry[x].value,
             next  |-> IF x = k THEN c.head
                       ELSE IF x = e.prev THEN e.next ELSE c.entry[x].next,
             prev  |-> IF x = k THEN Nil
                       ELSE IF x = c.head THEN k
                       ELSE IF x = e.next THEN e.prev ELSE c.entry[x].prev]
    IN  IF k = c.head THEN c
        ELSE [entry |-> [x \in CachedKeys(c) |-> Relinked(x)],
              head  |-> k,
              tail  |-> NewTail(c, k)]

Evict(c) ==
    LET last == c.tail
        rest == [x \in CachedKeys(c) \ {last} |-> c.entry[x]]
    IN  IF last = Nil THEN c
        ELSE IF c.head = last THEN [entry |-> rest, head |-> Nil, tail |-> Nil]
        ELSE [c EXCEPT !.entry = [rest EXCEPT ![c.entry[last].prev].next = Nil],
                       !.tail  = c.entry[last].prev]

AddAtHead(c, k, v) ==
    LET new == [value |-> v, next |-> c.head, prev |-> Nil]
    IN  IF c.head = Nil THEN [entry |-> With(c.entry, k, new), head |-> k, tail |-> k]
        ELSE [c EXCEPT !.entry = With([@ EXCEPT ![c.head].prev = k], k, new), !.head = k]

Put(c, k, v) ==
    IF k \in CachedKeys(c) THEN MoveToHead([c EXCEPT !.entry[k].value = v], k)
    ELSE LET grown == AddAtHead(c, k, v)
         IN  IF Cardinality(CachedKeys(grown)) > Capacity THEN Evict(grown) ELSE grown

(***************************************************************************)
(* The cache as its users see it: the keys in order of their last use.     *)
(***************************************************************************)
Follow(c, from, link) ==
    LET n == Cardinality(CachedKeys(c))
        walk[i \in 0 .. n] ==
            IF i = 0 THEN << >>
            ELSE LET w == walk[i - 1]
                     x == IF w = << >> THEN from ELSE c.entry[w[Len(w)]][link]
                 IN  IF x \in CachedKeys(c) THEN Append(w, x) ELSE w
    IN  walk[n]

Removed(order, k) ==
    IF k \in ToSet(order)
    THEN RemoveAt(order, CHOOSE n \in DOMAIN order : order[n] = k) ELSE order
Used(order, k) == <<k>> \o Removed(order, k)
Dropped(order) == SubSeq(order, 1, Len(order) - 1)
=============================================================================
