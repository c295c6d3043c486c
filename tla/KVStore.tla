------------------------------- MODULE KVStore -------------------------------
(***************************************************************************)
(* What the EMM promises its clients: a linearizable map.  A request is    *)
(* called, takes effect atomically at one instant, and then returns.  The  *)
(* value a "set" stores is the request itself; it may be lost, but only    *)
(* at that instant and for good.                                           *)
(***************************************************************************)
CONSTANTS
    Requests,   \* operations ever called
    Keys,       \* keys of the map
    IntactChoices,  \* may a "set" keep its value / lose it
    Blank       \* "no value"

VARIABLES
    op, key,    \* what each request asks for
    st,         \* idle -> called -> applied | rejected -> returned
    map,        \* the map
    out         \* what each "get" returns

vars == <<op, key, st, map, out>>

Init ==
    /\ st = [r \in Requests |-> "idle"]
    /\ map = [k \in Keys |-> Blank]
    /\ out = [r \in Requests |-> Blank]

Call(r) ==
    /\ st[r] = "idle"
    /\ st' = [st EXCEPT ![r] = "called"]
    /\ UNCHANGED <<op, key, map, out>>

\* The linearization point.
Apply(r) ==
    /\ st[r] = "called"
    /\ st' = [st EXCEPT ![r] = "applied"]
    /\ \/ /\ op[r] = "set" /\ UNCHANGED out
          /\ \E c \in IntactChoices : map' = [map EXCEPT ![key[r]] = IF c THEN r ELSE Blank]
       \/ op[r] = "del" /\ map' = [map EXCEPT ![key[r]] = Blank] /\ UNCHANGED out
       \/ op[r] = "get" /\ out' = [out EXCEPT ![r] = map[key[r]]] /\ UNCHANGED map
    /\ UNCHANGED <<op, key>>

\* An operation that is not supported has no effect.
Reject(r) ==
    /\ st[r] = "called" /\ op[r] = "other"
    /\ st' = [st EXCEPT ![r] = "returned"]
    /\ UNCHANGED <<op, key, map, out>>

Return(r) ==
    /\ st[r] = "applied"
    /\ st' = [st EXCEPT ![r] = "returned"]
    /\ UNCHANGED <<op, key, map, out>>

Serve(r) == Apply(r) \/ Reject(r) \/ Return(r)

Next == \E r \in Requests : Call(r) \/ Serve(r)

Spec == Init /\ [][Next]_vars
FairSpec == Spec /\ \A r \in Requests : WF_vars(Serve(r))
=============================================================================
