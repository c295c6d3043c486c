------------------------------- MODULE Gateways -------------------------------
(***************************************************************************)
(* The two programs that serve the batches of module Gateway: secure.go    *)
(* over the EMM server (Locker) and mains/plaintext.go over etcd           *)
(* (Plaintext).  Which one runs is chosen at the start; what is said of    *)
(* their common part is then checked of both.                              *)
(***************************************************************************)
EXTENDS Gateway

CONSTANTS
    Keys, NumBlocks, Parts, Blank, IntactChoices, MaxFaults, MaxHirbRestarts,
    MaxEmmRestarts, DisjointKeys,
                   \* all as in Locker, but DisjointKeys for either program
    MaxDeadlines   \* bound, as in Plaintext

ASSUME GatewaysAssumption ==
    /\ Blank \notin Items
    /\ IntactChoices \subseteq BOOLEAN /\ IntactChoices # {}

VARIABLES
    program,   \* "secure" or "plaintext"
    idCounter, block, intact, index, op, key, pc, idx, todo, view, got, before,
    faults, hirbRestarts, emmRestarts,   \* as in Locker
    kv, call, expired                    \* as in Plaintext

L == INSTANCE Locker
P == INSTANCE Plaintext

vars == <<program, gvars, L!emm, kv, call, expired>>

Secure    == program = "secure" /\ UNCHANGED <<program, kv, call, expired>>
InEmm     == <<idCounter, block, intact, index, pc, idx, todo, view,
               hirbRestarts, emmRestarts>>
Plaintext == program = "plaintext" /\ UNCHANGED <<program, InEmm>>
-----------------------------------------------------------------------------
Init ==
    \/ program = "secure" /\ L!Init /\ P!EtcdInit
    \/ program = "plaintext" /\ L!Init /\ P!PInit

SecureSend(b)    == Secure /\ L!Send(b)
SecureHandler(b) == Secure /\ L!GatewayHandler(b)
SecureItem(t)    == Secure /\ L!GatewayItem(t)
SecureCall(t)    == Secure /\ L!Call(t)
SecureServe(t)   == Secure /\ L!Serve(t)
SecureResult(t)  == Secure /\ L!Result(t)
SecureHirb       == Secure /\ L!HirbRestarts
SecureCrash      == Secure /\ L!Crash

PlainSend(b)    == Plaintext /\ (DisjointKeys => L!MaySend(b)) /\ P!Start(b)
PlainHandler(b) == Plaintext /\ P!PHandler(b)
PlainItem(t)    == Plaintext /\ P!PGoroutine(t)
PlainExpire(b)  == Plaintext /\ P!Expire(b)
PlainAsk(t)     == Plaintext /\ P!Ask(t)
PlainApply(t)   == Plaintext /\ P!Apply(t)
PlainReturn(t)  == Plaintext /\ P!Return(t)
PlainFail(t)    == Plaintext /\ P!Fail(t)
PlainTimeOut(t) == Plaintext /\ P!TimeOut(t)

Next ==
    \/ \E b \in Batches : SecureSend(b) \/ SecureHandler(b)
    \/ \E t \in Items :
        SecureItem(t) \/ SecureCall(t) \/ SecureServe(t) \/ SecureResult(t)
    \/ SecureHirb \/ SecureCrash
    \/ \E b \in Batches : PlainSend(b) \/ PlainHandler(b) \/ PlainExpire(b)
    \/ \E t \in Items :
        \/ PlainItem(t) \/ PlainAsk(t) \/ PlainApply(t) \/ PlainReturn(t)
        \/ PlainFail(t) \/ PlainTimeOut(t)

Spec == Init /\ [][Next]_vars

\* Goroutines are scheduled and the calls between the secure processes return.
\* At any time at most one of the steps of an item can be taken, so one
\* condition covers them all; each goroutine takes the mutex once, so weak
\* fairness gets all of them through.  Nothing is assumed of etcd, but time
\* passes, and a call whose context is over returns.
ItemStep(t) ==
    \/ SecureItem(t) \/ SecureCall(t) \/ SecureServe(t) \/ SecureResult(t)
    \/ PlainItem(t) \/ PlainTimeOut(t)

Fairness ==
    /\ \A b \in Batches :
        WF_vars(SecureHandler(b) \/ PlainHandler(b)) /\ WF_vars(PlainExpire(b))
    /\ \A t \in Items : WF_vars(ItemStep(t))

FairSpec == Spec /\ Fairness
-----------------------------------------------------------------------------
TypeOK ==
    /\ program \in {"secure", "plaintext"}
    /\ GTypeOK
    /\ program = "plaintext" => P!PTypeOK

\* secure.go answers a batch with the last writes of earlier batches, those
\* excepted whose ciphertexts storage has damaged.
AnswersLastWrite == program = "secure" => L!AnswersLastWrite

\* plaintext.go answers a batch with what etcd acknowledged, and nothing stale.
PlaintextAnswers == program = "plaintext" => P!PlaintextAnswers

\* Every request that reaches the EMM server is answered, whatever fails or
\* restarts meanwhile.
EveryRequestAnswered == L!EveryRequestAnswered
=============================================================================
