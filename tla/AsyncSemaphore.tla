--------------------------- MODULE AsyncSemaphore ---------------------------
(***************************************************************************)
(* The class AsyncSemaphore of                                             *)
(* src/server/src/agents/application-orchestration-service.ts: it bounds   *)
(* the workflow nodes that hold an agent run at the same time, over all    *)
(* orchestrations.  A caller that finds no place waits for a grant or for  *)
(* the abort of its orchestration, whichever comes first.                  *)
(*                                                                         *)
(* release() gives the place back and resolves the promise of the first    *)
(* waiter; the waiter takes the place only in the continuation of its      *)
(* await, a job of its own.  The class relies on that job running before   *)
(* any other call of the semaphore or abort of the waiter's signal:        *)
(* GrantRunsFirst says whether it does.                                    *)
(***************************************************************************)
EXTENDS Naturals, Sequences, FiniteSets, Functions

CONSTANTS
    Callers,         \* the node executions that ask for a place
    Signals,         \* the abort signals, one per orchestration
    SignalOf,        \* the signal an execution passes
    Maximum,         \* maxParallelNodes
    GrantRunsFirst   \* no other job runs between a grant and its continuation

ASSUME SemaphoreAssumption ==
    /\ IsFiniteSet(Callers)
    /\ SignalOf \in [Callers -> Signals]
    /\ Maximum \in Nat \ {0}
    /\ GrantRunsFirst \in BOOLEAN

VARIABLES
    pc,        \* where each execution stands
    active,    \* the counter of the class
    waiters,   \* the pending grants, in array order
    aborted    \* the signals that have been aborted

vars == <<pc, active, waiters, aborted>>

Places == {"out", "waiting", "granted", "holding", "refused"}

TypeOK ==
    /\ pc \in [Callers -> Places]
    /\ active \in Nat
    /\ waiters \in Seq(Callers)
    /\ aborted \subseteq Signals

Init ==
    /\ pc = [c \in Callers |-> "out"]
    /\ active = 0
    /\ waiters = <<>>
    /\ aborted = {}

IsAborted(c) == SignalOf[c] \in aborted

Holders == {c \in Callers : pc[c] = "holding"}

\* The positions in S, in increasing order.
Increasing(S) ==
    {f \in Bijection(1 .. Cardinality(S), S) :
        \A i, j \in 1 .. Cardinality(S) : i < j => f[i] < f[j]}

\* Whether a job other than the continuation of a grant may run now.
JobMayRun == GrantRunsFirst => \A c \in Callers : pc[c] # "granted"

-----------------------------------------------------------------------------
(* acquire() *)

\* The first line of acquire(): an aborted signal is refused outright.
AcquireRefused(c) ==
    /\ JobMayRun
    /\ pc[c] = "out"
    /\ IsAborted(c)
    /\ pc' = [pc EXCEPT ![c] = "refused"]
    /\ UNCHANGED <<active, waiters, aborted>>

\* Mutant: the comparison of the counter is off by one.
AcquireFreeAtMaximum(c) ==
    /\ JobMayRun
    /\ pc[c] = "out"
    /\ ~IsAborted(c)
    /\ active <= Maximum
    /\ active' = active + 1
    /\ pc' = [pc EXCEPT ![c] = "holding"]
    /\ UNCHANGED <<waiters, aborted>>

\* A place is free: it is taken without any await in between.
AcquireFree(c) ==
    /\ JobMayRun
    /\ pc[c] = "out"
    /\ ~IsAborted(c)
    /\ active < Maximum
    /\ active' = active + 1
    /\ pc' = [pc EXCEPT ![c] = "holding"]
    /\ UNCHANGED <<waiters, aborted>>

\* No place is free: the grant is queued and the abort listener added.
AcquireWaits(c) ==
    /\ JobMayRun
    /\ pc[c] = "out"
    /\ ~IsAborted(c)
    /\ active >= Maximum
    /\ waiters' = Append(waiters, c)
    /\ pc' = [pc EXCEPT ![c] = "waiting"]
    /\ UNCHANGED <<active, aborted>>

\* Mutant: the place is not counted again after the wait.
ContinueUncounted(c) ==
    /\ pc[c] = "granted"
    /\ pc' = [pc EXCEPT ![c] = IF IsAborted(c) THEN "refused" ELSE "holding"]
    /\ UNCHANGED <<active, waiters, aborted>>

\* The continuation of a granted acquire(): the second look at the signal.
Continue(c) ==
    /\ pc[c] = "granted"
    /\ IF IsAborted(c)
       THEN /\ pc' = [pc EXCEPT ![c] = "refused"]
            /\ UNCHANGED active
       ELSE /\ pc' = [pc EXCEPT ![c] = "holding"]
            /\ active' = active + 1
    /\ UNCHANGED <<waiters, aborted>>

-----------------------------------------------------------------------------
(* release(), and the abort of an orchestration *)

\* The closure acquire() returned, called in the finally of executeNode(); a
\* second call of it does nothing.  The execution may ask again, for its next
\* attempt.
Release(c) ==
    /\ JobMayRun
    /\ pc[c] = "holding"
    /\ active' = active - 1
    /\ IF waiters = <<>>
       THEN /\ pc' = [pc EXCEPT ![c] = "out"]
            /\ UNCHANGED waiters
       ELSE /\ pc' = [pc EXCEPT ![c] = "out", ![Head(waiters)] = "granted"]
            /\ waiters' = Tail(waiters)
    /\ UNCHANGED aborted

\* controller.abort(): every waiter of the signal leaves the array and is
\* refused.
Abort(s) ==
    /\ JobMayRun
    /\ s \notin aborted
    /\ aborted' = aborted \union {s}
    /\ \E kept \in Increasing({i \in DOMAIN waiters : SignalOf[waiters[i]] # s}) :
         waiters' = [i \in DOMAIN kept |-> waiters[kept[i]]]
    /\ pc' = [c \in Callers |->
                IF pc[c] = "waiting" /\ SignalOf[c] = s THEN "refused" ELSE pc[c]]
    /\ UNCHANGED active

Next ==
    \/ \E c \in Callers : \/ AcquireRefused(c)
                          \/ AcquireFree(c)
                          \/ AcquireWaits(c)
                          \/ Continue(c)
                          \/ Release(c)
    \/ \E s \in Signals : Abort(s)

Spec == Init /\ [][Next]_vars

-----------------------------------------------------------------------------
(* Properties *)

\* maxParallelNodes: never more executions hold a place than the maximum,
\* although release() gives the place back before the next one takes it.
AtMostMaximum == Cardinality(Holders) <= Maximum

\* An execution waits in the array exactly as long as its acquire() is
\* pending: grant, abort and array agree, and nobody waits twice.
WaitersWait ==
    /\ \A i, j \in DOMAIN waiters : waiters[i] = waiters[j] => i = j
    /\ {waiters[i] : i \in DOMAIN waiters} = {c \in Callers : pc[c] = "waiting"}

\* No lost wake-up: while somebody waits, every place is taken or granted,
\* whatever was aborted meanwhile.
NoIdlePlace ==
    waiters # <<>> =>
        active + Cardinality({c \in Callers : pc[c] = "granted"}) = Maximum

\* maxParallelNodes is a bound, and one that is used while anybody waits.
PlacesUsed == AtMostMaximum /\ NoIdlePlace

\* A first come waiter is not overtaken: a place is handed to the head of the
\* array as long as somebody waits.
FirstComeFirstServed ==
    [][\A c \in Callers :
         (pc[c] = "out" /\ pc'[c] = "holding") => waiters = <<>>]_vars

=============================================================================
