------------------------ MODULE OrchestrationRunner ------------------------
(***************************************************************************)
(* One call of OrchestrationRunner.run(): the loop over the levels of the  *)
(* workflow (src/server/src/agents/orchestration-runner.ts) with the       *)
(* coordinator, the budget and the retry decision it uses                  *)
(* (src/server/src/agents/security-orchestration.ts).                      *)
(*                                                                         *)
(* The plan is one that validateOrchestrationPlan() accepts: an acyclic    *)
(* graph, at least one attempt per node, and an iteration budget per node  *)
(* that covers its attempts, so only the total of the plan can run out.    *)
(* Usage other than iterations is abstracted to what consume() tells: it   *)
(* fits, or it exceeds the budget of the node or of the plan.              *)
(*                                                                         *)
(* The executor is what the caller passes; it answers with any result the  *)
(* interface allows, and at any time.  ready.map() starts the nodes of one *)
(* level without interruption, in the order of the plan: any order here.   *)
(***************************************************************************)
EXTENDS Naturals, FiniteSets

CONSTANTS
    Node,              \* the nodes of the plan
    DependsOn,         \* the nodes a node waits for
    Gated,             \* the nodes with a gate nobody has resolved
    FailFast,          \* the nodes whose failureStrategy is fail_fast
    SideEffect,        \* sideEffect of each node
    MaxAttempts,       \* retry.maxAttempts of each node
    TotalIterations    \* totalBudget.iterations of the plan

ASSUME RunnerAssumption ==
    /\ DependsOn \in [Node -> SUBSET Node]
    /\ Gated \subseteq Node
    /\ FailFast \subseteq Node
    /\ SideEffect \in [Node -> {"none", "idempotent_local", "non_idempotent"}]
    /\ MaxAttempts \in [Node -> Nat \ {0}]
    /\ TotalIterations \in Nat

\* Some node of any part of the plan depends on no other of that part: there is no cycle.
ASSUME AcyclicAssumption ==
    \A part \in SUBSET Node \ {{}} : \E n \in part : DependsOn[n] \cap part = {}

VARIABLES
    status,      \* coordinator: the status of each node
    attempts,    \* coordinator: the attempts of each node
    pc,          \* where executeNode() of a node stands
    transient,   \* whether the last failure of a node is a transient one
    toStart,     \* the nodes of the level that ready.map() has not reached
    batch,       \* the nodes Promise.all() waits for
    used,        \* iterations consumed from the total budget
    exceeded,    \* totalBudget.exceededKey is set
    aborted,     \* the controller of run() is aborted
    result       \* how run() has ended

local == <<attempts, pc, transient>>
vars == <<status, attempts, pc, transient, toStart, batch, used, exceeded,
          aborted, result>>

Broken == {"failed", "cancelled", "policy_blocked"}
Statuses == {"pending", "running", "succeeded", "skipped"} \union Broken

TypeOK ==
    /\ status \in [Node -> Statuses]
    /\ attempts \in [Node -> Nat]
    /\ pc \in [Node -> {"idle", "executing", "authorizing", "delaying", "returned", "threw"}]
    /\ transient \in [Node -> BOOLEAN]
    /\ toStart \subseteq Node
    /\ batch \subseteq Node
    /\ used \in Nat
    /\ exceeded \in BOOLEAN
    /\ aborted \in BOOLEAN
    /\ result \in {"none", "succeeded", "failed", "cancelled", "waiting_for_gate", "rejected"}

Init ==
    /\ status = [n \in Node |-> "pending"]
    /\ attempts = [n \in Node |-> 0]
    /\ pc = [n \in Node |-> "idle"]
    /\ transient = [n \in Node |-> FALSE]
    /\ toStart = {}
    /\ batch = {}
    /\ used = 0
    /\ exceeded = FALSE
    /\ aborted = FALSE
    /\ result = "none"

-----------------------------------------------------------------------------
(* The coordinator *)

\* Mutant: only what is running is waited for.
ReadyUnlessRunning(n) ==
    /\ status[n] = "pending"
    /\ n \notin Gated
    /\ \A d \in DependsOn[n] : status[d] # "running"

\* readyNodes(): the gates are resolved and the dependencies have succeeded.
Ready(n) ==
    /\ status[n] = "pending"
    /\ n \notin Gated
    /\ \A d \in DependsOn[n] : status[d] = "succeeded"

\* Mutant: skipDependents() does not recurse.
DirectDependents(n) == {m \in Node : n \in DependsOn[m]}

\* The nodes skipDependents() reaches from n: the least set that holds the
\* nodes that depend on n and those that depend on one of its elements.
Dependents(n) ==
    {m \in Node :
       \A S \in SUBSET Node :
         (\A k \in Node : n \in DependsOn[k] \/ DependsOn[k] \cap S # {} => k \in S)
            => m \in S}

\* Mutant: the milder strategy for all nodes.
SkippedByDependence(n) == {m \in Dependents(n) : status[m] = "pending"}

\* The nodes fail() skips, among those that are still pending.
SkippedBy(n) ==
    {m \in Node : status[m] = "pending" /\ (n \in FailFast \/ m \in Dependents(n))}

\* fail(): the node is broken, and the failure propagates as it declares.
Fail(n, s) ==
    /\ status' = [m \in Node |-> IF m = n THEN s
                                 ELSE IF m \in SkippedBy(n) THEN "skipped"
                                 ELSE status[m]]
    /\ pc' = [pc EXCEPT ![n] = "returned"]

-----------------------------------------------------------------------------
(* The loop of run() *)

\* Every executeNode() of the level has returned.
LevelDone ==
    /\ result = "none"
    /\ toStart = {}
    /\ \A n \in batch : pc[n] = "returned"

\* The loop finds the signal aborted.
LoopAborted ==
    /\ LevelDone
    /\ aborted
    /\ result' = "cancelled"
    /\ UNCHANGED <<status, local, toStart, batch, used, exceeded, aborted>>

Pending == {n \in Node : status[n] = "pending"}

\* The status of the report when no node is ready any more.
ReportStatus ==
    IF Pending # {} THEN "waiting_for_gate"
    ELSE IF \A n \in Node : status[n] = "succeeded" THEN "succeeded"
    ELSE IF \E n \in Node : status[n] = "cancelled" THEN "cancelled"
    ELSE "failed"

LoopReports ==
    /\ LevelDone
    /\ ~aborted
    /\ ~\E n \in Node : Ready(n)
    /\ result' = ReportStatus
    /\ UNCHANGED <<status, local, toStart, batch, used, exceeded, aborted>>

\* The next level: every ready node is handed to executeNode().
LoopStarts ==
    /\ LevelDone
    /\ ~aborted
    /\ \E n \in Node : Ready(n)
    /\ toStart' = {n \in Node : Ready(n)}
    /\ batch' = {n \in Node : Ready(n)}
    /\ UNCHANGED <<status, local, used, exceeded, aborted, result>>

\* Promise.all() rejects as soon as one executeNode() has thrown; the others
\* go on, and the abort listener of run() is removed.
LoopThrows ==
    /\ result = "none"
    /\ toStart = {}
    /\ \E n \in batch : pc[n] = "threw"
    /\ result' = "rejected"
    /\ UNCHANGED <<status, local, toStart, batch, used, exceeded, aborted>>

\* The caller aborts while run() listens.
Abort ==
    /\ result = "none"
    /\ toStart = {}
    /\ ~aborted
    /\ aborted' = TRUE
    /\ UNCHANGED <<status, local, toStart, batch, used, exceeded, result>>

-----------------------------------------------------------------------------
(* executeNode() *)

\* Mutant: the total is compared before it is increased.
AttemptWithinUsed(n) ==
    IF aborted
    THEN Fail(n, "cancelled") /\ UNCHANGED <<used, exceeded>>
    ELSE IF used > TotalIterations
    THEN Fail(n, "policy_blocked") /\ exceeded' = TRUE /\ UNCHANGED used
    ELSE /\ used' = used + 1
         /\ status' = [status EXCEPT ![n] = "running"]
         /\ pc' = [pc EXCEPT ![n] = "executing"]
         /\ UNCHANGED exceeded

\* The head of the retry loop: the signal, the iteration budgets, then the
\* executor is called.
Attempt(n) ==
    IF aborted
    THEN Fail(n, "cancelled") /\ UNCHANGED <<used, exceeded>>
    ELSE IF used + 1 > TotalIterations
    THEN Fail(n, "policy_blocked") /\ exceeded' = TRUE /\ UNCHANGED used
    ELSE /\ used' = used + 1
         /\ status' = [status EXCEPT ![n] = "running"]
         /\ pc' = [pc EXCEPT ![n] = "executing"]
         /\ UNCHANGED exceeded

\* start() and the first attempt, in one run of ready.map().
StartNode(n) ==
    /\ n \in toStart
    /\ Ready(n)
    /\ toStart' = toStart \ {n}
    /\ attempts' = [attempts EXCEPT ![n] = @ + 1]
    /\ Attempt(n)
    /\ UNCHANGED <<transient, batch, aborted, result>>

\* A node that broke earlier in the same run of ready.map() has skipped this
\* one: start() throws.
StartThrows(n) ==
    /\ n \in toStart
    /\ ~Ready(n)
    /\ toStart' = toStart \ {n}
    /\ pc' = [pc EXCEPT ![n] = "threw"]
    /\ UNCHANGED <<status, attempts, transient, batch, used, exceeded, aborted, result>>

\* Whatever comes back from an await does so between two runs of ready.map().
Resumes(n, place) == toStart = {} /\ pc[n] = place

\* The executor succeeds within the budgets and with declared outputs.
ExecutorSucceeds(n) ==
    /\ Resumes(n, "executing")
    /\ status' = [status EXCEPT ![n] = "succeeded"]
    /\ pc' = [pc EXCEPT ![n] = "returned"]
    /\ UNCHANGED <<attempts, transient, toStart, batch, used, exceeded, aborted, result>>

\* The usage of the call exceeds a budget, or an output is not declared:
\* policy_blocked, whatever the result was.
ExecutorBlocked(n) ==
    /\ Resumes(n, "executing")
    /\ \E overTotal \in BOOLEAN : exceeded' = (exceeded \/ overTotal)
    /\ Fail(n, "policy_blocked")
    /\ UNCHANGED <<attempts, transient, toStart, batch, used, aborted, result>>

\* The executor reports that the node was cancelled.
ExecutorCancelled(n) ==
    /\ Resumes(n, "executing")
    /\ Fail(n, "cancelled")
    /\ UNCHANGED <<attempts, transient, toStart, batch, used, exceeded, aborted, result>>

\* decideRetry() and canStart(): the node may be tried again.
Retries(n, safe) ==
    /\ attempts[n] < MaxAttempts[n]
    /\ transient'[n]
    /\ SideEffect[n] = "non_idempotent" => safe
    /\ ~(exceeded /\ SideEffect[n] # "none")
    /\ used + 1 <= TotalIterations

Decide(n, safe) ==
    IF Retries(n, safe)
    THEN pc' = [pc EXCEPT ![n] = "delaying"] /\ UNCHANGED status
    ELSE Fail(n, "failed")

\* The executor fails or rejects: without side effects the retry is decided
\* at once, otherwise authorizeRetry() is asked first.
ExecutorFails(n) ==
    /\ Resumes(n, "executing")
    /\ \E t \in BOOLEAN : transient' = [transient EXCEPT ![n] = t]
    /\ IF SideEffect[n] = "none"
       THEN Decide(n, FALSE)
       ELSE pc' = [pc EXCEPT ![n] = "authorizing"] /\ UNCHANGED status
    /\ UNCHANGED <<attempts, toStart, batch, used, exceeded, aborted, result>>

\* The answer of authorizeRetry(): a fresh approval and a passed check, or not.
Authorized(n) ==
    /\ Resumes(n, "authorizing")
    /\ UNCHANGED transient
    /\ \E safe \in BOOLEAN : Decide(n, safe)
    /\ UNCHANGED <<attempts, toStart, batch, used, exceeded, aborted, result>>

\* The backoff has passed: retry() and the next attempt.
DelayEnds(n) ==
    /\ Resumes(n, "delaying")
    /\ attempts' = [attempts EXCEPT ![n] = @ + 1]
    /\ Attempt(n)
    /\ UNCHANGED <<transient, toStart, batch, aborted, result>>

\* The abort ends the backoff.
DelayAborted(n) ==
    /\ Resumes(n, "delaying")
    /\ aborted
    /\ Fail(n, "cancelled")
    /\ UNCHANGED <<attempts, transient, toStart, batch, used, exceeded, aborted, result>>

Executor(n) ==
    \/ ExecutorSucceeds(n)
    \/ ExecutorBlocked(n)
    \/ ExecutorCancelled(n)
    \/ ExecutorFails(n)

Loop == LoopAborted \/ LoopReports \/ LoopStarts \/ LoopThrows

Next ==
    \/ Loop
    \/ Abort
    \/ \E n \in Node : \/ StartNode(n)
                       \/ StartThrows(n)
                       \/ Executor(n)
                       \/ Authorized(n)
                       \/ DelayEnds(n)
                       \/ DelayAborted(n)

Spec == Init /\ [][Next]_vars

\* What goes on without an abort: the loop and the continuations run; the executor
\* answers (the service that passes it polls until its agent run is terminal or its
\* deadline passes), and the timer of the backoff fires.
GoesOn ==
    Loop \/ \E n \in Node : StartNode(n) \/ StartThrows(n) \/ Executor(n) \/ Authorized(n) \/ DelayEnds(n)

-----------------------------------------------------------------------------
(* Properties *)

Started(n) == status[n] \in {"running", "succeeded"} \union Broken

\* A node is executed only after everything it depends on has succeeded.
DependenciesFirst ==
    \A n \in Node : Started(n) => \A d \in DependsOn[n] : status[d] = "succeeded"

\* A failure, a cancellation or a policy block propagates as declared: what
\* depends on the broken node never runs, and after a fail_fast node breaks
\* nothing is left to be started; whatever is running at that moment.
FailurePropagates ==
    \A f \in Node : status[f] \in Broken =>
        /\ \A n \in Dependents(f) : status[n] = "skipped"
        /\ f \in FailFast => Pending = {}

\* waiting_for_gate means that nothing but gates holds the rest back: every
\* node left has an open gate itself or waits for one that has.
WaitsOnlyForGates ==
    result = "waiting_for_gate" =>
        \A n \in Pending : \E g \in Gated \cap Pending : n = g \/ n \in Dependents(g)

\* The budget of iterations and the limit of attempts hold, whatever fails
\* and is tried again at the same time.
BudgetsKept ==
    /\ used <= TotalIterations
    /\ \A n \in Node : attempts[n] <= MaxAttempts[n]

\* run() never waits for what does not come.
NeverWaits == result = "none" => ENABLED GoesOn

\* The runner keeps the promises of DagExecution.
Dag == INSTANCE DagExecution WITH Node <- Node, DependsOn <- DependsOn, status <- status, result <- result

Implements == Dag!Spec

=============================================================================
